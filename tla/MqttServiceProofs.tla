------------------------- MODULE MqttServiceProofs -------------------------
(***************************************************************************)
(* Proofs about MqttService, for any topics, clients and listeners and any *)
(* number of calls.  Inv is the inductive invariant.  It says who owns     *)
(* operationMutex_ (Lock), what the owner may do to client_ (Ownership),   *)
(* which client a callback speaks for (Callback), where each listener is   *)
(* (Listeners), that shuttingDown_ stays set once Run is leaving (Closed), *)
(* what a thread still has to send (Todo) and what a status of Connected   *)
(* says about the connection (Connection).  Each of the model's four       *)
(* safety properties is a conjunct of it or follows from one.              *)
(***************************************************************************)
EXTENDS MqttService, SequenceFacts, TLAPS

Statuses == {"Offline", "Connecting", "Connected", "Reconnecting",
             "Disconnecting", "Error"}
Calls == {"connect", "disconnect", "subscribe", "unsubscribe", "publish"}
Waiting == {"wait1", "wait2", "wait3"}
Testing == {"test1", "test2", "test3"}

(* Where a thread owns operationMutex_. *)
Holding == {"disconnecting", "release", "drop", "clear", "offline",
            "connecting", "create", "dial"}
Sending == {"track", "send"}
RunPlaces == Holding \cup Waiting \cup Testing
                \cup {"loop", "connect", "disconnect", "done",
                      "block1", "block2", "block3"}
CallerPlaces == Sending \cup {"idle", "disconnecting", "release", "drop",
                              "clear", "offline"}
CallbackPlaces == Sending \cup {"idle", "enter", "lost", "losing", "refused"}

Records == [at : RunPlaces \cup CallerPlaces \cup CallbackPlaces,
            copy : Clients \cup {None}, call : Calls \cup {None},
            todo : SUBSET Topics, op : Ops \cup {None}]
Requests == [kind : Calls \cup {None}, topic : Topics, op : Ops]
Links == [net : {"closed", "idle", "connecting", "up", "down"},
          requests : Seq(Requests), broker : SUBSET Topics]

TypeOK ==
    /\ status \in Statuses
    /\ shuttingDown \in BOOLEAN
    /\ client \in Clients \cup {None}
    /\ subscriptions \in SUBSET Topics
    /\ pending \in SUBSET Ops
    /\ operationMutex \in Threads \cup {None}
    /\ thread \in [Threads -> Records]
    /\ source \in [client : Clients \cup {None}, again : BOOLEAN]
    /\ link \in [Clients -> Links]
    /\ stale \in BOOLEAN

Places ==
    /\ At("run") \in RunPlaces
    /\ At("caller") \in CallerPlaces
    /\ At("callback") \in CallbackPlaces
    /\ At("caller") \in Holding => thread["caller"].call # "connect"

(* operationMutex_ belongs to the thread that is between its lock and its  *)
(* unlock.                                                                 *)
Lock == \A a \in Threads : At(a) \in Holding <=> operationMutex = a

(* Only the owner of operationMutex_ changes client_, and from the moment  *)
(* it has taken client_ away until it has made the next one there is none. *)
Ownership ==
    /\ \A a \in Threads : At(a) \in {"drop", "clear", "connecting", "create", "offline"}
                            => client = None
    /\ \A a \in Threads : At(a) = "drop" => thread[a].copy # None
    /\ At("run") = "dial" => /\ client # None /\ link[client].net = "idle"
                             /\ source.client # client
    /\ \A c \in Clients : link[c].net = "closed" => link[c] = NoLink
    /\ OneConnection

(* A callback that may report success speaks for a connection that is up,  *)
(* if it is the current client's; only such a callback is followed by a    *)
(* second one.                                                             *)
Callback ==
    /\ At("callback") = "idle" <=> source.client = None
    /\ source.again => At("callback") \in Sending \cup {"enter"}
    /\ (source.client = client /\ client # None
            /\ At("callback") \in Sending \cup {"enter"}) => link[client].net = "up"

(* A listener is in one place: tracked by the thread about to send its     *)
(* request, or with one request in flight; it stays in pendingOperations_  *)
(* as long as the client it was tracked for is current.                    *)
Listeners ==
    /\ \A a \in Threads : At(a) \in Sending => thread[a].copy # None
    /\ \A a \in Threads : thread[a].op # None => At(a) = "send"
    /\ \A a \in Threads : At(a) = "send" =>
          /\ thread[a].op # None
          /\ thread[a].copy = client => thread[a].op \in pending
          /\ \A c \in Clients : \A i \in DOMAIN link[c].requests :
                link[c].requests[i].op # thread[a].op
    /\ \A a, b \in Threads : At(a) = "send" /\ At(b) = "send" /\ a # b
            => thread[a].op # thread[b].op
    /\ \A c \in Clients : \A i, j \in DOMAIN link[c].requests :
          link[c].requests[i].op = link[c].requests[j].op => i = j
    /\ TrackedInFlight

(* Run is inside its last Disconnect or has returned. *)
Leaving ==
    \/ At("run") \in {"disconnecting", "offline", "done"}
    \/ At("run") \in {"release", "drop", "clear"} /\ thread["run"].call # "connect"

(* StaysClosed, for a caller anywhere but inside Disconnect.  It holds     *)
(* because shuttingDown_, once Run is leaving, is not reset any more.      *)
Closed ==
    /\ Leaving => shuttingDown
    /\ At("run") = "done" /\ At("caller") \notin Holding =>
          status \in {"Offline", "Reconnecting"}

(* What a thread has left to send; an Unsubscribe under way has already    *)
(* removed the handler.                                                    *)
Todo ==
    /\ \A a \in Threads : thread[a].todo # {} =>
          At(a) \in Sending /\ thread[a].call \in {"subscribe", "unsubscribe", "publish"}
    /\ \A a \in Threads : thread[a].call = "unsubscribe" =>
          thread[a].todo = {} \/ (a = "caller" /\ thread[a].todo \cap subscriptions = {})

(* A status of Connected was set by the current client, whose connection   *)
(* is up or whose loss is just being reported, except after a stale        *)
(* callback or during shutdown.                                            *)
Connection ==
    /\ At("run") = "create" /\ ~stale => status # "Connected"
    /\ status = "Connected" /\ ~stale /\ client # None =>
          link[client].net \in {"up", "down"}
    /\ status = "Connected" /\ ~stale /\ ~shuttingDown /\ client # None
            /\ link[client].net = "down"
          => At("callback") \in {"lost", "losing"} /\ source.client = client

Inv == /\ TypeOK /\ Places /\ Lock /\ Ownership
       /\ Callback /\ Listeners /\ Closed
       /\ Todo /\ Connection /\ HandlersSubscribed

USE BoundsAssumption
USE DEF At, Threads, Holding, Sending, Waiting, Testing
-----------------------------------------------------------------------------
(* How the threads move *)

(* Thread b keeps everything but, if it is Run and waits, its place. *)
Kept(b) ==
    /\ thread'[b].copy = thread[b].copy
    /\ thread'[b].call = thread[b].call
    /\ thread'[b].todo = thread[b].todo
    /\ thread'[b].op = thread[b].op
    /\ \/ thread'[b].at = thread[b].at
       \/ b = "run" /\ thread[b].at \in Waiting /\ thread'[b].at \in Testing

Moved(a, next) ==
    /\ thread'[a] = next
    /\ \A b \in Threads : b # a => Kept(b)
    /\ thread' \in [Threads -> Records]

(* A step of thread a moves nobody else, except that it may wake Run. *)
LEMMA BecomeMoves ==
    ASSUME TypeOK, NEW a \in Threads, NEW next \in Records,
           Become(a, next) \/ BecomeNotifying(a, next)
    PROVE  Moved(a, next)
<1>1. thread \in [Threads -> Records]
  BY DEF TypeOK
<1>2. CASE Become(a, next)
  BY <1>1, <1>2 DEF Become, Moved, Kept
<1>3. CASE BecomeNotifying(a, next)
  <2>1. Notified = At("run") \/ (At("run") \in Waiting /\ Notified \in Testing)
    BY DEF Notified
  <2>2. Notified \in RunPlaces \cup CallerPlaces \cup CallbackPlaces
    BY <1>1, <2>1 DEF Records, RunPlaces
  <2> DEFINE woken == [thread["run"] EXCEPT !.at = Notified]
  <2>3. woken \in Records
    BY <1>1, <2>2 DEF Records
  <2>4. /\ woken.at = Notified /\ woken.copy = thread["run"].copy
        /\ woken.call = thread["run"].call /\ woken.todo = thread["run"].todo
        /\ woken.op = thread["run"].op
    BY <1>1 DEF Records
  <2>5. thread' = [[thread EXCEPT !["run"] = woken] EXCEPT ![a] = next]
    BY <1>1, <1>3 DEF BecomeNotifying
  <2> HIDE DEF woken
  <2>6. /\ thread' \in [Threads -> Records]
        /\ thread'[a] = next
        /\ \A b \in Threads : b # a => thread'[b] = IF b = "run" THEN woken ELSE thread[b]
    BY <1>1, <2>3, <2>5
  <2> QED
    BY <2>1, <2>4, <2>6 DEF Moved, Kept
<1> QED
  BY <1>2, <1>3

(* What keeps the service closed: a step after which Run is leaving only   *)
(* if it was, and which sets no other status unless shuttingDown_ is       *)
(* clear.                                                                  *)
LEMMA ClosedKept ==
    ASSUME Closed, Leaving' => Leaving, shuttingDown' = shuttingDown,
           thread'["run"].at = "done" => thread["run"].at = "done",
           thread'["caller"].at \notin Holding =>
                thread["caller"].at \notin Holding \/ status' = "Offline",
           status' \in {status, "Offline", "Reconnecting"} \/ ~shuttingDown
    PROVE  Closed'
BY DEF Closed, Leaving

(* A step of another thread does not make Run leave. *)
LEMMA LeavingKept ==
    ASSUME Kept("run")
    PROVE  /\ Leaving' => Leaving
           /\ thread'["run"].at = "done" => thread["run"].at = "done"
BY DEF Kept, Leaving

(* The fields of the records that threads become. *)
LEMMA RecordFields ==
    ASSUME TypeOK, NEW a \in Threads
    PROVE  /\ thread[a] \in Records
           /\ \A pc \in RunPlaces \cup CallerPlaces \cup CallbackPlaces :
                 /\ Idle(pc) \in Records
                 /\ [thread[a] EXCEPT !.at = pc] \in Records
                 /\ [thread[a] EXCEPT !.at = pc] =
                       [at |-> pc, copy |-> thread[a].copy, call |-> thread[a].call,
                        todo |-> thread[a].todo, op |-> thread[a].op]
BY DEF TypeOK, Records, Idle
-----------------------------------------------------------------------------
(* The loop of Run *)

Quiet == RunPlaces \ (Holding \cup {"done"})

(* The loop and the waits of Run change its place and nothing else. *)
Turn(pc) ==
    /\ Become("run", [thread["run"] EXCEPT !.at = pc])
    /\ pc = At("run") \/ (At("run") \in Quiet /\ pc \in Quiet)
    /\ UNCHANGED <<serviceVars, operationMutex, source, link, reported, stale>>

(* What is subscribed depends on the threads only by what they are about   *)
(* to subscribe.                                                           *)
LEMMA HandlersKept ==
    ASSUME HandlersSubscribed, link' = link, stale => stale',
           \A u \in subscriptions' : \/ AboutToSubscribe(u)'
                                     \/ u \in subscriptions /\ (u \in reported => u \in reported'),
           ConnectedUp' => ConnectedUp /\ client' = client,
           \A a \in Threads : thread[a].todo # {} =>
                /\ thread'[a].copy = thread[a].copy
                /\ thread'[a].call = thread[a].call
                /\ thread'[a].todo = thread[a].todo
    PROVE  HandlersSubscribed'
<1> SUFFICES ASSUME ConnectedUp', ~stale', NEW t \in subscriptions'
             PROVE  Subscribed(t)'
  BY DEF HandlersSubscribed
<1>1. ConnectedUp /\ ~stale /\ client' = client
  OBVIOUS
<1>2. CASE AboutToSubscribe(t)'
  BY <1>2 DEF Subscribed
<1>3. CASE t \in subscriptions /\ (t \in reported => t \in reported')
  <2>1. Subscribed(t)
    BY <1>1, <1>3 DEF HandlersSubscribed
  <2>2. Delivers(client, t) => Delivers(client, t)'
    BY <1>1 DEF Delivers
  <2>3. AboutToSubscribe(t) => AboutToSubscribe(t)'
    BY <1>1 DEF AboutToSubscribe
  <2> QED
    BY <1>3, <2>1, <2>2, <2>3 DEF Subscribed
<1> QED
  BY <1>2, <1>3

(* A turn of the loop of Run keeps the invariant. *)
LEMMA TurnStep ==
    ASSUME Inv, NEW pc \in RunPlaces, Turn(pc)
    PROVE  Inv'
<1> USE DEF Turn, serviceVars
<1>1. TypeOK /\ thread["run"] \in Records
  BY RecordFields DEF Inv
<1>2. Moved("run", [thread["run"] EXCEPT !.at = pc])
  BY <1>1, RecordFields, BecomeMoves
<1>3. /\ \A b \in Threads : b # "run" => Kept(b)
      /\ thread'["run"].at = pc
      /\ thread'["run"].copy = thread["run"].copy
      /\ thread'["run"].call = thread["run"].call
      /\ thread'["run"].todo = thread["run"].todo
      /\ thread'["run"].op = thread["run"].op
      /\ thread' \in [Threads -> Records]
  BY <1>1, <1>2, RecordFields DEF Moved
<1>4. \A b \in Threads : b # "run" => thread'[b].at = thread[b].at
  BY <1>3 DEF Kept
<1>5. pc = thread["run"].at \/ (pc \notin Holding \cup {"done", "track", "send"}
                                /\ thread["run"].at \notin Holding \cup {"track", "send"})
  BY DEF Quiet, RunPlaces
<1> HIDE DEF Turn
<1>6. UNCHANGED <<status, shuttingDown, client, subscriptions, pending, operationMutex,
                  source, link, reported, stale>>
  BY DEF Turn
<1>7. TypeOK'
  BY <1>1, <1>3, <1>6 DEF TypeOK
<1>8. Places'
  BY <1>3, <1>4, <1>6 DEF Inv, Places, Kept
<1>9. Lock'
  BY <1>3, <1>4, <1>5, <1>6 DEF Inv, Lock
<1>10. Ownership'
  <2>1. OneConnection'
    BY <1>3, <1>4, <1>5, <1>6 DEF Inv, Ownership, OneConnection, Open, Kept
  <2> QED
    BY <2>1, <1>3, <1>4, <1>5, <1>6 DEF Inv, Ownership, Kept
<1>11. Callback'
  BY <1>4, <1>6 DEF Inv, Callback
<1>12. Listeners'
  <2>1. \A b \in Threads : thread'[b].op = thread[b].op /\ thread'[b].copy = thread[b].copy
    BY <1>3 DEF Kept
  <2>2. \A b \in Threads : \A place \in {"track", "send"} :
           thread'[b].at = place <=> thread[b].at = place
    BY <1>3, <1>4, <1>5
  <2>3. TrackedInFlight'
    BY <1>6 DEF Inv, Listeners, TrackedInFlight
  <2> QED
    BY <2>1, <2>2, <2>3, <1>6 DEF Inv, Listeners
<1>13. Closed'
  BY <1>3, <1>4, <1>5, <1>6, ClosedKept DEF Inv, Leaving
<1>14. \A b \in Threads : thread'[b].todo = thread[b].todo
                          /\ thread'[b].call = thread[b].call
                          /\ thread'[b].copy = thread[b].copy
  BY <1>3 DEF Kept
<1>15. Todo'
  <2>1. \A b \in Threads : thread'[b].at \in {"track", "send"}
                              <=> thread[b].at \in {"track", "send"}
    BY <1>3, <1>4, <1>5
  <2> QED
    BY <2>1, <1>6, <1>14 DEF Inv, Todo
<1>16. Connection'
  BY <1>3, <1>4, <1>5, <1>6 DEF Inv, Connection
<1>17. HandlersSubscribed'
  BY <1>6, <1>14, HandlersKept DEF Inv, ConnectedUp
<1> QED
  BY <1>7, <1>8, <1>9, <1>10, <1>11, <1>12, <1>13, <1>15, <1>16, <1>17 DEF Inv

(* Every wait, wake-up and request to stop is such a turn. *)
LEMMA LoopStep ==
    ASSUME Inv, RunStep \/ Timeout \/ SpuriousWakeup \/ RequestStop \/ StopCallback
    PROVE  Inv'
<1>1. Notified = At("run") \/ (At("run") \in Waiting /\ Notified \in Testing)
  BY DEF Notified
<1>2. At("run") \in RunPlaces /\ thread \in [Threads -> Records]
  BY DEF Inv, Places, TypeOK
<1>3. ThenWait3 \in Quiet /\ ThenWait2 \in Quiet
  BY DEF ThenWait2, ThenWait3, Quiet, RunPlaces
<1>4. \E pc \in RunPlaces : Turn(pc)
  <2>1. CASE RunStep
    <3>1. PICK pc : Go("run", pc) /\ At("run") \in Quiet /\ pc \in Quiet
      BY <2>1, <1>3 DEF RunStep, Quiet, RunPlaces
    <3> QED
      BY <2>1, <3>1 DEF RunStep, Turn, Go, history, Quiet
  <2>2. CASE Timeout
    BY <2>2, <1>3 DEF Timeout, Turn, Go, history, Quiet, RunPlaces
  <2>3. CASE SpuriousWakeup
    BY <2>3, <1>1 DEF SpuriousWakeup, Turn, Go, history, Quiet, RunPlaces
  <2>4. CASE RequestStop
    <3>1. thread' = [thread EXCEPT !["run"] = [thread["run"] EXCEPT !.at = At("run")]]
      BY <2>4, <1>2 DEF RequestStop, Records
    <3> QED
      BY <2>4, <3>1, <1>2 DEF RequestStop, Turn, Become, history
  <2>5. CASE StopCallback
    BY <2>5, <1>1, <1>2 DEF StopCallback, Turn, Go, Quiet, RunPlaces
  <2> QED
    BY <2>1, <2>2, <2>3, <2>4, <2>5
<1> QED
  BY <1>4, TurnStep
-----------------------------------------------------------------------------
(* Connect, Disconnect and ReleaseClient *)

(* Nothing that Callback, Listeners and Todo say is disturbed by a thread  *)
(* that has no listener and is not the one of the callbacks.               *)
LEMMA OwnerStep ==
    ASSUME Inv, NEW a \in {"run", "caller"}, NEW next \in Records, Moved(a, next),
           thread[a].at \notin Sending, next.at \notin Sending,
           next.op = None, next.todo = {},
           UNCHANGED <<subscriptions, pending, source, link, reported, stale>>,
           client' = client \/ client' = None
    PROVE  /\ Callback' /\ Listeners' /\ Todo'
           /\ status' \in Statuses /\ shuttingDown' \in BOOLEAN
              /\ operationMutex' \in Threads \cup {None} => TypeOK'
           /\ (ConnectedUp' => ConnectedUp /\ client' = client) => HandlersSubscribed'
<1>1. TypeOK /\ Callback /\ Listeners /\ Todo /\ HandlersSubscribed
  BY DEF Inv
<1>2. \A b \in Threads : b # a =>
         /\ thread'[b].copy = thread[b].copy /\ thread'[b].call = thread[b].call
         /\ thread'[b].todo = thread[b].todo /\ thread'[b].op = thread[b].op
  BY DEF Moved, Kept
<1>3. \A b \in Threads : b # a => \A pc \in {"track", "send"} :
         thread'[b].at = pc <=> thread[b].at = pc
  BY DEF Moved, Kept
<1>4. thread'[a] = next /\ thread' \in [Threads -> Records]
  BY DEF Moved
<1>5. thread'["callback"].at = thread["callback"].at
  BY DEF Moved, Kept
<1>6. Callback'
  BY <1>1, <1>5 DEF Callback
<1>7. Listeners'
  <2>1. TrackedInFlight'
    BY <1>1 DEF Listeners, TrackedInFlight
  <2>2. \A b \in Threads : thread'[b].at = "send" =>
           b # a /\ thread[b].at = "send" /\ thread[b].copy # None
    BY <1>1, <1>3, <1>4 DEF Listeners
  <2>3. \A b \in Threads : thread'[b].at = "send" =>
          /\ thread'[b].op # None
          /\ thread'[b].copy = client' => thread'[b].op \in pending
          /\ \A c \in Clients : \A i \in DOMAIN link[c].requests :
                link[c].requests[i].op # thread'[b].op
    BY <1>1, <1>2, <2>2 DEF Listeners
  <2>4. \A b, d \in Threads : thread'[b].at = "send" /\ thread'[d].at = "send" /\ b # d
            => thread'[b].op # thread'[d].op
    BY <1>1, <1>2, <2>2 DEF Listeners
  <2>5. \A b \in Threads : thread'[b].at \in Sending => thread'[b].copy # None
    BY <1>1, <1>2, <1>3, <1>4 DEF Listeners
  <2>6. \A b \in Threads : thread'[b].op # None => thread'[b].at = "send"
    BY <1>1, <1>2, <1>3, <1>4 DEF Listeners
  <2> QED
    BY <1>1, <2>1, <2>3, <2>4, <2>5, <2>6 DEF Listeners
<1>8. Todo'
  BY <1>1, <1>2, <1>3, <1>4 DEF Todo
<1>9. status' \in Statuses /\ shuttingDown' \in BOOLEAN
         /\ operationMutex' \in Threads \cup {None} => TypeOK'
  BY <1>1, <1>4 DEF TypeOK
<1>10. (ConnectedUp' => ConnectedUp /\ client' = client) => HandlersSubscribed'
  <2>1. \A b \in Threads : thread[b].todo # {} =>
           /\ thread'[b].copy = thread[b].copy
           /\ thread'[b].call = thread[b].call
           /\ thread'[b].todo = thread[b].todo
    BY <1>1, <1>2 DEF Todo
  <2> QED
    BY <1>1, <2>1, HandlersKept
<1> QED
  BY <1>6, <1>7, <1>8, <1>9, <1>10

(* operationMutex_ is taken, kept or given back by thread a. *)
LEMMA LockStep ==
    ASSUME Inv, NEW a \in Threads, NEW next \in Records, Moved(a, next),
           \/ /\ operationMutex' = operationMutex
              /\ thread[a].at \in Holding <=> next.at \in Holding
           \/ /\ operationMutex = None /\ operationMutex' = a
              /\ next.at \in Holding
           \/ /\ operationMutex' = None
              /\ thread[a].at \in Holding /\ next.at \notin Holding
    PROVE  Lock'
<1>1. Lock
  BY DEF Inv
<1>2. \A b \in Threads : b # a => (thread'[b].at \in Holding <=> thread[b].at \in Holding)
  BY DEF Moved, Kept
<1>3. thread'[a] = next
  BY DEF Moved
<1> QED
  BY <1>1, <1>2, <1>3 DEF Lock

(* client_ is taken away: it is open only for the thread that drops it. *)
LEMMA ReleaseTakeStep ==
    ASSUME Inv, NEW a \in {"run", "caller"}, ReleaseTake(a)
    PROVE  Inv'
<1> DEFINE pc == IF client = None THEN AfterRelease(a) ELSE "drop"
<1> DEFINE next == [thread[a] EXCEPT !.copy = client, !.at = pc]
<1>1. TypeOK /\ Places /\ Lock /\ Ownership /\ Listeners /\ Todo
  BY DEF Inv
<1>2. thread[a] \in Records /\ thread[a].at = "release" /\ client \in Clients \cup {None}
  BY <1>1 DEF ReleaseTake, TypeOK
<1>3. pc \in {"drop", "connecting", "offline"} /\ (a = "caller" => pc # "connecting")
  BY <1>1, <1>2 DEF AfterRelease, Places
<1>4. next \in Records /\ next.at = pc /\ next.copy = client
      /\ next.call = thread[a].call /\ next.todo = thread[a].todo /\ next.op = thread[a].op
  <2> HIDE DEF pc
  <2>1. pc \in RunPlaces
    BY <1>3 DEF RunPlaces
  <2>2. next = [thread[a] EXCEPT !.copy = client, !.at = pc]
    OBVIOUS
  <2> HIDE DEF next
  <2> QED
    BY <1>2, <2>1, <2>2 DEF Records
<1>5. Moved(a, next)
  BY <1>1, <1>4, BecomeMoves DEF ReleaseTake
<1> HIDE DEF next
<1>6. thread[a].op = None /\ thread[a].todo = {}
  BY <1>1, <1>2 DEF Listeners, Todo
<1>7. UNCHANGED <<status, shuttingDown, subscriptions, pending, operationMutex,
                  source, link, reported, stale>> /\ client' = None
  BY DEF ReleaseTake, history
<1>8. thread'[a].at = pc /\ thread'[a].copy = client /\ thread'[a].call = thread[a].call
  BY <1>4, <1>5 DEF Moved
<1>9. next.at = pc /\ next.op = None /\ next.todo = {}
  BY <1>4, <1>6
<1> HIDE DEF pc
<1>10. TypeOK' /\ Callback' /\ Listeners' /\ Todo' /\ HandlersSubscribed'
  <2>1. ~ConnectedUp'
    BY <1>7 DEF ConnectedUp
  <2> QED
    BY <2>1, <1>1, <1>2, <1>3, <1>4, <1>5, <1>7, <1>9, OwnerStep DEF TypeOK
<1>11. Places'
  BY <1>1, <1>2, <1>3, <1>5, <1>8 DEF Places, Moved, Kept, RunPlaces, CallerPlaces, CallbackPlaces
<1>12. Lock'
  BY <1>2, <1>3, <1>4, <1>5, <1>7, <1>9, LockStep
<1>13. Ownership'
  <2>1. \A b \in Threads : b # a => thread[b].at \notin Holding /\ thread'[b].at \notin Holding
    BY <1>1, <1>2, <1>5 DEF Lock, Moved, Kept
  <2>2. thread[a].at # "drop"
    BY <1>2
  <2>3. OneConnection'
    <3>1. ASSUME NEW c \in Clients, link[c].net # "closed"
          PROVE  thread'[a].at = "drop" /\ thread'[a].copy = c
      <4>1. c = client
        BY <1>1, <2>1, <2>2, <3>1 DEF Ownership, OneConnection, Open
      <4> QED
        BY <4>1, <1>8 DEF pc
    <3> QED
      BY <3>1, <1>7 DEF OneConnection, Open
  <2>4. thread'[a].at = "drop" => thread'[a].copy # None
    BY <1>8 DEF pc, AfterRelease
  <2>5. thread'["run"].at # "dial"
    BY <2>1, <1>3, <1>8
  <2> QED
    BY <1>1, <1>7, <2>1, <2>3, <2>4, <2>5 DEF Ownership
<1>14. Closed'
  <2>1. thread'["run"].at = "done" => thread["run"].at = "done"
    BY <1>3, <1>5, <1>8 DEF Moved, Kept
  <2>2. thread'["caller"].at \notin Holding => thread["caller"].at \notin Holding
    BY <1>3, <1>5, <1>8 DEF Moved, Kept
  <2>3. CASE a = "run"
    <3>1. pc = "offline" => thread[a].call # "connect"
      BY DEF pc, AfterRelease
    <3>2. Leaving' => Leaving
      BY <1>2, <1>3, <1>8, <2>3, <3>1 DEF Leaving
    <3> QED
      BY <1>7, <2>1, <2>2, <3>2, ClosedKept DEF Inv
  <2>4. CASE a = "caller"
    BY <1>5, <1>7, <2>1, <2>2, <2>4, ClosedKept, LeavingKept DEF Inv, Moved
  <2> QED
    BY <2>3, <2>4
<1>15. Connection'
  <2>1. thread'["run"].at = "create" => thread["run"].at = "create"
    BY <1>3, <1>5, <1>8 DEF Moved, Kept
  <2> QED
    BY <1>7, <2>1 DEF Inv, Connection
<1> QED
  BY <1>10, <1>11, <1>12, <1>13, <1>14, <1>15 DEF Inv

(* The listeners are cleared while there is no client_. *)
LEMMA ReleaseClearStep ==
    ASSUME Inv, NEW a \in {"run", "caller"}, ReleaseClear(a)
    PROVE  Inv'
<1> DEFINE pc == AfterRelease(a)
<1> DEFINE next == [at |-> pc, copy |-> thread[a].copy, call |-> thread[a].call,
                    todo |-> thread[a].todo, op |-> thread[a].op]
<1>1. TypeOK /\ Places /\ Lock /\ Ownership /\ Listeners /\ Todo
  BY DEF Inv
<1>2. thread[a] \in Records /\ thread[a].at = "clear"
  BY <1>1 DEF ReleaseClear, TypeOK
<1>3. pc \in {"connecting", "offline"} /\ (a = "caller" => pc # "connecting")
  BY <1>1, <1>2 DEF AfterRelease, Places
<1>4. [thread[a] EXCEPT !.at = pc] = next /\ next \in Records
  BY <1>2, <1>3 DEF Records, RunPlaces
<1>5. Moved(a, next)
  BY <1>1, <1>4, BecomeMoves DEF ReleaseClear, Go
<1>6. thread[a].op = None /\ thread[a].todo = {}
  BY <1>1, <1>2 DEF Listeners, Todo
<1>7. UNCHANGED <<status, shuttingDown, client, subscriptions, operationMutex,
                  source, link, reported, stale>> /\ pending' = {}
  BY DEF ReleaseClear, history
<1>8. thread'[a] = next /\ thread'[a].at = pc /\ thread'[a].call = thread[a].call
      /\ thread'[a].op = None /\ thread'[a].todo = {}
  BY <1>5, <1>6 DEF Moved
<1> HIDE DEF next, pc
<1>9. client = None
  BY <1>1, <1>2 DEF Ownership
<1>10. \A b \in Threads : b # a =>
         /\ thread'[b].copy = thread[b].copy /\ thread'[b].call = thread[b].call
         /\ thread'[b].todo = thread[b].todo /\ thread'[b].op = thread[b].op
  BY <1>5 DEF Moved, Kept
<1>11. \A b \in Threads : b # a => \A place \in {"track", "send"} :
         thread'[b].at = place <=> thread[b].at = place
  BY <1>5 DEF Moved, Kept
<1>12. TypeOK'
  BY <1>1, <1>5, <1>7 DEF TypeOK, Moved
<1>13. Places'
  BY <1>1, <1>2, <1>3, <1>5, <1>8 DEF Places, Moved, Kept, RunPlaces, CallerPlaces, CallbackPlaces
<1>14. Lock'
  BY <1>2, <1>3, <1>4, <1>5, <1>7, <1>8, LockStep
<1>15. Ownership'
  <2>1. \A b \in Threads : b # a => thread[b].at \notin Holding /\ thread'[b].at \notin Holding
    BY <1>1, <1>2, <1>5 DEF Lock, Moved, Kept
  <2>2. OneConnection'
    BY <1>1, <1>2, <1>7, <1>9, <2>1 DEF Ownership, OneConnection, Open
  <2>3. thread'["run"].at # "dial" /\ thread'[a].at # "drop"
    BY <2>1, <1>3, <1>8
  <2> QED
    BY <1>1, <1>7, <1>9, <2>1, <2>2, <2>3 DEF Ownership
<1>16. Callback'
  <2>1. thread'["callback"].at = thread["callback"].at
    BY <1>5 DEF Moved, Kept
  <2> QED
    BY <1>7, <2>1 DEF Inv, Callback
<1>17. Listeners'
  <2>1. TrackedInFlight'
    BY <1>7, <1>9 DEF TrackedInFlight
  <2>2. \A b \in Threads : thread'[b].at = "send" =>
           b # a /\ thread[b].at = "send" /\ thread[b].copy # None
    BY <1>1, <1>3, <1>8, <1>11 DEF Listeners
  <2>3. \A b \in Threads : thread'[b].at = "send" =>
          /\ thread'[b].op # None
          /\ thread'[b].copy # client'
          /\ \A c \in Clients : \A i \in DOMAIN link[c].requests :
                link[c].requests[i].op # thread'[b].op
    BY <1>1, <1>7, <1>9, <1>10, <2>2 DEF Listeners
  <2>4. \A b, d \in Threads : thread'[b].at = "send" /\ thread'[d].at = "send" /\ b # d
            => thread'[b].op # thread'[d].op
    BY <1>1, <1>10, <2>2 DEF Listeners
  <2>5. \A b \in Threads : thread'[b].at \in Sending => thread'[b].copy # None
    BY <1>1, <1>3, <1>8, <1>10, <1>11 DEF Listeners
  <2>6. \A b \in Threads : thread'[b].op # None => thread'[b].at = "send"
    BY <1>1, <1>8, <1>10, <1>11 DEF Listeners
  <2> QED
    BY <1>1, <1>7, <2>1, <2>3, <2>4, <2>5, <2>6 DEF Listeners
<1>18. Closed'
  <2>1. thread'["run"].at = "done" => thread["run"].at = "done"
    BY <1>3, <1>5, <1>8 DEF Moved, Kept
  <2>2. thread'["caller"].at \notin Holding => thread["caller"].at \notin Holding
    BY <1>3, <1>5, <1>8 DEF Moved, Kept
  <2>3. CASE a = "run"
    <3>1. pc = "offline" => thread[a].call # "connect"
      BY DEF pc, AfterRelease
    <3>2. Leaving' => Leaving
      BY <1>2, <1>3, <1>8, <2>3, <3>1 DEF Leaving
    <3> QED
      BY <1>7, <2>1, <2>2, <3>2, ClosedKept DEF Inv
  <2>4. CASE a = "caller"
    BY <1>5, <1>7, <2>1, <2>2, <2>4, ClosedKept, LeavingKept DEF Inv, Moved
  <2> QED
    BY <2>3, <2>4
<1>19. Todo'
  BY <1>1, <1>7, <1>8, <1>10, <1>11 DEF Todo
<1>20. Connection' /\ HandlersSubscribed'
  <2>1. thread'["run"].at = "create" => thread["run"].at = "create"
    BY <1>3, <1>5, <1>8 DEF Moved, Kept
  <2> QED
    BY <1>7, <1>9, <2>1 DEF Inv, Connection, HandlersSubscribed, ConnectedUp
<1> QED
  BY <1>12, <1>13, <1>14, <1>15, <1>16, <1>17, <1>18, <1>19, <1>20 DEF Inv

(* The client that was taken is closed: then none is open. *)
LEMMA ReleaseDropStep ==
    ASSUME Inv, NEW a \in {"run", "caller"}, ReleaseDrop(a)
    PROVE  Inv'
<1> DEFINE c == thread[a].copy
<1> DEFINE next == [thread[a] EXCEPT !.copy = None, !.at = "clear"]
<1>1. TypeOK /\ Places /\ Lock /\ Ownership /\ Callback /\ Listeners /\ Todo
  BY DEF Inv
<1>2. thread[a] \in Records /\ thread[a].at = "drop"
  BY <1>1 DEF ReleaseDrop, TypeOK
<1>3. client = None /\ c \in Clients
  BY <1>1, <1>2 DEF Ownership, Records
<1>4. next \in Records /\ next.at = "clear" /\ next.call = thread[a].call
      /\ next.todo = {} /\ next.op = None
  <2>1. thread[a].todo = {} /\ thread[a].op = None
    BY <1>1, <1>2 DEF Listeners, Todo
  <2> QED
    BY <1>2, <2>1 DEF Records, RunPlaces
<1>5. Moved(a, next)
  BY <1>1, <1>4, BecomeMoves DEF ReleaseDrop
<1> HIDE DEF next
<1>6. UNCHANGED <<status, shuttingDown, client, subscriptions, pending, operationMutex,
                  source, reported, stale>>
      /\ link' = [link EXCEPT ![c] = NoLink]
  BY DEF ReleaseDrop, history, serviceVars, AfterDrop
<1>7. thread'[a].at = "clear" /\ thread'[a].call = thread[a].call
      /\ thread'[a].op = None /\ thread'[a].todo = {}
  BY <1>4, <1>5 DEF Moved
<1>8. NoLink \in Links /\ NoLink.net = "closed" /\ DOMAIN NoLink.requests = {}
  BY DEF NoLink, Links
<1>9. link \in [Clients -> Links]
  BY <1>1 DEF TypeOK
<1>10. \A d \in Clients : link'[d] = IF d = c THEN NoLink ELSE link[d]
  BY <1>3, <1>6, <1>9
<1>11. \A b \in Threads : b # a =>
         /\ thread'[b].copy = thread[b].copy /\ thread'[b].call = thread[b].call
         /\ thread'[b].todo = thread[b].todo /\ thread'[b].op = thread[b].op
  BY <1>5 DEF Moved, Kept
<1>12. \A b \in Threads : b # a => \A place \in {"track", "send"} :
         thread'[b].at = place <=> thread[b].at = place
  BY <1>5 DEF Moved, Kept
<1> HIDE DEF c
<1>13. TypeOK'
  <2>1. link' \in [Clients -> Links]
    BY <1>6, <1>8, <1>9
  <2> QED
    BY <1>1, <1>5, <1>6, <2>1 DEF TypeOK, Moved
<1>14. Places'
  BY <1>1, <1>2, <1>5, <1>7 DEF Places, Moved, Kept, RunPlaces, CallerPlaces, CallbackPlaces
<1>15. Lock'
  BY <1>2, <1>4, <1>5, <1>6, LockStep
<1>16. Ownership'
  <2>1. \A b \in Threads : b # a => thread[b].at \notin Holding /\ thread'[b].at \notin Holding
    BY <1>1, <1>2, <1>5 DEF Lock, Moved, Kept
  <2>2. \A d \in Clients : link[d].net # "closed" => d = c
    BY <1>1, <1>3, <2>1 DEF Ownership, OneConnection, Open, c
  <2>3. OneConnection'
    BY <1>3, <1>6, <1>8, <1>10, <2>2 DEF OneConnection, Open
  <2> QED
    BY <1>1, <1>3, <1>6, <1>7, <1>8, <1>10, <2>1, <2>3 DEF Ownership
<1>17. Callback'
  <2>1. thread'["callback"].at = thread["callback"].at
    BY <1>5 DEF Moved, Kept
  <2> QED
    BY <1>1, <1>3, <1>6, <2>1 DEF Callback
<1>18. Listeners'
  <2>1. TrackedInFlight'
    BY <1>3, <1>6 DEF TrackedInFlight
  <2>2. \A b \in Threads : thread'[b].at = "send" =>
           b # a /\ thread[b].at = "send" /\ thread[b].copy # None
    BY <1>1, <1>7, <1>12 DEF Listeners
  <2>3. \A b \in Threads : thread'[b].at = "send" =>
          /\ thread'[b].op # None
          /\ thread'[b].copy # client'
    BY <1>1, <1>3, <1>6, <1>11, <2>2 DEF Listeners
  <2>4. \A b \in Threads : thread'[b].at = "send" =>
          \A d \in Clients : \A i \in DOMAIN link'[d].requests :
                link'[d].requests[i].op # thread'[b].op
    BY <1>1, <1>8, <1>10, <1>11, <2>2 DEF Listeners
  <2>5. \A b, d \in Threads : thread'[b].at = "send" /\ thread'[d].at = "send" /\ b # d
            => thread'[b].op # thread'[d].op
    BY <1>1, <1>11, <2>2 DEF Listeners
  <2>6. \A b \in Threads : thread'[b].at \in Sending => thread'[b].copy # None
    BY <1>1, <1>7, <1>11, <1>12 DEF Listeners
  <2>7. \A b \in Threads : thread'[b].op # None => thread'[b].at = "send"
    BY <1>1, <1>7, <1>11, <1>12 DEF Listeners
  <2>8. \A d \in Clients : \A i, j \in DOMAIN link'[d].requests :
          link'[d].requests[i].op = link'[d].requests[j].op => i = j
    BY <1>1, <1>8, <1>10 DEF Listeners
  <2> QED
    BY <2>1, <2>3, <2>4, <2>5, <2>6, <2>7, <2>8 DEF Listeners
<1>19. Closed'
  <2>1. /\ Leaving' => Leaving
        /\ thread'["run"].at = "done" => thread["run"].at = "done"
        /\ thread'["caller"].at \notin Holding => thread["caller"].at \notin Holding
    BY <1>2, <1>5, <1>7 DEF Leaving, Moved, Kept
  <2> QED
    BY <1>6, <2>1, ClosedKept DEF Inv
<1>20. Todo'
  BY <1>1, <1>6, <1>7, <1>11, <1>12 DEF Todo
<1>21. Connection' /\ HandlersSubscribed'
  <2>1. thread'["run"].at = "create" => thread["run"].at = "create"
    BY <1>5, <1>7 DEF Moved, Kept
  <2> QED
    BY <1>3, <1>6, <2>1 DEF Inv, Connection, HandlersSubscribed, ConnectedUp
<1> QED
  BY <1>13, <1>14, <1>15, <1>16, <1>17, <1>18, <1>19, <1>20, <1>21 DEF Inv

(* The steps of Connect and Disconnect that set a status or a flag. *)
LEMMA StatusStep ==
    ASSUME Inv, NEW a \in {"run", "caller"}, NEW next \in Records, Moved(a, next),
           thread[a].at \notin Sending \cup {"drop"},
           next.at \notin Sending \cup {"drop", "dial"},
           next.op = None, next.todo = {},
           next.at \in {"clear", "connecting", "create", "offline", "done"} => client = None,
           a = "run" => next.at \in RunPlaces,
           a = "caller" => next.at \in CallerPlaces
                            /\ (next.at \in Holding => next.call # "connect"),
           UNCHANGED <<client, subscriptions, pending, source, link, reported, stale>>,
           status' \in Statuses, shuttingDown' \in BOOLEAN,
           operationMutex' \in Threads \cup {None},
           Lock', Closed', Connection', ConnectedUp' => ConnectedUp
    PROVE  Inv'
<1>1. TypeOK' /\ Callback' /\ Listeners' /\ Todo' /\ HandlersSubscribed'
  BY OwnerStep
<1>2. Places'
  BY DEF Inv, Places, Moved, Kept, RunPlaces, CallerPlaces, CallbackPlaces
<1>3. Ownership'
  <2>1. \A b \in Threads : b # a => thread'[b].copy = thread[b].copy
    BY DEF Moved, Kept
  <2>2. \A b \in Threads : b # a =>
           \A place \in Holding \cup {"done"} : thread'[b].at = place <=> thread[b].at = place
    BY DEF Moved, Kept
  <2>3. thread'[a] = next
    BY DEF Moved
  <2>4. OneConnection'
    BY <2>1, <2>2, <2>3 DEF Inv, Ownership, OneConnection, Open
  <2> QED
    BY <2>1, <2>2, <2>3, <2>4 DEF Inv, Ownership
<1> QED
  BY <1>1, <1>2, <1>3 DEF Inv

(* What the records of Connect and Disconnect hold. *)
LEMMA OwnerRecords ==
    ASSUME Inv, NEW a \in {"run", "caller"}, thread[a].at \notin Sending
    PROVE  /\ thread[a] \in Records /\ thread[a].op = None /\ thread[a].todo = {}
           /\ \A pc \in RunPlaces \cup CallerPlaces :
                /\ LET next == [thread[a] EXCEPT !.at = pc]
                   IN  /\ next \in Records /\ next.at = pc /\ next.op = None
                       /\ next.todo = {} /\ next.call = thread[a].call
                /\ LET next == Idle(pc)
                   IN  /\ next \in Records /\ next.at = pc /\ next.op = None
                       /\ next.todo = {}
<1>1. thread[a] \in Records
  BY DEF Inv, TypeOK
<1>2. thread[a].op = None /\ thread[a].todo = {}
  BY DEF Inv, Listeners, Todo
<1> QED
  BY <1>1, <1>2 DEF Records, Idle

(* Connect fails at once, finds a connection, or takes operationMutex_. *)
LEMMA ConnectStep ==
    ASSUME Inv, Connect
    PROVE  Inv'
<1>1. TypeOK /\ Closed /\ Connection
  BY DEF Inv
<1>2. thread["run"].at = "connect" /\ thread["run"].at \in RunPlaces
  BY DEF Connect, RunPlaces
<1>3. UNCHANGED <<client, subscriptions, pending, source, link, reported, stale>>
  BY DEF Connect, history
<1>4. CASE UNCHANGED <<shuttingDown, operationMutex>> /\ Go("run", "test1")
           /\ status' \in {status, "Error"}
  <2> DEFINE next == [thread["run"] EXCEPT !.at = "test1"]
  <2>1. next \in Records /\ next.at = "test1" /\ next.op = None /\ next.todo = {}
    BY <1>2, OwnerRecords DEF RunPlaces
  <2>2. Moved("run", next)
    BY <1>1, <1>4, <2>1, BecomeMoves DEF Go
  <2> HIDE DEF next
  <2>3. thread'["run"].at = "test1" /\ thread'["callback"].at = thread["callback"].at
    BY <2>1, <2>2 DEF Moved, Kept
  <2>4. Lock'
    BY <1>2, <1>4, <2>1, <2>2, LockStep
  <2>5. Closed' /\ Connection'
    BY <1>1, <1>3, <1>4, <2>3 DEF Closed, Leaving, Connection
  <2>6. ConnectedUp' => ConnectedUp
    BY <1>3, <1>4 DEF ConnectedUp
  <2>7. status' \in Statuses /\ shuttingDown' \in BOOLEAN
        /\ operationMutex' \in Threads \cup {None}
    BY <1>1, <1>4 DEF TypeOK, Statuses
  <2> QED
    BY <1>2, <1>3, <2>1, <2>2, <2>4, <2>5, <2>6, <2>7, StatusStep DEF RunPlaces
<1>5. CASE /\ operationMutex = None /\ status \notin Attached /\ shuttingDown' = FALSE
           /\ operationMutex' = "run" /\ UNCHANGED status
           /\ Become("run", [Idle("release") EXCEPT !.call = "connect"])
  <2> DEFINE next == [Idle("release") EXCEPT !.call = "connect"]
  <2>1. next \in Records /\ next.at = "release" /\ next.op = None /\ next.todo = {}
        /\ next.call = "connect"
    BY DEF Records, Idle, RunPlaces, Calls
  <2>2. Moved("run", next)
    BY <1>1, <1>5, <2>1, BecomeMoves
  <2> HIDE DEF next
  <2>3. thread'["run"].at = "release" /\ thread'["callback"].at = thread["callback"].at
        /\ thread'["run"].call = "connect"
    BY <2>1, <2>2 DEF Moved, Kept
  <2>4. Lock'
    BY <1>2, <1>5, <2>1, <2>2, LockStep
  <2>5. Closed' /\ Connection'
    BY <1>1, <1>3, <1>5, <2>3 DEF Closed, Leaving, Connection, Attached
  <2>6. ConnectedUp' => ConnectedUp
    BY <1>3, <1>5 DEF ConnectedUp, Attached
  <2>7. status' \in Statuses /\ shuttingDown' \in BOOLEAN
        /\ operationMutex' \in Threads \cup {None}
    BY <1>1, <1>5 DEF TypeOK
  <2> QED
    BY <1>2, <1>3, <2>1, <2>2, <2>4, <2>5, <2>6, <2>7, StatusStep DEF RunPlaces
<1>6. status' = status \/ status' = "Error" \/ ~LifecycleError
  BY DEF LifecycleError
<1> QED
  BY <1>4, <1>5, <1>6 DEF Connect, OperationMutexFree

(* The status becomes Connecting before there is a client_. *)
LEMMA ConnectAnnounceStep ==
    ASSUME Inv, ConnectAnnounce
    PROVE  Inv'
<1> DEFINE next == [thread["run"] EXCEPT !.at = "create"]
<1>1. TypeOK /\ Closed /\ Connection
  BY DEF Inv
<1>2. thread["run"].at = "connecting" /\ client = None
  BY DEF ConnectAnnounce, Inv, Ownership
<1>3. UNCHANGED <<client, subscriptions, pending, source, link, reported, stale,
                  shuttingDown, operationMutex>> /\ status' = "Connecting"
  BY DEF ConnectAnnounce, history
<1>4. next \in Records /\ next.at = "create" /\ next.op = None /\ next.todo = {}
  BY <1>2, OwnerRecords DEF RunPlaces
<1>5. Moved("run", next)
  BY <1>1, <1>4, BecomeMoves DEF ConnectAnnounce, Go
<1> HIDE DEF next
<1>6. thread'["run"].at = "create" /\ thread'["callback"].at = thread["callback"].at
  BY <1>4, <1>5 DEF Moved, Kept
<1>7. Lock'
  BY <1>2, <1>3, <1>4, <1>5, LockStep
<1>8. Closed' /\ Connection'
  BY <1>1, <1>3, <1>6 DEF Closed, Leaving, Connection
<1>9. ~ConnectedUp'
  BY <1>3 DEF ConnectedUp
<1>10. status' \in Statuses /\ shuttingDown' \in BOOLEAN
       /\ operationMutex' \in Threads \cup {None}
  BY <1>1, <1>3 DEF TypeOK, Statuses
<1> QED
  BY <1>2, <1>3, <1>4, <1>5, <1>7, <1>8, <1>9, <1>10, StatusStep DEF RunPlaces

(* A throw in Connect gives operationMutex_ back with an error. *)
LEMMA ConnectThrowsStep ==
    ASSUME Inv, ConnectThrows
    PROVE  Inv'
<1> DEFINE next == Idle("test1")
<1>1. TypeOK /\ Closed /\ Connection
  BY DEF Inv
<1>2. thread["run"].at \in {"create", "dial"}
  BY DEF ConnectThrows
<1>3. UNCHANGED <<client, subscriptions, pending, source, link, reported, stale,
                  shuttingDown>> /\ operationMutex' = None
  BY DEF ConnectThrows, history
<1>4. status' = status \/ status' = "Error"
  BY DEF ConnectThrows, LifecycleError
<1>5. next \in Records /\ next.at = "test1" /\ next.op = None /\ next.todo = {}
  BY <1>2, OwnerRecords DEF RunPlaces
<1>6. Moved("run", next)
  BY <1>1, <1>5, BecomeMoves DEF ConnectThrows
<1> HIDE DEF next
<1>7. thread'["run"].at = "test1" /\ thread'["callback"].at = thread["callback"].at
  BY <1>5, <1>6 DEF Moved, Kept
<1>8. Lock'
  BY <1>2, <1>3, <1>5, <1>6, LockStep
<1>9. Closed' /\ Connection'
  BY <1>1, <1>3, <1>4, <1>7 DEF Closed, Leaving, Connection
<1>10. ConnectedUp' => ConnectedUp
  BY <1>3, <1>4 DEF ConnectedUp
<1>11. status' \in Statuses /\ shuttingDown' \in BOOLEAN
       /\ operationMutex' \in Threads \cup {None}
  BY <1>1, <1>3, <1>4 DEF TypeOK, Statuses
<1> QED
  BY <1>2, <1>3, <1>5, <1>6, <1>8, <1>9, <1>10, <1>11, StatusStep DEF RunPlaces

(* Disconnect takes operationMutex_ and raises shuttingDown_. *)
LEMMA DisconnectStep ==
    ASSUME Inv, NEW a \in {"run", "caller"}, Disconnect(a)
    PROVE  Inv'
<1> DEFINE pc == IF client = None THEN "release" ELSE "disconnecting"
<1> DEFINE next == [Idle(pc) EXCEPT !.call = "disconnect"]
<1>1. TypeOK /\ Closed /\ Connection
  BY DEF Inv
<1>2. thread[a].at = IF a = "run" THEN "disconnect" ELSE "idle"
  BY DEF Disconnect
<1>3. UNCHANGED <<status, client, subscriptions, pending, source, link, reported, stale>>
      /\ shuttingDown' = TRUE /\ operationMutex = None /\ operationMutex' = a
  BY DEF Disconnect, history, OperationMutexFree
<1>4. pc \in {"release", "disconnecting"}
  OBVIOUS
<1>5. next \in Records /\ next.at = pc /\ next.op = None /\ next.todo = {}
      /\ next.call = "disconnect"
  <2> HIDE DEF pc
  <2> QED
    BY <1>4 DEF Records, Idle, RunPlaces, Calls
<1>6. Moved(a, next)
  BY <1>1, <1>5, BecomeMoves DEF Disconnect
<1> HIDE DEF next, pc
<1>7. thread'[a].at = pc /\ thread'["callback"].at = thread["callback"].at
  BY <1>5, <1>6 DEF Moved, Kept
<1>8. Lock'
  BY <1>2, <1>3, <1>4, <1>5, <1>6, LockStep
<1>9. Closed'
  <2>1. a = "caller" => (thread'["run"].at = "done" => thread["run"].at = "done")
    BY <1>6 DEF Moved, Kept
  <2> QED
    BY <1>1, <1>3, <1>4, <1>7, <2>1 DEF Closed
<1>10. Connection'
  <2>1. thread'["run"].at = "create" => thread["run"].at = "create"
    BY <1>4, <1>6, <1>7 DEF Moved, Kept
  <2> QED
    BY <1>1, <1>3, <2>1 DEF Connection
<1>11. ~ConnectedUp'
  BY <1>3 DEF ConnectedUp
<1>12. status' \in Statuses /\ shuttingDown' \in BOOLEAN
       /\ operationMutex' \in Threads \cup {None}
  BY <1>1, <1>3 DEF TypeOK
<1>13. next.at \in RunPlaces \cap CallerPlaces
  BY <1>4, <1>5 DEF RunPlaces, CallerPlaces
<1>14. thread[a].at \notin Sending \cup {"drop"}
  BY <1>2
<1> QED
  BY <1>3, <1>4, <1>5, <1>6, <1>8, <1>9, <1>10, <1>11, <1>12, <1>13, <1>14, StatusStep

(* Disconnect announces itself before it releases the client. *)
LEMMA DisconnectAnnounceStep ==
    ASSUME Inv, NEW a \in {"run", "caller"}, DisconnectAnnounce(a)
    PROVE  Inv'
<1> DEFINE next == [thread[a] EXCEPT !.at = "release"]
<1>1. TypeOK /\ Closed /\ Connection /\ Places
  BY DEF Inv
<1>2. thread[a].at = "disconnecting"
  BY DEF DisconnectAnnounce
<1>3. UNCHANGED <<client, subscriptions, pending, source, link, reported, stale,
                  shuttingDown, operationMutex>> /\ status' = "Disconnecting"
  BY DEF DisconnectAnnounce, history
<1>4. next \in Records /\ next.at = "release" /\ next.op = None /\ next.todo = {}
      /\ next.call = thread[a].call
  BY <1>2, OwnerRecords DEF RunPlaces
<1>5. Moved(a, next)
  BY <1>1, <1>4, BecomeMoves DEF DisconnectAnnounce
<1> HIDE DEF next
<1>6. thread'[a].at = "release" /\ thread'["callback"].at = thread["callback"].at
  BY <1>4, <1>5 DEF Moved, Kept
<1>7. Lock'
  BY <1>2, <1>3, <1>4, <1>5, LockStep
<1>8. Closed'
  <2>1. Leaving' => Leaving
    BY <1>2, <1>5 DEF Leaving, Moved, Kept
  <2> QED
    BY <1>1, <1>3, <1>5, <1>6, <2>1 DEF Closed, Moved, Kept
<1>9. Connection'
  BY <1>3 DEF Connection
<1>10. ~ConnectedUp'
  BY <1>3 DEF ConnectedUp
<1>11. status' \in Statuses /\ shuttingDown' \in BOOLEAN
       /\ operationMutex' \in Threads \cup {None}
  BY <1>1, <1>3 DEF TypeOK, Statuses
<1>12. a = "caller" => next.call # "connect"
  BY <1>1, <1>2, <1>4 DEF Places
<1>13. next.at \in RunPlaces \cap CallerPlaces
  BY <1>4 DEF RunPlaces, CallerPlaces
<1>14. thread[a].at \notin Sending \cup {"drop"}
  BY <1>2
<1> QED
  BY <1>3, <1>4, <1>5, <1>7, <1>8, <1>9, <1>10, <1>11, <1>12, <1>13, <1>14, StatusStep

(* Disconnect ends offline, without a client_, and unlocks. *)
LEMMA DisconnectDoneStep ==
    ASSUME Inv, NEW a \in {"run", "caller"}, DisconnectDone(a)
    PROVE  Inv'
<1> DEFINE pc == IF a = "run" THEN "done" ELSE "idle"
<1> DEFINE next == Idle(pc)
<1>1. TypeOK
  BY DEF Inv
<1>2. thread[a].at = "offline" /\ client = None
  BY DEF DisconnectDone, Inv, Ownership
<1>3. UNCHANGED <<client, subscriptions, pending, source, link, reported, stale,
                  shuttingDown>> /\ operationMutex' = None /\ status' = "Offline"
  BY DEF DisconnectDone, history
<1>4. next \in Records /\ next.at = pc /\ next.op = None /\ next.todo = {}
  <2>1. pc \in RunPlaces \cup CallerPlaces
    BY DEF RunPlaces, CallerPlaces
  <2> HIDE DEF pc
  <2> QED
    BY <1>2, <2>1, OwnerRecords
<1>5. Moved(a, next)
  BY <1>1, <1>4, BecomeMoves DEF DisconnectDone
<1>6. Lock'
  <2> HIDE DEF next
  <2> QED
    BY <1>2, <1>3, <1>4, <1>5, LockStep
<1>7. Closed' /\ Connection'
  <2>1. Leaving' => Leaving
    BY <1>2, <1>5 DEF Leaving, Moved, Kept
  <2> QED
    BY <1>3, <2>1 DEF Inv, Closed, Connection
<1>8. ~ConnectedUp'
  BY <1>3 DEF ConnectedUp
<1>9. status' \in Statuses /\ shuttingDown' \in BOOLEAN
      /\ operationMutex' \in Threads \cup {None}
  BY <1>1, <1>3 DEF TypeOK, Statuses
<1>10. (a = "run" => next.at \in RunPlaces) /\ (a = "caller" => next.at \in CallerPlaces)
       /\ next.at \notin Holding \cup Sending
  BY <1>4 DEF RunPlaces, CallerPlaces
<1>11. thread[a].at \notin Sending \cup {"drop"}
  BY <1>2
<1> HIDE DEF next, pc
<1> QED
  BY <1>2, <1>3, <1>4, <1>5, <1>6, <1>7, <1>8, <1>9, <1>10, <1>11, StatusStep

(* The new client is the only open one and has nothing in flight. *)
LEMMA ConnectCreateStep ==
    ASSUME Inv, ConnectCreate
    PROVE  Inv'
<1> DEFINE next == [thread["run"] EXCEPT !.at = "dial"]
<1>1. TypeOK /\ Places /\ Lock /\ Ownership /\ Callback /\ Listeners /\ Todo /\ Connection
  BY DEF Inv
<1>2. thread["run"].at = "create" /\ client = None
  BY <1>1 DEF ConnectCreate, Ownership
<1>3. PICK c \in FreeClients : client' = c /\ link' = [link EXCEPT ![c].net = "idle"]
  BY DEF ConnectCreate
<1>4. UNCHANGED <<status, shuttingDown, subscriptions, pending, operationMutex,
                  source, reported, stale>>
  BY DEF ConnectCreate, history
<1>5. c \in Clients /\ link[c] = NoLink /\ source.client # c /\ c # None
      /\ \A b \in Threads : thread[b].copy # c
  BY <1>1 DEF FreeClients, Open, Ownership
<1>6. next \in Records /\ next.at = "dial" /\ next.op = None /\ next.todo = {}
  BY <1>2, OwnerRecords DEF RunPlaces
<1>7. Moved("run", next)
  BY <1>1, <1>6, BecomeMoves DEF ConnectCreate, Go
<1> HIDE DEF next
<1>8. thread'["run"].at = "dial" /\ thread'["run"].op = None /\ thread'["run"].todo = {}
      /\ thread' \in [Threads -> Records]
  BY <1>6, <1>7 DEF Moved
<1>9. \A b \in Threads : b # "run" =>
         /\ thread'[b].copy = thread[b].copy /\ thread'[b].call = thread[b].call
         /\ thread'[b].todo = thread[b].todo /\ thread'[b].op = thread[b].op
         /\ thread'[b].at = thread[b].at
  BY <1>7 DEF Moved, Kept
<1>10. link \in [Clients -> Links]
  BY <1>1 DEF TypeOK
<1>11. /\ link' \in [Clients -> Links]
       /\ link'[c].net = "idle" /\ link'[c].requests = <<>>
       /\ \A d \in Clients : d # c => link'[d] = link[d]
  BY <1>3, <1>5, <1>10 DEF Links, NoLink
<1>12. DOMAIN link'[c].requests = {}
  BY <1>11
<1>13. TypeOK'
  BY <1>1, <1>3, <1>4, <1>5, <1>8, <1>11 DEF TypeOK
<1>14. Places'
  BY <1>1, <1>8, <1>9 DEF Places, RunPlaces
<1>15. Lock'
  BY <1>2, <1>4, <1>6, <1>7, LockStep
<1>16. Ownership'
  <2>1. \A b \in Threads : b # "run" => thread[b].at \notin Holding
    BY <1>1, <1>2 DEF Lock
  <2>2. \A d \in Clients : link[d].net = "closed"
    BY <1>1, <1>2, <2>1 DEF Ownership, OneConnection, Open
  <2>3. OneConnection'
    BY <1>3, <1>8, <1>11, <2>2 DEF OneConnection, Open
  <2> QED
    BY <1>1, <1>3, <1>4, <1>5, <1>8, <1>9, <1>11, <2>1, <2>3 DEF Ownership
<1>17. Callback'
  BY <1>1, <1>3, <1>4, <1>5, <1>9 DEF Callback
<1>18. Listeners'
  <2>1. TrackedInFlight'
    BY <1>3, <1>12 DEF TrackedInFlight
  <2>2. \A b \in Threads : thread'[b].at = "send" =>
           b # "run" /\ thread[b].at = "send" /\ thread'[b].copy # client'
    BY <1>3, <1>5, <1>8, <1>9
  <2>3. \A b \in Threads : thread'[b].at = "send" =>
          \A d \in Clients : \A i \in DOMAIN link'[d].requests :
                link'[d].requests[i].op # thread'[b].op
    BY <1>1, <1>9, <1>11, <1>12, <2>2 DEF Listeners
  <2>4. \A b, d \in Threads : thread'[b].at = "send" /\ thread'[d].at = "send" /\ b # d
            => thread'[b].op # thread'[d].op
    BY <1>1, <1>9, <2>2 DEF Listeners
  <2>5. \A b \in Threads : thread'[b].at \in Sending => thread'[b].copy # None
    BY <1>1, <1>8, <1>9 DEF Listeners
  <2>6. \A b \in Threads : thread'[b].op # None <=> thread'[b].at = "send"
    BY <1>1, <1>8, <1>9 DEF Listeners
  <2>7. \A d \in Clients : \A i, j \in DOMAIN link'[d].requests :
          link'[d].requests[i].op = link'[d].requests[j].op => i = j
    BY <1>1, <1>11, <1>12 DEF Listeners
  <2> QED
    BY <2>1, <2>2, <2>3, <2>4, <2>5, <2>6, <2>7 DEF Listeners
<1>19. Closed'
  BY <1>8 DEF Closed, Leaving
<1>20. Todo'
  BY <1>1, <1>4, <1>8, <1>9 DEF Todo
<1>21. Connection'
  BY <1>1, <1>2, <1>3, <1>4, <1>8, <1>11 DEF Connection
<1>22. HandlersSubscribed'
  BY <1>3, <1>11 DEF HandlersSubscribed, ConnectedUp
<1> QED
  BY <1>13, <1>14, <1>15, <1>16, <1>17, <1>18, <1>19, <1>20, <1>21, <1>22 DEF Inv

(* The attempt starts on a client no callback speaks for yet. *)
LEMMA ConnectDialStep ==
    ASSUME Inv, ConnectDial
    PROVE  Inv'
<1> DEFINE next == Idle("test1")
<1>1. TypeOK /\ Places /\ Lock /\ Ownership /\ Callback /\ Listeners /\ Todo /\ Connection
  BY DEF Inv
<1>2. thread["run"].at = "dial" /\ client \in Clients /\ link[client].net = "idle"
      /\ source.client # client
  BY <1>1 DEF ConnectDial, Ownership, TypeOK
<1>3. UNCHANGED <<status, shuttingDown, client, subscriptions, pending,
                  source, reported, stale>>
      /\ operationMutex' = None /\ link' = [link EXCEPT ![client].net = "connecting"]
  BY DEF ConnectDial, history, serviceVars
<1>4. next \in Records /\ next.at = "test1" /\ next.op = None /\ next.todo = {}
  BY <1>2, OwnerRecords DEF RunPlaces
<1>5. Moved("run", next)
  BY <1>1, <1>4, BecomeMoves DEF ConnectDial
<1> HIDE DEF next
<1>6. thread'["run"].at = "test1" /\ thread'["run"].op = None /\ thread'["run"].todo = {}
      /\ thread' \in [Threads -> Records]
  BY <1>4, <1>5 DEF Moved
<1>7. \A b \in Threads : b # "run" =>
         /\ thread'[b].copy = thread[b].copy /\ thread'[b].call = thread[b].call
         /\ thread'[b].todo = thread[b].todo /\ thread'[b].op = thread[b].op
         /\ thread'[b].at = thread[b].at
  BY <1>5 DEF Moved, Kept
<1>8. link \in [Clients -> Links]
  BY <1>1 DEF TypeOK
<1>9. /\ link' \in [Clients -> Links]
      /\ link'[client].net = "connecting"
      /\ \A d \in Clients : link'[d].requests = link[d].requests
      /\ \A d \in Clients : d # client => link'[d] = link[d]
  BY <1>2, <1>3, <1>8 DEF Links
<1>10. TypeOK'
  BY <1>1, <1>3, <1>6, <1>9 DEF TypeOK
<1>11. Places'
  BY <1>1, <1>6, <1>7 DEF Places, RunPlaces
<1>12. Lock'
  BY <1>2, <1>3, <1>4, <1>5, LockStep
<1>13. Ownership'
  <2>1. \A b \in Threads : b # "run" => thread[b].at \notin Holding
    BY <1>1, <1>2 DEF Lock
  <2>2. \A d \in Clients : d # client => link[d].net = "closed"
    BY <1>1, <1>2, <2>1 DEF Ownership, OneConnection, Open
  <2>3. OneConnection'
    BY <1>3, <1>6, <1>9, <2>2 DEF OneConnection, Open
  <2> QED
    BY <1>1, <1>3, <1>6, <1>7, <1>9, <2>1, <2>3 DEF Ownership
<1>14. Callback'
  BY <1>1, <1>2, <1>3, <1>7 DEF Callback
<1>15. Listeners'
  <2>1. TrackedInFlight'
    BY <1>1, <1>2, <1>3, <1>9 DEF Listeners, TrackedInFlight
  <2>2. \A b \in Threads : thread'[b].at \in Sending => b # "run" /\ thread[b].at = thread'[b].at
    BY <1>6, <1>7
  <2>3. \A b \in Threads : thread'[b].op # None => thread'[b].at = "send"
    BY <1>1, <1>6, <1>7 DEF Listeners
  <2> QED
    BY <1>1, <1>3, <1>7, <1>9, <2>1, <2>2, <2>3 DEF Listeners
<1>16. Closed'
  BY <1>6 DEF Closed, Leaving
<1>17. Todo'
  BY <1>1, <1>3, <1>6, <1>7 DEF Todo
<1>18. Connection'
  BY <1>1, <1>2, <1>3, <1>6, <1>9 DEF Connection
<1>19. HandlersSubscribed'
  BY <1>3, <1>9 DEF HandlersSubscribed, ConnectedUp
<1> QED
  BY <1>10, <1>11, <1>12, <1>13, <1>14, <1>15, <1>16, <1>17, <1>18, <1>19 DEF Inv
-----------------------------------------------------------------------------
(* Subscribe, Unsubscribe and Publish *)

(* The caller's section under mutex_: it registers or removes a handler,   *)
(* and in the second case goes on to ask the client.                       *)
LEMMA InterfaceStep ==
    ASSUME Inv, thread["caller"].at = "idle",
           NEW kind \in {"subscribe", "unsubscribe", "publish"}, NEW t \in Topics,
           UNCHANGED thread \/ (client # None /\ Ask(kind, t)),
           UNCHANGED <<status, shuttingDown, client, pending, operationMutex, source,
                       link, stale>>,
           subscriptions' \in SUBSET Topics,
           \/ kind = "subscribe" /\ subscriptions' = subscriptions \cup {t}
                /\ reported' = reported \ {t} /\ (ConnectedUp => Ask(kind, t))
           \/ kind = "unsubscribe" /\ subscriptions' = subscriptions \ {t}
                /\ reported' = reported
           \/ kind = "publish" /\ subscriptions' = subscriptions /\ reported' = reported
    PROVE  Inv'
<1> DEFINE next == [Idle("track") EXCEPT !.copy = client, !.call = kind, !.todo = {t}]
<1>1. TypeOK /\ Places /\ Lock /\ Ownership /\ Callback /\ Listeners /\ Todo /\ Connection
      /\ Closed /\ HandlersSubscribed
  BY DEF Inv
<1>2. next \in Records /\ next.at = "track" /\ next.copy = client /\ next.call = kind
      /\ next.todo = {t} /\ next.op = None
  BY <1>1 DEF Idle, Records, CallerPlaces, Calls, TypeOK
<1>3. Ask(kind, t) => Moved("caller", next)
  BY <1>1, <1>2, BecomeMoves DEF Ask
<1>4. \A b \in Threads : b # "caller" =>
         /\ thread'[b].copy = thread[b].copy /\ thread'[b].call = thread[b].call
         /\ thread'[b].todo = thread[b].todo /\ thread'[b].op = thread[b].op
  BY <1>3 DEF Moved, Kept
<1>5. \A b \in Threads : b # "caller" =>
         \/ thread'[b].at = thread[b].at
         \/ b = "run" /\ thread[b].at \in Waiting /\ thread'[b].at \in Testing
  BY <1>3 DEF Moved, Kept
<1>6. UNCHANGED thread \/ (Ask(kind, t) /\ client # None /\ thread'["caller"] = next)
  BY <1>3 DEF Moved
<1>7. thread["caller"].todo = {} /\ thread["caller"].op = None
  BY <1>1 DEF Todo, Listeners
<1>8. thread' \in [Threads -> Records]
  BY <1>1, <1>3 DEF TypeOK, Moved
<1> HIDE DEF next
<1>9. thread'["caller"].at \in {"idle", "track"} /\ thread'["caller"].op = None
      /\ (thread'["caller"].at = "track" => thread'["caller"].copy # None)
  BY <1>2, <1>6, <1>7
<1>10. TypeOK'
  BY <1>1, <1>8 DEF TypeOK
<1>11. Places'
  BY <1>1, <1>5, <1>9 DEF Places, RunPlaces, CallerPlaces
<1>12. Lock'
  BY <1>1, <1>5, <1>9 DEF Lock
<1>13. Ownership'
  <2>1. \A b \in Threads : \A pc \in Holding \cup {"done"} :
           thread'[b].at = pc <=> thread[b].at = pc
    BY <1>5, <1>9
  <2>2. \A b \in Threads : thread[b].at = "drop" => thread'[b].copy = thread[b].copy
    BY <1>4
  <2>3. OneConnection'
    BY <1>1, <2>1, <2>2 DEF Ownership, OneConnection, Open
  <2> QED
    BY <1>1, <2>1, <2>2, <2>3 DEF Ownership
<1>14. Callback'
  BY <1>1, <1>5 DEF Callback
<1>15. Listeners'
  <2>1. TrackedInFlight'
    BY <1>1 DEF Listeners, TrackedInFlight
  <2>2. \A b \in Threads : thread'[b].at = "send" => b # "caller" /\ thread[b].at = "send"
    BY <1>5, <1>9
  <2>3. \A b \in Threads : thread'[b].at \in Sending => thread'[b].copy # None
    BY <1>1, <1>4, <1>5, <1>9 DEF Listeners
  <2>4. \A b \in Threads : thread'[b].op # None => thread'[b].at = "send"
    BY <1>1, <1>4, <1>5, <1>9 DEF Listeners
  <2> QED
    BY <1>1, <1>4, <2>1, <2>2, <2>3, <2>4 DEF Listeners
<1>16. Closed'
  <2>1. /\ Leaving' => Leaving
        /\ thread'["run"].at = "done" => thread["run"].at = "done"
    BY <1>4, <1>5, LeavingKept DEF Kept
  <2> QED
    BY <1>1, <2>1, ClosedKept
<1>17. Todo'
  <2>1. \A b \in Threads : b # "caller" => (thread'[b].todo # {} =>
           thread'[b].at \in Sending
           /\ thread'[b].call \in {"subscribe", "unsubscribe", "publish"})
    BY <1>1, <1>4, <1>5 DEF Todo
  <2>2. thread'["caller"].todo # {} =>
           thread'["caller"].at \in Sending
           /\ thread'["caller"].call \in {"subscribe", "unsubscribe", "publish"}
    BY <1>2, <1>6, <1>7
  <2>3. \A b \in Threads : b # "caller" =>
           (thread'[b].call = "unsubscribe" => thread'[b].todo = {})
    BY <1>1, <1>4 DEF Todo
  <2>4. thread'["caller"].call = "unsubscribe" =>
           thread'["caller"].todo = {} \/ thread'["caller"].todo \cap subscriptions' = {}
    BY <1>2, <1>6, <1>7
  <2> QED
    BY <2>1, <2>2, <2>3, <2>4 DEF Todo
<1>18. Connection'
  BY <1>1, <1>5 DEF Connection
<1>19. HandlersSubscribed'
  <2>1. ConnectedUp' => ConnectedUp /\ client' = client
    BY DEF ConnectedUp
  <2>2. \A a \in Threads : thread[a].todo # {} =>
                /\ thread'[a].copy = thread[a].copy
                /\ thread'[a].call = thread[a].call
                /\ thread'[a].todo = thread[a].todo
    BY <1>4, <1>7
  <2>3. CASE kind = "subscribe" /\ ConnectedUp
    <3>1. AboutToSubscribe(t)'
      BY <1>2, <1>3, <2>3 DEF AboutToSubscribe, Moved
    <3> QED
      BY <1>1, <2>1, <2>2, <2>3, <3>1, HandlersKept
  <2>4. CASE kind # "subscribe"
    BY <1>1, <2>1, <2>2, <2>4, HandlersKept
  <2>5. CASE ~ConnectedUp
    BY <2>1, <2>5 DEF HandlersSubscribed
  <2> QED
    BY <2>3, <2>4, <2>5
<1> QED
  BY <1>10, <1>11, <1>12, <1>13, <1>14, <1>15, <1>16, <1>17, <1>18, <1>19 DEF Inv

(* Each call of the interface is such a section. *)
LEMMA UsageStep ==
    ASSUME Inv, NEW t \in Topics, Subscribe(t) \/ Unsubscribe(t) \/ Publish(t)
    PROVE  Inv'
<1>1. subscriptions \in SUBSET Topics
  BY DEF Inv, TypeOK
<1>2. CASE Subscribe(t)
  <2>1. ConnectedUp => Ask("subscribe", t)
    BY <1>2 DEF Subscribe, SubscribesNow, ConnectedUp
  <2> QED
    BY <1>1, <1>2, <2>1, InterfaceStep DEF Subscribe, SubscribesNow
<1>3. CASE Unsubscribe(t)
  BY <1>1, <1>3, InterfaceStep DEF Unsubscribe, history
<1>4. CASE Publish(t)
  BY <1>1, <1>4, InterfaceStep DEF Publish, history, serviceVars
<1> QED
  BY <1>2, <1>3, <1>4

(* The tracked listener is one that nobody else has. *)
LEMMA TrackOperationStep ==
    ASSUME Inv, NEW a \in {"caller", "callback"}, TrackOperation(a)
    PROVE  Inv'
<1>1. TypeOK /\ Places /\ Lock /\ Ownership /\ Callback /\ Listeners /\ Todo /\ Connection
      /\ Closed /\ HandlersSubscribed
  BY DEF Inv
<1>2. PICK o \in FreeOps : /\ pending' = pending \cup {o}
                           /\ Become(a, [thread[a] EXCEPT !.op = o, !.at = "send"])
  BY DEF TrackOperation
<1> DEFINE next == [thread[a] EXCEPT !.op = o, !.at = "send"]
<1>3. thread[a] \in Records /\ thread[a].at = "track" /\ o \in Ops /\ o # None
  BY <1>1 DEF TrackOperation, TypeOK, FreeOps
<1>4. next \in Records /\ next.at = "send" /\ next.op = o /\ next.copy = thread[a].copy
      /\ next.call = thread[a].call /\ next.todo = thread[a].todo
  BY <1>3 DEF Records, CallerPlaces
<1>5. Moved(a, next)
  BY <1>1, <1>2, <1>4, BecomeMoves
<1> HIDE DEF next
<1>6. \A b \in Threads :
         /\ thread'[b].copy = thread[b].copy /\ thread'[b].call = thread[b].call
         /\ thread'[b].todo = thread[b].todo
         /\ thread'[b].op = IF b = a THEN o ELSE thread[b].op
  BY <1>4, <1>5 DEF Moved, Kept
<1>7. \A b \in Threads : b # a =>
         \/ thread'[b].at = thread[b].at
         \/ b = "run" /\ thread[b].at \in Waiting /\ thread'[b].at \in Testing
  BY <1>5 DEF Moved, Kept
<1>8. thread'[a].at = "send" /\ thread' \in [Threads -> Records]
  BY <1>4, <1>5 DEF Moved
<1>9. UNCHANGED <<status, shuttingDown, client, subscriptions, operationMutex,
                  source, link, reported, stale>>
  BY DEF TrackOperation, history
<1>10. TypeOK'
  BY <1>1, <1>2, <1>3, <1>8, <1>9 DEF TypeOK
<1>11. Places'
  BY <1>1, <1>6, <1>7, <1>8 DEF Places, RunPlaces, CallerPlaces, CallbackPlaces
<1>12. \A b \in Threads : \A pc \in Holding \cup {"done"} :
           thread'[b].at = pc <=> thread[b].at = pc
  BY <1>3, <1>7, <1>8
<1>13. Lock'
  BY <1>1, <1>9, <1>12 DEF Lock
<1>14. Ownership'
  <2>1. OneConnection'
    BY <1>1, <1>6, <1>9, <1>12 DEF Ownership, OneConnection, Open
  <2> QED
    BY <1>1, <1>6, <1>9, <1>12, <2>1 DEF Ownership
<1>15. Callback'
  BY <1>1, <1>3, <1>7, <1>8, <1>9 DEF Callback
<1>16. Listeners'
  <2>1. TrackedInFlight'
    BY <1>1, <1>2, <1>9 DEF Listeners, TrackedInFlight
  <2>2. \A b \in Threads : thread'[b].at = "send" => b = a \/ thread[b].at = "send"
    BY <1>7
  <2>3. \A c \in Clients : \A i \in DOMAIN link[c].requests : link[c].requests[i].op # o
    BY DEF FreeOps
  <2>4. \A b \in Threads : thread[b].op # o
    BY DEF FreeOps
  <2>5. \A b \in Threads : thread'[b].at \in Sending => thread'[b].copy # None
    BY <1>1, <1>3, <1>6, <1>7 DEF Listeners
  <2>6. \A b \in Threads : thread'[b].op # None => thread'[b].at = "send"
    BY <1>1, <1>6, <1>7, <1>8 DEF Listeners
  <2>7. \A b \in Threads : thread'[b].at = "send" =>
          /\ thread'[b].op # None
          /\ thread'[b].copy = client => thread'[b].op \in pending'
          /\ \A c \in Clients : \A i \in DOMAIN link[c].requests :
                link[c].requests[i].op # thread'[b].op
    BY <1>1, <1>2, <1>3, <1>6, <2>2, <2>3 DEF Listeners
  <2>8. \A b, d \in Threads : thread'[b].at = "send" /\ thread'[d].at = "send" /\ b # d
            => thread'[b].op # thread'[d].op
    BY <1>1, <1>6, <2>2, <2>4 DEF Listeners
  <2> QED
    BY <1>1, <1>9, <2>1, <2>5, <2>6, <2>7, <2>8 DEF Listeners
<1>17. Closed'
  <2>1. Leaving' => Leaving
    BY <1>6, <1>12 DEF Leaving
  <2> QED
    BY <1>1, <1>9, <1>12, <2>1, ClosedKept
<1>18. Todo'
  BY <1>1, <1>6, <1>7, <1>8, <1>9 DEF Todo
<1>19. Connection'
  <2>1. thread["callback"].at \in {"lost", "losing"} =>
           thread'["callback"].at = thread["callback"].at
    BY <1>3, <1>7
  <2> QED
    BY <1>1, <1>9, <1>12, <2>1 DEF Connection
<1>20. HandlersSubscribed'
  <2>1. ConnectedUp' => ConnectedUp /\ client' = client
    BY <1>9 DEF ConnectedUp
  <2> QED
    BY <1>1, <1>6, <1>9, <2>1, HandlersKept
<1> QED
  BY <1>10, <1>11, <1>13, <1>14, <1>15, <1>16, <1>17, <1>18, <1>19, <1>20 DEF Inv

(* A callback returns: the thread is free, or the second callback that the *)
(* client owes follows.                                                    *)
LEMMA ReturnFacts ==
    ASSUME Inv
    PROVE  /\ Returned \in Records /\ Returned.at \in {"idle", "enter"}
           /\ Returned.copy = None /\ Returned.op = None /\ Returned.todo = {}
           /\ SourceAfter \in [client : Clients \cup {None}, again : BOOLEAN]
           /\ Returned.at = "idle" <=> SourceAfter.client = None
           /\ SourceAfter.client = None \/ SourceAfter.client = source.client
           /\ SourceAfter.again = FALSE
           /\ Returned.at = "enter" => source.again
<1>1. source \in [client : Clients \cup {None}, again : BOOLEAN]
  BY DEF Inv, TypeOK
<1>2. CASE Second
  BY <1>1, <1>2 DEF Second, Open, Returned, SourceAfter, Idle, Records, CallbackPlaces
<1>3. CASE ~Second
  BY <1>1, <1>3 DEF Returned, SourceAfter, NoSource, Idle, Records, CallbackPlaces
<1> QED
  BY <1>2, <1>3

(* A request that is sent is the last one about its topic. *)
LEMMA DeliversAppend ==
    ASSUME link \in [Clients -> Links], NEW c \in Clients, NEW r \in Requests, NEW u,
           link' = [link EXCEPT ![c].requests = Append(@, r)]
    PROVE  /\ r.topic = u /\ r.kind = "subscribe" => Delivers(c, u)'
           /\ (r.topic # u \/ r.kind = "publish") /\ Delivers(c, u) => Delivers(c, u)'
<1> DEFINE q == link[c].requests
<1> DEFINE p == Append(q, r)
<1>1. q \in Seq(Requests)
  BY DEF Links
<1>2. link'[c].requests = p /\ link'[c].broker = link[c].broker
  BY DEF Links
<1>3. /\ DOMAIN q = 1 .. Len(q) /\ DOMAIN p = 1 .. Len(q) + 1 /\ Len(q) \in Nat
      /\ p[Len(q) + 1] = r
      /\ \A i \in 1 .. Len(q) : p[i] = q[i]
  BY <1>1
<1> HIDE DEF p, q
<1>4. ASSUME r.topic = u, r.kind = "subscribe"
      PROVE  Delivers(c, u)'
  BY <1>2, <1>3, <1>4 DEF Delivers
<1>5. ASSUME r.topic # u \/ r.kind = "publish", Delivers(c, u)
      PROVE  Delivers(c, u)'
  <2>1. {i \in DOMAIN p : p[i].topic = u /\ p[i].kind # "publish"} =
           {i \in DOMAIN q : q[i].topic = u /\ q[i].kind # "publish"}
    BY <1>3, <1>5
  <2> QED
    BY <1>2, <1>3, <1>5, <2>1 DEF Delivers, q
<1> QED
  BY <1>4, <1>5

(* The three outcomes of a client call: the request is queued, a closed    *)
(* client forgets it, or the call throws and the listener is given up.     *)
Queued(a, t) ==
    /\ thread[a].copy \in Open
    /\ link' = [link EXCEPT ![thread[a].copy].requests = Append(@,
                   [kind |-> thread[a].call, topic |-> t, op |-> thread[a].op])]
    /\ UNCHANGED <<pending, reported>>
Forgotten(a, t) ==
    /\ thread[a].copy \notin Open
    /\ UNCHANGED <<link, pending, reported>>
Thrown(a, t) ==
    /\ pending' = pending \ {thread[a].op}
    /\ reported' = IF thread[a].call = "subscribe" /\ thread[a].copy = client
                   THEN reported \cup {t} ELSE reported
    /\ UNCHANGED link

(* What a client call leaves of the requests in flight. *)
LEMMA RequestsAfter ==
    ASSUME Inv, NEW a \in {"caller", "callback"}, thread[a].at = "send",
           NEW t \in thread[a].todo,
           Queued(a, t) \/ Forgotten(a, t) \/ Thrown(a, t)
    PROVE  /\ link' \in [Clients -> Links] /\ pending' \in SUBSET Ops
           /\ \A c \in Clients : link'[c].net = link[c].net
           /\ \A c \in Clients : link[c].net = "closed" => link'[c] = link[c]
           /\ \A c \in Clients : \A i \in DOMAIN link'[c].requests :
                 \/ i \in DOMAIN link[c].requests
                       /\ link'[c].requests[i] = link[c].requests[i]
                 \/ /\ i \notin DOMAIN link[c].requests
                    /\ \A j \in DOMAIN link'[c].requests :
                          j \notin DOMAIN link[c].requests => j = i
                    /\ c = thread[a].copy /\ link'[c].requests[i].op = thread[a].op
                    /\ pending' = pending
<1>1. link \in [Clients -> Links] /\ pending \in SUBSET Ops /\ thread[a] \in Records
  BY DEF Inv, TypeOK
<1>2. thread[a].copy \in Clients /\ thread[a].op \in Ops /\ t \in Topics
      /\ thread[a].call \in Calls \cup {None}
  BY <1>1 DEF Inv, Listeners, Records
<1> DEFINE c == thread[a].copy
           r == [kind |-> thread[a].call, topic |-> t, op |-> thread[a].op]
           q == link[c].requests
<1>3. CASE Queued(a, t)
  <2>1. r \in Requests /\ q \in Seq(Requests) /\ r.op = thread[a].op
    BY <1>1, <1>2 DEF Requests, Links
  <2> DEFINE p == Append(q, r)
  <2> HIDE DEF r, q
  <2>2. /\ p \in Seq(Requests)
        /\ DOMAIN q = 1 .. Len(q) /\ DOMAIN p = 1 .. Len(q) + 1 /\ Len(q) \in Nat
        /\ p[Len(q) + 1] = r
        /\ \A i \in 1 .. Len(q) : p[i] = q[i]
    BY <2>1
  <2>3. link' = [link EXCEPT ![c] = [link[c] EXCEPT !.requests = p]]
    BY <1>1, <1>2, <1>3 DEF Queued, p, q, r
  <2>5. c \in Clients /\ c = thread[a].copy /\ q = link[c].requests
        /\ link[c].net # "closed" /\ pending' = pending
    BY <1>2, <1>3 DEF q, Queued, Open
  <2> HIDE DEF p, c
  <2>4. /\ link' \in [Clients -> Links]
        /\ \A d \in Clients : d # c => link'[d] = link[d]
        /\ link'[c].net = link[c].net /\ link'[c].requests = p
    BY <1>1, <2>5, <2>2, <2>3 DEF Links
  <2>6. ASSUME NEW i \in DOMAIN link'[c].requests
        PROVE  \/ i \in DOMAIN link[c].requests
                     /\ link'[c].requests[i] = link[c].requests[i]
               \/ /\ i \notin DOMAIN link[c].requests
                  /\ \A j \in DOMAIN link'[c].requests :
                        j \notin DOMAIN link[c].requests => j = i
                  /\ link'[c].requests[i].op = thread[a].op
    <3>1. i \in 1 .. Len(q) + 1 /\ link'[c].requests[i] = p[i]
      BY <2>2, <2>4
    <3>2. CASE i \in 1 .. Len(q)
      BY <2>5, <2>2, <3>1, <3>2
    <3>3. CASE i \notin 1 .. Len(q)
      <4>1. i = Len(q) + 1
        BY <2>2, <3>1, <3>3
      <4>2. \A j \in DOMAIN p : j \notin DOMAIN q => j = Len(q) + 1
        BY <2>2
      <4> QED
        BY <2>5, <2>1, <2>2, <2>4, <3>1, <3>3, <4>1, <4>2
    <3> QED
      BY <3>2, <3>3
  <2> QED
    BY <1>1, <2>5, <2>4, <2>6
<1>4. CASE Forgotten(a, t) \/ Thrown(a, t)
  BY <1>1, <1>4 DEF Forgotten, Thrown
<1> QED
  BY <1>3, <1>4

(* A client call keeps every topic with a handler subscribed, about to be, *)
(* or reported.                                                            *)
LEMMA SendHandlers ==
    ASSUME Inv, NEW a \in {"caller", "callback"}, thread[a].at = "send",
           NEW t \in thread[a].todo,
           Queued(a, t) \/ Forgotten(a, t) \/ Thrown(a, t),
           NEW next, Moved(a, next),
           \/ thread[a].todo = {t}
           \/ /\ next.copy = thread[a].copy /\ next.call = thread[a].call
              /\ next.todo = thread[a].todo \ {t},
           UNCHANGED <<status, shuttingDown, client, subscriptions, stale>>
    PROVE  HandlersSubscribed'
<1>1. link \in [Clients -> Links] /\ client \in Clients \cup {None} /\ thread[a] \in Records
  BY DEF Inv, TypeOK
<1>2. \A c \in Clients : link'[c].net = link[c].net
  BY RequestsAfter
<1> SUFFICES ASSUME ConnectedUp', ~stale', NEW u \in subscriptions'
             PROVE  Subscribed(u)'
  BY DEF HandlersSubscribed
<1>3. client \in Clients /\ client \in Open
  BY <1>1, <1>2 DEF ConnectedUp, Open
<1>4. ConnectedUp /\ u \in subscriptions
  BY <1>2, <1>3 DEF ConnectedUp
<1>5. Subscribed(u)
  BY <1>4 DEF Inv, HandlersSubscribed
<1>6. thread[a].call \in {"subscribe", "unsubscribe", "publish"}
      /\ (thread[a].call = "unsubscribe" => t # u)
      /\ t \in Topics /\ thread[a].op \in Ops
  BY <1>1, <1>4 DEF Inv, Todo, Listeners, Records
<1> DEFINE r == [kind |-> thread[a].call, topic |-> t, op |-> thread[a].op]
<1>7. r \in Requests /\ r.kind = thread[a].call /\ r.topic = t
  BY <1>6 DEF Requests, Calls
<1>8. reported \subseteq reported'
  BY DEF Queued, Forgotten, Thrown
<1>9. ASSUME Delivers(client, u)
      PROVE  Delivers(client, u)'
  <2>1. CASE Queued(a, t) /\ thread[a].copy = client
    <3>1. link' = [link EXCEPT ![client].requests = Append(@, r)]
      BY <2>1 DEF Queued
    <3> HIDE DEF r
    <3>2. (r.topic = u /\ r.kind = "subscribe" => Delivers(client, u)')
          /\ ((r.topic # u \/ r.kind = "publish") => Delivers(client, u)')
      BY <1>1, <1>3, <1>7, <1>9, <3>1, DeliversAppend
    <3> QED
      BY <1>6, <1>7, <3>2
  <2>2. CASE ~(Queued(a, t) /\ thread[a].copy = client)
    <3>1. link'[client] = link[client]
      BY <1>1, <1>3, <2>2 DEF Queued, Forgotten, Thrown
    <3> QED
      BY <1>9, <3>1 DEF Delivers
  <2> QED
    BY <2>1, <2>2
<1>10. ASSUME AboutToSubscribe(u)
       PROVE  Subscribed(u)'
  <2>1. PICK b \in Threads : thread[b].call = "subscribe" /\ thread[b].copy = client
                             /\ u \in thread[b].todo
    BY <1>10 DEF AboutToSubscribe
  <2>2. CASE b # a
    <3>1. thread'[b].call = "subscribe" /\ thread'[b].copy = client /\ u \in thread'[b].todo
      BY <2>1, <2>2 DEF Moved, Kept
    <3> QED
      BY <3>1 DEF Subscribed, AboutToSubscribe
  <2>3. CASE b = a /\ u # t
    <3>1. thread'[a].call = "subscribe" /\ thread'[a].copy = client /\ u \in thread'[a].todo
      BY <2>1, <2>3 DEF Moved
    <3> QED
      BY <3>1 DEF Subscribed, AboutToSubscribe
  <2>4. CASE b = a /\ u = t /\ Queued(a, t)
    <3>1. link' = [link EXCEPT ![client].requests = Append(@, r)]
      BY <2>1, <2>4 DEF Queued
    <3> HIDE DEF r
    <3>2. Delivers(client, u)'
      BY <1>1, <1>3, <1>7, <2>1, <2>4, <3>1, DeliversAppend
    <3> QED
      BY <3>2 DEF Subscribed
  <2>5. CASE b = a /\ u = t /\ Forgotten(a, t)
    BY <1>3, <2>1, <2>5 DEF Forgotten
  <2>6. CASE b = a /\ u = t /\ Thrown(a, t)
    BY <2>1, <2>6 DEF Thrown, Subscribed
  <2> QED
    BY <2>2, <2>3, <2>4, <2>5, <2>6
<1> QED
  BY <1>5, <1>8, <1>9, <1>10 DEF Subscribed

(* A client call keeps the invariant, whatever its outcome. *)
LEMMA SendStep ==
    ASSUME Inv, NEW a \in {"caller", "callback"}, Send(a)
    PROVE  Inv'
<1>1. TypeOK /\ Places /\ Lock /\ Ownership /\ Callback /\ Listeners /\ Todo /\ Connection
      /\ Closed /\ HandlersSubscribed
  BY DEF Inv
<1>2. thread[a].at = "send" /\ thread[a] \in Records
  BY <1>1 DEF Send, TypeOK
<1>3. UNCHANGED <<status, shuttingDown, client, subscriptions, operationMutex, stale>>
  BY DEF Send
<1>4. PICK t \in thread[a].todo :
         /\ Queued(a, t) \/ Forgotten(a, t) \/ Thrown(a, t)
         /\ IF thread[a].todo # {t}
            THEN /\ Become(a, [thread[a] EXCEPT !.at = "track", !.todo = @ \ {t}, !.op = None])
                 /\ UNCHANGED source
            ELSE IF a = "caller"
            THEN Become(a, Idle("idle")) /\ UNCHANGED source
            ELSE Become(a, Returned) /\ source' = SourceAfter
  BY DEF Send, Queued, Forgotten, Thrown
<1>5. PICK next \in Records :
         /\ Become(a, next) /\ next.op = None
         /\ \/ /\ next.at = "track" /\ next.copy = thread[a].copy
               /\ next.call = thread[a].call /\ next.todo = thread[a].todo \ {t}
               /\ source' = source
            \/ /\ next.at = "idle" /\ next.todo = {} /\ thread[a].todo = {t}
               /\ a = "caller" /\ source' = source
            \/ /\ next.at \in {"idle", "enter"} /\ next.todo = {} /\ thread[a].todo = {t}
               /\ a = "callback" /\ next = Returned /\ source' = SourceAfter
  <2>1. CASE thread[a].todo # {t}
    <3> DEFINE next == [thread[a] EXCEPT !.at = "track", !.todo = @ \ {t}, !.op = None]
    <3>1. next \in Records /\ next.at = "track" /\ next.copy = thread[a].copy
          /\ next.call = thread[a].call /\ next.todo = thread[a].todo \ {t}
          /\ next.op = None
      BY <1>2 DEF Records, CallerPlaces
    <3> QED
      BY <1>4, <2>1, <3>1
  <2>2. CASE thread[a].todo = {t} /\ a = "caller"
    <3>1. Idle("idle") \in Records /\ Idle("idle").at = "idle" /\ Idle("idle").todo = {}
          /\ Idle("idle").op = None
      BY DEF Idle, Records, CallerPlaces
    <3> QED
      BY <1>4, <2>2, <3>1
  <2>3. CASE thread[a].todo = {t} /\ a = "callback"
    BY <1>4, <2>3, ReturnFacts
  <2> QED
    BY <2>1, <2>2, <2>3
<1>6. Moved(a, next)
  BY <1>1, <1>5, BecomeMoves
<1>7. \A b \in Threads : b # a =>
         /\ thread'[b].copy = thread[b].copy /\ thread'[b].call = thread[b].call
         /\ thread'[b].todo = thread[b].todo /\ thread'[b].op = thread[b].op
  BY <1>6 DEF Moved, Kept
<1>8. \A b \in Threads : b # a =>
         \/ thread'[b].at = thread[b].at
         \/ b = "run" /\ thread[b].at \in Waiting /\ thread'[b].at \in Testing
  BY <1>6 DEF Moved, Kept
<1>9. thread'[a] = next /\ thread' \in [Threads -> Records]
      /\ next.at \in {"track", "idle", "enter"}
  BY <1>5, <1>6 DEF Moved
<1>10. /\ link' \in [Clients -> Links] /\ pending' \in SUBSET Ops
       /\ \A c \in Clients : link'[c].net = link[c].net
       /\ \A c \in Clients : link[c].net = "closed" => link'[c] = link[c]
  BY <1>2, <1>4, RequestsAfter
<1>11. /\ source' \in [client : Clients \cup {None}, again : BOOLEAN]
       /\ source'.client = None \/ source'.client = source.client
  BY <1>1, <1>5, ReturnFacts DEF TypeOK
<1>12. \A b \in Threads : \A pc \in Holding \cup {"done"} :
           thread'[b].at = pc <=> thread[b].at = pc
  BY <1>2, <1>8, <1>9
<1>13. TypeOK'
  BY <1>1, <1>3, <1>9, <1>10, <1>11 DEF TypeOK
<1>14. Places'
  <2>1. next.at \in CallbackPlaces /\ (a = "caller" => next.at \in CallerPlaces)
    BY <1>5 DEF CallbackPlaces, CallerPlaces
  <2>2. thread'["caller"].at \notin Holding \/ a # "caller"
    BY <1>9
  <2> QED
    BY <1>1, <1>7, <1>8, <1>9, <2>1, <2>2 DEF Places, RunPlaces
<1>15. Lock'
  BY <1>1, <1>3, <1>12 DEF Lock
<1>16. Ownership'
  <2>1. \A b \in Threads : thread[b].at = "drop" => thread'[b].copy = thread[b].copy
    BY <1>2, <1>7
  <2>2. OneConnection'
    BY <1>1, <1>3, <1>10, <1>12, <2>1 DEF Ownership, OneConnection, Open
  <2>3. thread'["run"].at = "dial" => /\ client # None /\ link'[client].net = "idle"
                                     /\ source'.client # client
    BY <1>1, <1>10, <1>11, <1>12 DEF Ownership, TypeOK
  <2> QED
    BY <1>1, <1>3, <1>10, <1>12, <2>1, <2>2, <2>3 DEF Ownership
<1>17. Callback'
  <2>1. client # None => link'[client].net = link[client].net
    BY <1>1, <1>10 DEF TypeOK
  <2>2. CASE a = "caller"
    BY <1>1, <1>3, <1>5, <1>8, <2>1, <2>2 DEF Callback
  <2>3. CASE a = "callback" /\ next.at = "track" /\ source' = source
    BY <1>1, <1>2, <1>3, <1>9, <2>1, <2>3 DEF Callback
  <2>4. CASE a = "callback" /\ next = Returned /\ source' = SourceAfter
    BY <1>1, <1>2, <1>3, <1>9, <2>1, <2>4, ReturnFacts DEF Callback
  <2> QED
    BY <1>5, <2>2, <2>3, <2>4
<1>18. Listeners'
  <2>1. \A b \in Threads : thread'[b].at = "send" =>
           b # a /\ thread[b].at = "send" /\ thread[b].op # thread[a].op
    BY <1>1, <1>2, <1>8, <1>9 DEF Listeners
  <2>2. \A o \in pending : o # thread[a].op => o \in pending'
    BY <1>4 DEF Queued, Forgotten, Thrown
  <2>3. \A c \in Clients : \A i \in DOMAIN link'[c].requests :
           \/ i \in DOMAIN link[c].requests
                 /\ link'[c].requests[i] = link[c].requests[i]
           \/ /\ i \notin DOMAIN link[c].requests
              /\ \A j \in DOMAIN link'[c].requests :
                    j \notin DOMAIN link[c].requests => j = i
              /\ c = thread[a].copy /\ link'[c].requests[i].op = thread[a].op
              /\ pending' = pending
    BY <1>2, <1>4, RequestsAfter
  <2>4. \A c \in Clients : \A i \in DOMAIN link[c].requests :
           link[c].requests[i].op # thread[a].op
    BY <1>1, <1>2 DEF Listeners
  <2>5. TrackedInFlight'
    <3> SUFFICES ASSUME client # None, NEW i \in DOMAIN link'[client].requests
                 PROVE  link'[client].requests[i].op \in pending'
      BY <1>3 DEF TrackedInFlight
    <3>1. client \in Clients
      BY <1>1 DEF TypeOK
    <3>2. CASE i \in DOMAIN link[client].requests
                 /\ link'[client].requests[i] = link[client].requests[i]
      BY <1>1, <2>2, <2>4, <3>1, <3>2 DEF Listeners, TrackedInFlight
    <3>3. CASE client = thread[a].copy /\ link'[client].requests[i].op = thread[a].op
                 /\ pending' = pending
      BY <1>1, <1>2, <3>3 DEF Listeners
    <3> QED
      BY <2>3, <3>1, <3>2, <3>3
  <2>6. \A b \in Threads : thread'[b].at \in Sending => thread'[b].copy # None
    BY <1>1, <1>2, <1>5, <1>7, <1>8, <1>9 DEF Listeners
  <2>7. \A b \in Threads : thread'[b].op # None => thread'[b].at = "send"
    BY <1>1, <1>5, <1>7, <1>8, <1>9 DEF Listeners
  <2>8. \A b \in Threads : thread'[b].at = "send" =>
          /\ thread'[b].op # None
          /\ thread'[b].copy = client => thread'[b].op \in pending'
    BY <1>1, <1>7, <2>1, <2>2 DEF Listeners
  <2>9. \A b \in Threads : thread'[b].at = "send" =>
          \A c \in Clients : \A i \in DOMAIN link'[c].requests :
                link'[c].requests[i].op # thread'[b].op
    BY <1>1, <1>7, <2>1, <2>3 DEF Listeners
  <2>10. \A b, d \in Threads : thread'[b].at = "send" /\ thread'[d].at = "send" /\ b # d
            => thread'[b].op # thread'[d].op
    BY <1>1, <1>7, <2>1 DEF Listeners
  <2>11. \A c \in Clients : \A i, j \in DOMAIN link'[c].requests :
          link'[c].requests[i].op = link'[c].requests[j].op => i = j
    BY <1>1, <2>3, <2>4 DEF Listeners
  <2> QED
    BY <1>3, <2>5, <2>6, <2>7, <2>8, <2>9, <2>10, <2>11 DEF Listeners
<1>19. Closed'
  <2>1. Leaving' => Leaving
    BY <1>7, <1>12 DEF Leaving
  <2> QED
    BY <1>1, <1>3, <1>12, <2>1, ClosedKept
<1>20. Todo'
  BY <1>1, <1>3, <1>5, <1>7, <1>8, <1>9 DEF Todo
<1>21. Connection'
  <2>1. thread["callback"].at \in {"lost", "losing"} =>
           a = "caller" /\ thread'["callback"].at = thread["callback"].at
    BY <1>2, <1>8
  <2>2. client # None => link'[client].net = link[client].net
    BY <1>1, <1>10 DEF TypeOK
  <2> QED
    BY <1>1, <1>3, <1>5, <1>12, <2>1, <2>2 DEF Connection
<1>22. HandlersSubscribed'
  BY <1>2, <1>3, <1>4, <1>5, <1>6, SendHandlers
<1> QED
  BY <1>13, <1>14, <1>15, <1>16, <1>17, <1>18, <1>19, <1>20, <1>21, <1>22 DEF Inv
-----------------------------------------------------------------------------
(* Callbacks *)

(* A connection callback takes its step: it returns, goes on to lose the   *)
(* connection, or goes on to subscribe.  It sets the status only on behalf *)
(* of the current client, or is stale, and after shuttingDown_ was set     *)
(* only to Reconnecting.                                                   *)
LEMMA CallbackStep ==
    ASSUME Inv, thread["callback"].at \in {"enter", "lost", "losing", "refused"},
           NEW next \in Records, Moved("callback", next),
           \/ next = Returned /\ source' = SourceAfter
           \/ /\ next.at = "losing" /\ next.op = None /\ next.todo = {}
              /\ thread["callback"].at = "lost" /\ source' = source
           \/ /\ next.at = "track" /\ next.op = None /\ next.call = "subscribe"
              /\ next.copy = client /\ client # None
              /\ thread["callback"].at = "enter" /\ source' = source,
           UNCHANGED <<shuttingDown, client, subscriptions, pending, operationMutex, link>>,
           status' \in Statuses, stale' \in BOOLEAN,
           status' = status \/ source.client = client \/ stale',
           status' \in {status, "Reconnecting"} \/ ~shuttingDown,
           stale => stale', Connection', HandlersSubscribed'
    PROVE  Inv'
<1>1. TypeOK /\ Places /\ Lock /\ Ownership /\ Callback /\ Listeners /\ Todo /\ Closed
  BY DEF Inv
<1>2. \A b \in Threads : b # "callback" =>
         /\ thread'[b].copy = thread[b].copy /\ thread'[b].call = thread[b].call
         /\ thread'[b].todo = thread[b].todo /\ thread'[b].op = thread[b].op
  BY DEF Moved, Kept
<1>3. \A b \in Threads : b # "callback" =>
         \/ thread'[b].at = thread[b].at
         \/ b = "run" /\ thread[b].at \in Waiting /\ thread'[b].at \in Testing
  BY DEF Moved, Kept
<1>4. thread'["callback"] = next /\ thread' \in [Threads -> Records]
  BY DEF Moved
<1>5. /\ next.at \in {"idle", "enter", "losing", "track"} /\ next.op = None
      /\ next.at # "track" => next.todo = {}
      /\ next.at = "track" => next.copy # None /\ next.call = "subscribe"
  BY ReturnFacts
<1>6. source' \in [client : Clients \cup {None}, again : BOOLEAN]
      /\ (source'.client = None \/ source'.client = source.client)
  BY <1>1, ReturnFacts DEF TypeOK
<1>7. TypeOK'
  BY <1>1, <1>4, <1>6 DEF TypeOK
<1>8. Places'
  BY <1>1, <1>2, <1>3, <1>4, <1>5 DEF Places, RunPlaces, CallbackPlaces
<1>9. \A b \in Threads : \A pc \in Holding \cup {"done"} :
           thread'[b].at = pc <=> thread[b].at = pc
  BY <1>3, <1>4, <1>5
<1>10. Lock'
  BY <1>1, <1>9 DEF Lock
<1>11. Ownership'
  <2>1. \A b \in Threads : thread[b].at = "drop" => thread'[b].copy = thread[b].copy
    BY <1>2
  <2>2. OneConnection'
    BY <1>1, <1>9, <2>1 DEF Ownership, OneConnection, Open
  <2>3. thread'["run"].at = "dial" => /\ client # None /\ link'[client].net = "idle"
                                     /\ source'.client # client
    BY <1>1, <1>6, <1>9 DEF Ownership
  <2> QED
    BY <1>1, <1>9, <2>1, <2>2, <2>3 DEF Ownership
<1>12. Callback'
  <2>1. CASE next = Returned /\ source' = SourceAfter
    BY <1>1, <1>4, <2>1, ReturnFacts DEF Callback
  <2>2. CASE next.at = "losing" /\ thread["callback"].at = "lost" /\ source' = source
    BY <1>1, <1>4, <2>2 DEF Callback
  <2>3. CASE next.at = "track" /\ thread["callback"].at = "enter" /\ source' = source
    BY <1>1, <1>4, <2>3 DEF Callback
  <2> QED
    BY <2>1, <2>2, <2>3
<1>13. Listeners'
  <2>1. TrackedInFlight'
    BY <1>1 DEF Listeners, TrackedInFlight
  <2>2. \A b \in Threads : thread'[b].at = "send" => b # "callback" /\ thread[b].at = "send"
    BY <1>3, <1>4, <1>5
  <2>3. \A b \in Threads : thread'[b].at \in Sending => thread'[b].copy # None
    BY <1>1, <1>2, <1>3, <1>4, <1>5 DEF Listeners
  <2>4. \A b \in Threads : thread'[b].op # None => thread'[b].at = "send"
    BY <1>1, <1>2, <1>3, <1>4, <1>5 DEF Listeners
  <2> QED
    BY <1>1, <1>2, <2>1, <2>2, <2>3, <2>4 DEF Listeners
<1>14. Closed'
  <2>1. Leaving' => Leaving
    BY <1>2, <1>9 DEF Leaving
  <2> QED
    BY <1>1, <1>9, <2>1, ClosedKept
<1>15. Todo'
  BY <1>1, <1>2, <1>3, <1>4, <1>5 DEF Todo
<1> QED
  BY <1>7, <1>8, <1>10, <1>11, <1>12, <1>13, <1>14, <1>15 DEF Inv

(* HandleConnected sets the status and asks for every handler's topic. *)
LEMMA HandleConnectedStep ==
    ASSUME Inv, HandleConnected
    PROVE  Inv'
<1>1. TypeOK /\ Callback /\ Todo /\ Connection /\ HandlersSubscribed
  BY DEF Inv
<1>2. thread["callback"].at = "enter" /\ thread["callback"].todo = {}
  BY <1>1 DEF HandleConnected, IgnoresConnection, Todo
<1>3. UNCHANGED <<shuttingDown, client, subscriptions, pending, operationMutex, link>>
  BY DEF HandleConnected, IgnoresConnection
<1>4. Returned \in Records
  BY ReturnFacts
<1>5. CASE /\ Become("callback", Returned) /\ source' = SourceAfter
           /\ UNCHANGED <<status, reported, stale>>
  <2>1. Moved("callback", Returned)
    BY <1>1, <1>4, <1>5, BecomeMoves
  <2>2. Connection'
    <3>1. thread'["run"].at = "create" => thread["run"].at = "create"
      BY <2>1 DEF Moved, Kept
    <3> QED
      BY <1>1, <1>2, <1>3, <1>5, <3>1 DEF Connection
  <2>3. HandlersSubscribed'
    <3>1. ConnectedUp' => ConnectedUp /\ client' = client
      BY <1>3, <1>5 DEF ConnectedUp
    <3>2. \A b \in Threads : thread[b].todo # {} =>
             /\ thread'[b].copy = thread[b].copy /\ thread'[b].call = thread[b].call
             /\ thread'[b].todo = thread[b].todo
      BY <1>2, <2>1 DEF Moved, Kept
    <3> QED
      BY <1>1, <1>3, <1>5, <3>1, <3>2, HandlersKept
  <2> QED
    BY <1>1, <1>2, <1>3, <1>4, <1>5, <2>1, <2>2, <2>3, CallbackStep DEF TypeOK
<1>6. CASE /\ status' = "Connected"
           /\ stale' = (stale \/ source.client # client)
           /\ reported' = {} /\ ~shuttingDown
           /\ IF client = None \/ subscriptions = {}
              THEN BecomeNotifying("callback", Returned) /\ source' = SourceAfter
              ELSE /\ BecomeNotifying("callback",
                          [Idle("track") EXCEPT !.copy = client,
                             !.call = "subscribe", !.todo = subscriptions])
                   /\ UNCHANGED source
  <2> DEFINE asks == [Idle("track") EXCEPT !.copy = client, !.call = "subscribe",
                                           !.todo = subscriptions]
  <2>1. asks \in Records /\ asks.at = "track" /\ asks.copy = client
        /\ asks.call = "subscribe" /\ asks.todo = subscriptions /\ asks.op = None
    BY <1>1 DEF Idle, Records, CallerPlaces, Calls, TypeOK
  <2>2. PICK next \in Records : /\ Moved("callback", next)
           /\ \/ next = Returned /\ source' = SourceAfter
                    /\ (client = None \/ subscriptions = {})
              \/ next = asks /\ source' = source /\ client # None
    BY <1>1, <1>4, <1>6, <2>1, BecomeMoves
  <2> HIDE DEF asks
  <2>3. Connection'
    <3>1. thread'["run"].at = "create" => client = None /\ source.client # None
      BY <1>1, <1>2, <2>2 DEF Moved, Kept, Inv, Ownership, Callback
    <3>2. source.client = client /\ client # None => link[client].net = "up"
      BY <1>1, <1>2 DEF Callback
    <3> QED
      BY <1>3, <1>6, <3>1, <3>2 DEF Connection
  <2>4. HandlersSubscribed'
    <3> SUFFICES ASSUME ConnectedUp', NEW u \in subscriptions'
                 PROVE  Subscribed(u)'
      BY DEF HandlersSubscribed
    <3>1. thread'["callback"] = asks
      BY <1>3, <2>2 DEF ConnectedUp, Moved
    <3> QED
      BY <1>3, <2>1, <3>1 DEF Subscribed, AboutToSubscribe
  <2>5. status' \in Statuses /\ stale' \in BOOLEAN /\ (stale => stale')
        /\ (source.client = client \/ stale') /\ ~shuttingDown
    BY <1>6 DEF Statuses
  <2>6. \/ next = Returned /\ source' = SourceAfter
        \/ /\ next.at = "track" /\ next.op = None /\ next.call = "subscribe"
           /\ next.copy = client /\ client # None
           /\ thread["callback"].at = "enter" /\ source' = source
    BY <1>2, <2>1, <2>2
  <2> QED
    BY <1>2, <1>3, <2>2, <2>3, <2>4, <2>5, <2>6, CallbackStep
<1> QED
  BY <1>5, <1>6 DEF HandleConnected, IgnoresConnection

(* connection_lost returns at shutdown and goes on otherwise. *)
LEMMA ConnectionLostStep ==
    ASSUME Inv, ConnectionLost
    PROVE  Inv'
<1> DEFINE loses == [thread["callback"] EXCEPT !.at = "losing"]
<1>1. TypeOK /\ Callback /\ Listeners /\ Todo /\ Connection /\ HandlersSubscribed
  BY DEF Inv
<1>2. thread["callback"].at = "lost" /\ thread["callback"].todo = {}
      /\ thread["callback"].op = None
  BY <1>1 DEF ConnectionLost, Todo, Listeners
<1>3. UNCHANGED <<status, shuttingDown, client, subscriptions, pending, operationMutex,
                  link, reported, stale>>
  BY DEF ConnectionLost, serviceVars, history
<1>4. loses \in Records /\ loses.at = "losing" /\ loses.op = None /\ loses.todo = {}
  BY <1>1, <1>2 DEF TypeOK, Records, CallbackPlaces
<1>5. Returned \in Records
  BY ReturnFacts
<1>6. PICK next \in Records : /\ Moved("callback", next)
         /\ \/ next = Returned /\ source' = SourceAfter /\ shuttingDown
            \/ next = loses /\ source' = source /\ ~shuttingDown
  BY <1>1, <1>4, <1>5, BecomeMoves DEF ConnectionLost, Go
<1> HIDE DEF loses
<1>7. Connection'
  <2>1. thread'["run"].at = "create" => thread["run"].at = "create"
    BY <1>6 DEF Moved, Kept
  <2>2. ~shuttingDown => thread'["callback"].at = "losing" /\ source' = source
    BY <1>4, <1>6 DEF Moved
  <2> QED
    BY <1>1, <1>2, <1>3, <2>1, <2>2 DEF Connection
<1>8. HandlersSubscribed'
  <2>1. ConnectedUp' => ConnectedUp /\ client' = client
    BY <1>3 DEF ConnectedUp
  <2>2. \A b \in Threads : thread[b].todo # {} =>
             /\ thread'[b].copy = thread[b].copy /\ thread'[b].call = thread[b].call
             /\ thread'[b].todo = thread[b].todo
    BY <1>2, <1>6 DEF Moved, Kept
  <2> QED
    BY <1>1, <1>3, <2>1, <2>2, HandlersKept
<1> QED
  BY <1>1, <1>2, <1>3, <1>4, <1>6, <1>7, <1>8, CallbackStep DEF TypeOK

(* The callbacks that end a connection or an attempt. *)
LEMMA StatusCallbackStep ==
    ASSUME Inv, ConnectionLostStatus \/ ConnectFailed
    PROVE  Inv'
<1>1. TypeOK /\ Callback /\ Todo /\ Connection /\ HandlersSubscribed
  BY DEF Inv
<1>2. thread["callback"].at \in {"losing", "refused"} /\ thread["callback"].todo = {}
  BY <1>1 DEF ConnectionLostStatus, ConnectFailed, Todo
<1>3. UNCHANGED <<shuttingDown, client, subscriptions, pending, operationMutex,
                  link, reported>>
  BY DEF ConnectionLostStatus, ConnectFailed
<1>4. /\ \/ thread["callback"].at = "losing" /\ status' = "Reconnecting"
         \/ thread["callback"].at = "refused" /\ status' \in {status, "Error"}
      /\ stale' \in BOOLEAN /\ (stale => stale')
      /\ (status' = status \/ source.client = client \/ stale')
      /\ (status' \in {status, "Reconnecting"} \/ ~shuttingDown)
  BY <1>1 DEF ConnectionLostStatus, ConnectFailed, LifecycleError, TypeOK
<1>5. source' = SourceAfter /\ Returned \in Records
  BY ReturnFacts DEF ConnectionLostStatus, ConnectFailed
<1>6. Moved("callback", Returned)
  BY <1>1, <1>5, BecomeMoves DEF ConnectionLostStatus, ConnectFailed
<1>7. Connection'
  <2>1. thread'["run"].at = "create" => thread["run"].at = "create"
    BY <1>6 DEF Moved, Kept
  <2> QED
    BY <1>1, <1>2, <1>3, <1>4, <2>1 DEF Connection
<1>8. HandlersSubscribed'
  <2>1. ConnectedUp' => ConnectedUp /\ client' = client
    BY <1>3, <1>4 DEF ConnectedUp
  <2>2. \A b \in Threads : thread[b].todo # {} =>
             /\ thread'[b].copy = thread[b].copy /\ thread'[b].call = thread[b].call
             /\ thread'[b].todo = thread[b].todo
    BY <1>2, <1>6 DEF Moved, Kept
  <2> QED
    BY <1>1, <1>3, <1>4, <2>1, <2>2, HandlersKept
<1>9. status' \in Statuses
  BY <1>1, <1>4 DEF TypeOK, Statuses
<1> QED
  BY <1>2, <1>3, <1>4, <1>5, <1>6, <1>7, <1>8, <1>9, CallbackStep

(* A step of the broker or of the network at client c leaves the threads   *)
(* without a listener to themselves: the requests of c may lose their      *)
(* first, whose listener alone may leave pendingOperations_.               *)
LEMMA ListenersAnswered ==
    ASSUME Inv, NEW c \in Clients, link[c].net # "closed",
           UNCHANGED client,
           \A b \in Threads : /\ thread'[b].op = thread[b].op
                              /\ thread'[b].copy = thread[b].copy
                              /\ thread'[b].at \in Sending \/ thread[b].at \in Sending
                                    => thread'[b].at = thread[b].at,
           \A d \in Clients : d # c => link'[d].requests = link[d].requests,
           \/ link'[c].requests = link[c].requests /\ pending' = pending
           \/ /\ link[c].requests # <<>>
              /\ link'[c].requests = Tail(link[c].requests)
              /\ pending' = pending \ {Head(link[c].requests).op}
    PROVE  Listeners'
<1>1. Listeners /\ link[c].requests \in Seq(Requests) /\ client \in Clients \cup {None}
  BY DEF Inv, TypeOK, Links
<1>2. PICK k \in {0, 1} :
         /\ \A i \in DOMAIN link'[c].requests :
               /\ i \in Nat /\ i + k \in DOMAIN link[c].requests
               /\ link'[c].requests[i] = link[c].requests[i + k]
         /\ k = 0 => pending' = pending
         /\ k = 1 => /\ 1 \in DOMAIN link[c].requests /\ 0 \notin DOMAIN link'[c].requests
                     /\ pending' = pending \ {link[c].requests[1].op}
  <2>1. CASE link'[c].requests = link[c].requests /\ pending' = pending
    BY <1>1, <2>1
  <2>2. CASE /\ link[c].requests # <<>>
             /\ link'[c].requests = Tail(link[c].requests)
             /\ pending' = pending \ {Head(link[c].requests).op}
    <3> DEFINE q == link[c].requests
    <3>1. q \in Seq(Requests) /\ q # <<>>
      BY <1>1, <2>2
    <3> HIDE DEF q
    <3>2. /\ DOMAIN q = 1 .. Len(q) /\ Len(q) \in Nat /\ 1 \in DOMAIN q /\ Head(q) = q[1]
          /\ DOMAIN Tail(q) = 1 .. (Len(q) - 1)
          /\ \A i \in DOMAIN Tail(q) : Tail(q)[i] = q[i + 1]
      BY <3>1, TailFacts
    <3>3. \A i \in DOMAIN Tail(q) : i \in Nat /\ i + 1 \in DOMAIN q /\ i # 0
      BY <3>2
    <3>4. link'[c].requests = Tail(q) /\ pending' = pending \ {q[1].op}
      BY <2>2, <3>2 DEF q
    <3> QED
      BY <3>2, <3>3, <3>4 DEF q
  <2> QED
    BY <2>1, <2>2
<1>3. \A d \in Clients : \A i \in DOMAIN link'[d].requests :
         \E j \in DOMAIN link[d].requests : link'[d].requests[i] = link[d].requests[j]
  BY <1>2
<1>4. \A b \in Threads : thread'[b].at = "send" => thread[b].at = "send"
  OBVIOUS
<1>5. \A b \in Threads : thread[b].at = "send" /\ thread[b].op \in pending
         => thread[b].op \in pending'
  BY <1>1, <1>2 DEF Listeners
<1>6. TrackedInFlight'
  <2> SUFFICES ASSUME client # None, NEW i \in DOMAIN link'[client].requests
               PROVE  link'[client].requests[i].op \in pending'
    BY DEF TrackedInFlight
  <2>1. c = client
    BY DEF Inv, Ownership, OneConnection, Open
  <2>2. i + k \in DOMAIN link[c].requests /\ link'[c].requests[i] = link[c].requests[i + k]
        /\ i \in Nat
    BY <1>2, <2>1
  <2>3. link[c].requests[i + k].op \in pending
    BY <1>1, <2>1, <2>2 DEF Listeners, TrackedInFlight
  <2>4. k = 1 => link[c].requests[i + k].op # link[c].requests[1].op
    <3>1. k = 1 => i # 0 /\ 1 \in DOMAIN link[c].requests
      BY <1>2, <2>1
    <3>2. k = 1 => i + k # 1
      BY <2>2, <3>1
    <3> QED
      BY <1>1, <2>2, <3>1, <3>2 DEF Listeners
  <2> QED
    BY <1>2, <2>1, <2>2, <2>3, <2>4
<1>7. \A d \in Clients : \A i, j \in DOMAIN link'[d].requests :
         link'[d].requests[i].op = link'[d].requests[j].op => i = j
  <2>1. \A i, j \in DOMAIN link'[c].requests :
         link'[c].requests[i].op = link'[c].requests[j].op => i = j
    <3> SUFFICES ASSUME NEW i \in DOMAIN link'[c].requests, NEW j \in DOMAIN link'[c].requests,
                        link'[c].requests[i].op = link'[c].requests[j].op
                 PROVE  i = j
      OBVIOUS
    <3>1. i \in Nat /\ j \in Nat /\ i + k = j + k
      BY <1>1, <1>2 DEF Listeners
    <3> QED
      BY <3>1
  <2> QED
    BY <1>1, <2>1 DEF Listeners
<1>8. \A b \in Threads : thread'[b].at = "send" =>
          \A d \in Clients : \A i \in DOMAIN link'[d].requests :
                link'[d].requests[i].op # thread'[b].op
  BY <1>1, <1>3, <1>4 DEF Listeners
<1>9. \A b \in Threads : thread'[b].at = "send" =>
          /\ thread'[b].op # None
          /\ thread'[b].copy = client => thread'[b].op \in pending'
  BY <1>1, <1>4, <1>5 DEF Listeners
<1>10. \A b \in Threads : thread'[b].op # None => thread'[b].at = "send"
  BY <1>1 DEF Listeners
<1>11. \A b \in Threads : thread'[b].at \in Sending => thread'[b].copy # None
  BY <1>1 DEF Listeners
<1>12. \A b, d \in Threads : thread'[b].at = "send" /\ thread'[d].at = "send" /\ b # d
            => thread'[b].op # thread'[d].op
  BY <1>1, <1>4 DEF Listeners
<1> QED
  BY <1>6, <1>7, <1>8, <1>9, <1>10, <1>11, <1>12 DEF Listeners

(* Once the first request is answered the broker delivers what it would    *)
(* have delivered, unless that was a subscription which failed.            *)
LEMMA DeliversAnswer ==
    ASSUME link \in [Clients -> Links], NEW c \in Clients, NEW u,
           link[c].requests # <<>>, link'[c].requests = Tail(link[c].requests),
           LET r == Head(link[c].requests)
           IN  \/ link'[c].broker = CASE r.kind = "subscribe" -> link[c].broker \cup {r.topic}
                                      [] r.kind = "unsubscribe" -> link[c].broker \ {r.topic}
                                      [] OTHER -> link[c].broker
               \/ link'[c].broker = link[c].broker /\ ~(r.kind = "subscribe" /\ r.topic = u),
           Delivers(c, u)
    PROVE  Delivers(c, u)'
<1> DEFINE q == link[c].requests
<1> DEFINE p == Tail(q)
<1> DEFINE old == {i \in DOMAIN q : q[i].topic = u /\ q[i].kind # "publish"}
<1> DEFINE new == {i \in DOMAIN p : p[i].topic = u /\ p[i].kind # "publish"}
<1>1. q \in Seq(Requests) /\ q # <<>>
  BY DEF Links
<1>2. IF old = {} THEN u \in link[c].broker
      ELSE \E i \in old : q[i].kind = "subscribe" /\ \A j \in old : j <= i
  BY DEF Delivers
<1>3. Delivers(c, u)' <=>
         IF new = {} THEN u \in link'[c].broker
         ELSE \E i \in new : p[i].kind = "subscribe" /\ \A j \in new : j <= i
  BY DEF Delivers
<1>4. link'[c].broker = (CASE q[1].kind = "subscribe" -> link[c].broker \cup {q[1].topic}
                           [] q[1].kind = "unsubscribe" -> link[c].broker \ {q[1].topic}
                           [] OTHER -> link[c].broker)
      \/ (link'[c].broker = link[c].broker /\ ~(q[1].kind = "subscribe" /\ q[1].topic = u))
  BY <1>1, TailFacts
<1> HIDE DEF q
<1>5. /\ DOMAIN q = 1 .. Len(q) /\ Len(q) \in Nat /\ 1 \in DOMAIN q
      /\ DOMAIN p = 1 .. (Len(q) - 1)
      /\ \A i \in DOMAIN p : p[i] = q[i + 1]
  BY <1>1, TailFacts
<1> HIDE DEF p
<1>6. \A i \in DOMAIN p : i \in Nat \ {0} /\ i + 1 \in DOMAIN q
  BY <1>5
<1>7. \A i \in DOMAIN q : i \in Nat /\ (i # 1 => i - 1 \in DOMAIN p /\ q[i] = p[i - 1])
  BY <1>5
<1>8. \A i \in new : i + 1 \in old /\ i \in Nat \ {0}
  BY <1>5, <1>6
<1>9. \A i \in old : i \in Nat /\ (i # 1 => i - 1 \in new /\ q[i] = p[i - 1])
  BY <1>7
<1>10. CASE old = {}
  <2>1. new = {} /\ ~(q[1].topic = u /\ q[1].kind # "publish")
    BY <1>5, <1>8, <1>10
  <2> QED
    BY <1>2, <1>3, <1>4, <1>10, <2>1
<1>11. CASE old # {}
  <2>1. PICK i \in old : q[i].kind = "subscribe" /\ \A j \in old : j <= i
    BY <1>2, <1>11
  <2>2. CASE i = 1
    <3>1. new = {}
      <4> HIDE DEF old, new
      <4> QED
        BY <1>8, <2>1, <2>2
    <3> QED
      BY <1>3, <1>4, <2>1, <2>2, <3>1
  <2>3. CASE i # 1
    <3> HIDE DEF old, new
    <3>1. i - 1 \in new /\ p[i - 1].kind = "subscribe"
      BY <1>9, <2>1, <2>3
    <3>2. \A j \in new : j <= i - 1
      BY <1>8, <1>9, <2>1
    <3> QED
      BY <1>3, <3>1, <3>2
  <2> QED
    BY <2>2, <2>3
<1> QED
  BY <1>10, <1>11

(* An answer takes one request and its listener. *)
LEMMA AnswerStep ==
    ASSUME Inv, NEW c \in Clients, Answer(c)
    PROVE  Inv'
<1> DEFINE r == Head(link[c].requests)
<1> DEFINE answered == [link EXCEPT ![c].requests = Tail(@)]
<1>1. TypeOK /\ Places /\ Lock /\ Ownership /\ Callback /\ Listeners /\ Todo /\ Connection
      /\ Closed /\ HandlersSubscribed
  BY DEF Inv
<1>2. link \in [Clients -> Links] /\ link[c].requests \in Seq(Requests)
      /\ link[c].requests # <<>>
  BY <1>1 DEF TypeOK, Links, Answer
<1>3. UNCHANGED <<status, shuttingDown, client, subscriptions, operationMutex, thread,
                  source, stale>> /\ pending' = pending \ {r.op}
  BY DEF Answer
<1>4. r \in Requests /\ Tail(link[c].requests) \in Seq(Requests)
  BY <1>2, TailFacts
<1> HIDE DEF r
<1>5. /\ answered \in [Clients -> Links] /\ answered[c].net = link[c].net
      /\ answered[c].requests = Tail(link[c].requests)
      /\ answered[c].broker = link[c].broker
      /\ \A d \in Clients : d # c => answered[d] = link[d]
  BY <1>2, <1>4 DEF Links
<1>6. \/ /\ link[c].net = "up" /\ reported' = reported
         /\ link' = [answered EXCEPT ![c].broker =
                       CASE r.kind = "subscribe" -> @ \cup {r.topic}
                         [] r.kind = "unsubscribe" -> @ \ {r.topic}
                         [] OTHER -> @]
      \/ /\ link[c].net \in {"up", "down"} /\ link' = answered
         /\ reported' = IF r.kind = "subscribe" /\ r.op \in pending /\ c = client
                        THEN reported \cup {r.topic} ELSE reported
  BY DEF Answer, r
<1> HIDE DEF answered
<1>7. /\ link' \in [Clients -> Links] /\ link'[c].net = link[c].net
      /\ link'[c].requests = Tail(link[c].requests)
      /\ \A d \in Clients : d # c => link'[d] = link[d]
      /\ \/ link'[c].broker = CASE r.kind = "subscribe" -> link[c].broker \cup {r.topic}
                                 [] r.kind = "unsubscribe" -> link[c].broker \ {r.topic}
                                 [] OTHER -> link[c].broker
         \/ /\ link'[c].broker = link[c].broker
            /\ r.kind = "subscribe" /\ r.op \in pending /\ c = client => r.topic \in reported'
      /\ reported \subseteq reported'
      /\ link[c].net # "closed"
  <2> DEFINE b == CASE r.kind = "subscribe" -> link[c].broker \cup {r.topic}
                    [] r.kind = "unsubscribe" -> link[c].broker \ {r.topic}
                    [] OTHER -> link[c].broker
  <2>1. CASE /\ link[c].net = "up" /\ reported' = reported
             /\ link' = [answered EXCEPT ![c].broker =
                       CASE r.kind = "subscribe" -> @ \cup {r.topic}
                         [] r.kind = "unsubscribe" -> @ \ {r.topic}
                         [] OTHER -> @]
    <3>1. b \in SUBSET Topics
      BY <1>2, <1>4 DEF Links, Requests
    <3>2. link' = [answered EXCEPT ![c].broker = b]
      BY <1>5, <2>1
    <3> HIDE DEF b
    <3>3. /\ link' \in [Clients -> Links] /\ link'[c].net = link[c].net
          /\ link'[c].requests = Tail(link[c].requests) /\ link'[c].broker = b
          /\ \A d \in Clients : d # c => link'[d] = link[d]
      BY <1>5, <3>1, <3>2 DEF Links
    <3> QED
      BY <2>1, <3>3 DEF b
  <2>2. CASE /\ link[c].net \in {"up", "down"} /\ link' = answered
             /\ reported' = IF r.kind = "subscribe" /\ r.op \in pending /\ c = client
                            THEN reported \cup {r.topic} ELSE reported
    <3>1. r.kind = "subscribe" /\ r.op \in pending /\ c = client => r.topic \in reported'
      BY <2>2
    <3>2. reported \subseteq reported'
      BY <2>2
    <3> QED
      BY <1>5, <2>2, <3>1, <3>2
  <2> QED
    BY <1>6, <2>1, <2>2
<1>8. \A d \in Clients : link'[d].net = link[d].net
  BY <1>7
<1>9. TypeOK'
  BY <1>1, <1>3, <1>7 DEF TypeOK
<1>10. Places' /\ Lock' /\ Closed' /\ Todo'
  BY <1>1, <1>3 DEF Places, Lock, Closed, Leaving, Todo
<1>11. Ownership'
  <2>1. OneConnection'
    BY <1>1, <1>3, <1>8 DEF Ownership, OneConnection, Open
  <2> QED
    BY <1>1, <1>3, <1>7, <1>8, <2>1 DEF Ownership, TypeOK
<1>12. Callback' /\ Connection'
  <2>1. client # None => link'[client].net = link[client].net
    BY <1>1, <1>8 DEF TypeOK
  <2> QED
    BY <1>1, <1>3, <2>1 DEF Callback, Connection
<1>13. Listeners'
  BY <1>2, <1>3, <1>7, ListenersAnswered DEF r
<1>14. HandlersSubscribed'
  <2> SUFFICES ASSUME ConnectedUp', ~stale', NEW u \in subscriptions'
               PROVE  Subscribed(u)'
    BY DEF HandlersSubscribed
  <2>1. client \in Clients
    BY <1>1, <1>3 DEF TypeOK, ConnectedUp
  <2>2. ConnectedUp /\ ~stale /\ u \in subscriptions
    BY <1>3, <1>8, <2>1 DEF ConnectedUp
  <2>3. Subscribed(u)
    BY <1>1, <2>2 DEF HandlersSubscribed
  <2>4. c = client
    BY <1>1, <1>7, <2>1 DEF Ownership, OneConnection, Open
  <2>5. r.op \in pending
    <3>1. r = link[c].requests[1] /\ 1 \in DOMAIN link[c].requests
      BY <1>2, TailFacts DEF r
    <3> QED
      BY <1>1, <2>1, <2>4, <3>1 DEF Listeners, TrackedInFlight
  <2>6. ASSUME Delivers(client, u)
        PROVE  Subscribed(u)'
    <3>1. CASE link'[c].broker = link[c].broker /\ r.kind = "subscribe" /\ r.topic = u
                  /\ r.topic \in reported'
      BY <3>1 DEF Subscribed
    <3>2. CASE \/ link'[c].broker = CASE r.kind = "subscribe" -> link[c].broker \cup {r.topic}
                                       [] r.kind = "unsubscribe" -> link[c].broker \ {r.topic}
                                       [] OTHER -> link[c].broker
               \/ link'[c].broker = link[c].broker /\ ~(r.kind = "subscribe" /\ r.topic = u)
      <4>1. Delivers(c, u)'
        BY <1>2, <1>7, <2>4, <2>6, <3>2, DeliversAnswer DEF r
      <4> QED
        BY <1>3, <2>4, <4>1 DEF Subscribed, Delivers
    <3> QED
      BY <1>7, <2>4, <2>5, <3>1, <3>2
  <2>7. AboutToSubscribe(u) => Subscribed(u)'
    BY <1>3 DEF AboutToSubscribe, Subscribed
  <2>8. u \in reported => Subscribed(u)'
    BY <1>7 DEF Subscribed
  <2> QED
    BY <2>3, <2>6, <2>7, <2>8 DEF Subscribed
<1> QED
  BY <1>9, <1>10, <1>11, <1>12, <1>13, <1>14 DEF Inv

(* The network changes a connection when no callback runs. *)
LEMMA NetworkStep ==
    ASSUME Inv, NEW c \in Clients, Network(c)
    PROVE  Inv'
<1>1. TypeOK /\ Places /\ Lock /\ Ownership /\ Callback /\ Listeners /\ Todo /\ Connection
      /\ Closed /\ HandlersSubscribed
  BY DEF Inv
<1>2. link \in [Clients -> Links] /\ link[c] \in Links
  BY <1>1 DEF TypeOK
<1>3. PICK pc \in {"enter", "refused", "lost"}, again \in BOOLEAN, to \in Links :
         /\ Deliver(c, pc, again, to)
         /\ to.requests = link[c].requests
         /\ \/ link[c].net = "connecting" /\ pc = "enter" /\ to.net = "up"
            \/ link[c].net = "connecting" /\ pc = "refused" /\ ~again /\ to.net = "idle"
            \/ link[c].net = "up" /\ pc = "lost" /\ ~again /\ to.net = "down"
            \/ link[c].net = "down" /\ pc = "enter" /\ to.net = "up"
  <2>1. \A net \in {"up", "idle"} : LET to == [link[c] EXCEPT !.net = net]
           IN  to \in Links /\ to.net = net /\ to.requests = link[c].requests
    BY <1>2 DEF Links
  <2>2. LET to == [link[c] EXCEPT !.net = "down", !.broker = {}]
        IN  to \in Links /\ to.net = "down" /\ to.requests = link[c].requests
    BY <1>2 DEF Links
  <2> QED
    BY <2>1, <2>2 DEF Network
<1>4. /\ thread["callback"].at = "idle"
      /\ source' = [client |-> c, again |-> again]
      /\ link' = [link EXCEPT ![c] = to]
      /\ UNCHANGED <<status, shuttingDown, client, subscriptions, pending, operationMutex,
                     reported, stale>>
  BY <1>3 DEF Deliver, serviceVars, history
<1> DEFINE next == [thread["callback"] EXCEPT !.at = pc]
<1>5. next \in Records /\ next.at = pc /\ next.copy = thread["callback"].copy
      /\ next.call = thread["callback"].call /\ next.todo = thread["callback"].todo
      /\ next.op = thread["callback"].op
  BY <1>1 DEF TypeOK, Records, CallbackPlaces
<1>6. Moved("callback", next)
  BY <1>1, <1>3, <1>5, BecomeMoves DEF Deliver, Go
<1> HIDE DEF next
<1>7. \A b \in Threads :
         /\ thread'[b].copy = thread[b].copy /\ thread'[b].call = thread[b].call
         /\ thread'[b].todo = thread[b].todo /\ thread'[b].op = thread[b].op
  BY <1>5, <1>6 DEF Moved, Kept
<1>8. \A b \in Threads : b # "callback" =>
         \/ thread'[b].at = thread[b].at
         \/ b = "run" /\ thread[b].at \in Waiting /\ thread'[b].at \in Testing
  BY <1>6 DEF Moved, Kept
<1>9. thread'["callback"].at = pc /\ thread' \in [Threads -> Records]
  BY <1>5, <1>6 DEF Moved
<1>10. \A b \in Threads : \A place \in Holding \cup Sending \cup {"done"} :
           thread'[b].at = place <=> thread[b].at = place
  BY <1>3, <1>4, <1>8, <1>9
<1>11. /\ link' \in [Clients -> Links] /\ link'[c] = to
       /\ \A d \in Clients : d # c => link'[d] = link[d]
       /\ \A d \in Clients : link'[d].net = "closed" <=> link[d].net = "closed"
  BY <1>2, <1>3, <1>4
<1>12. c # None /\ link[c].net \notin {"closed", "idle"}
  BY <1>3
<1>13. TypeOK'
  <2>1. source' \in [client : Clients \cup {None}, again : BOOLEAN]
    BY <1>4
  <2> QED
    BY <1>1, <1>4, <1>9, <1>11, <2>1 DEF TypeOK
<1>14. Places'
  BY <1>1, <1>3, <1>7, <1>8, <1>9 DEF Places, RunPlaces, CallbackPlaces
<1>15. Lock' /\ Closed'
  <2>1. Leaving' => Leaving
    BY <1>7, <1>10 DEF Leaving
  <2>2. Closed'
    BY <1>1, <1>4, <1>10, <2>1, ClosedKept
  <2> QED
    BY <1>1, <1>4, <1>10, <2>2 DEF Lock
<1>16. Ownership'
  <2>1. OneConnection'
    BY <1>1, <1>4, <1>7, <1>10, <1>11 DEF Ownership, OneConnection, Open
  <2>2. thread'["run"].at = "dial" => /\ client # None /\ link'[client].net = "idle"
                                     /\ source'.client # client
    BY <1>1, <1>4, <1>10, <1>11, <1>12 DEF Ownership, TypeOK
  <2>3. \A d \in Clients : link'[d].net = "closed" => link'[d] = NoLink
    BY <1>1, <1>11, <1>12 DEF Ownership
  <2> QED
    BY <1>1, <1>4, <1>7, <1>10, <2>1, <2>2, <2>3 DEF Ownership
<1>17. Callback'
  <2>1. source'.client = c /\ source'.again = again
    BY <1>4
  <2> QED
    BY <1>3, <1>4, <1>9, <1>11, <1>12, <2>1 DEF Callback
<1>18. Listeners'
  <2>1. \A d \in Clients : link'[d].requests = link[d].requests
    BY <1>3, <1>11
  <2> QED
    BY <1>4, <1>7, <1>10, <1>12, <2>1, ListenersAnswered
<1>19. Todo'
  BY <1>1, <1>4, <1>7, <1>10 DEF Todo
<1>20. client # None /\ c # client => link'[client] = link[client]
  BY <1>1, <1>11 DEF TypeOK
<1>21. Connection'
  <2>1. source'.client = c
    BY <1>4
  <2>2. CASE c # client
    BY <1>1, <1>4, <1>10, <1>20, <2>2 DEF Connection
  <2>3. CASE c = client
    BY <1>1, <1>3, <1>4, <1>9, <1>10, <1>11, <1>12, <2>1, <2>3 DEF Connection
  <2> QED
    BY <2>2, <2>3
<1>22. HandlersSubscribed'
  <2> SUFFICES ASSUME ConnectedUp', ~stale', NEW u \in subscriptions'
               PROVE  Subscribed(u)'
    BY DEF HandlersSubscribed
  <2>1. client # None /\ status = "Connected" /\ ~shuttingDown /\ ~stale
        /\ link'[client].net = "up"
    BY <1>4 DEF ConnectedUp
  <2>2. c # client
    BY <1>1, <1>3, <1>4, <1>11, <2>1 DEF Connection
  <2>3. ConnectedUp /\ link'[client] = link[client]
    BY <1>20, <2>1, <2>2 DEF ConnectedUp
  <2>4. Subscribed(u)
    BY <1>1, <1>4, <2>1, <2>3 DEF HandlersSubscribed
  <2>5. Delivers(client, u) => Delivers(client, u)'
    BY <1>4, <2>3 DEF Delivers
  <2>6. AboutToSubscribe(u) => AboutToSubscribe(u)'
    BY <1>4, <1>7 DEF AboutToSubscribe
  <2> QED
    BY <1>4, <2>4, <2>5, <2>6 DEF Subscribed
<1> QED
  BY <1>13, <1>14, <1>15, <1>16, <1>17, <1>18, <1>19, <1>21, <1>22 DEF Inv
-----------------------------------------------------------------------------
(* Theorems *)

(* The invariant holds initially. *)
LEMMA InitInv == Init => Inv
<1> SUFFICES ASSUME Init PROVE Inv
  OBVIOUS
<1> USE DEF Init
<1>1. Idle("loop") \in Records /\ Idle("idle") \in Records
  BY DEF Idle, Records, RunPlaces, CallerPlaces
<1>2. /\ \A a \in Threads : /\ thread[a].copy = None /\ thread[a].op = None
                             /\ thread[a].todo = {}
                             /\ thread[a].at = IF a = "run" THEN "loop" ELSE "idle"
      /\ thread \in [Threads -> Records]
  BY <1>1 DEF Idle
<1>3. NoLink \in Links /\ NoLink.net = "closed" /\ DOMAIN NoLink.requests = {}
  BY DEF NoLink, Links
<1>4. source = NoSource /\ source.client = None /\ source.again = FALSE
  BY DEF NoSource
<1>5. \A c \in Clients : link[c] = NoLink
  OBVIOUS
<1>6. TypeOK
  BY <1>2, <1>3 DEF TypeOK, Statuses, NoSource
<1>7. Places
  BY <1>2 DEF Places, RunPlaces, CallerPlaces, CallbackPlaces
<1>8. Lock
  BY <1>2 DEF Lock
<1>9. Ownership
  BY <1>2, <1>3, <1>5 DEF Ownership, OneConnection, Open
<1>10. Callback
  BY <1>2, <1>4 DEF Callback
<1>11. Listeners
  BY <1>2, <1>3, <1>5 DEF Listeners, TrackedInFlight
<1>12. Closed /\ Todo /\ Connection /\ HandlersSubscribed
  BY <1>2 DEF Closed, Leaving, Todo, Connection, HandlersSubscribed, ConnectedUp
<1> QED
  BY <1>6, <1>7, <1>8, <1>9, <1>10, <1>11, <1>12 DEF Inv

(* Every step keeps the invariant. *)
LEMMA NextInv == Inv /\ [Next]_vars => Inv'
<1> SUFFICES ASSUME Inv, [Next]_vars PROVE Inv'
  OBVIOUS
<1>1. CASE UNCHANGED vars
  <2>1. UNCHANGED <<status, shuttingDown, client, subscriptions, pending, operationMutex,
                    thread, source, link, reported, stale>>
    BY <1>1 DEF vars, serviceVars, history
  <2>2. TypeOK' /\ Places' /\ Lock' /\ Callback' /\ Closed' /\ Todo' /\ Connection'
    BY <2>1 DEF Inv, TypeOK, Places, Lock, Callback, Closed, Leaving, Todo, Connection
  <2>3. Ownership' /\ Listeners'
    BY <2>1 DEF Inv, Ownership, OneConnection, Open, Listeners, TrackedInFlight
  <2>4. HandlersSubscribed'
    BY <2>1, HandlersKept DEF Inv, ConnectedUp
  <2> QED
    BY <2>2, <2>3, <2>4 DEF Inv
<1>2. CASE Run
  <2>1. CASE RunStep \/ Timeout
    BY <2>1, LoopStep
  <2>2. CASE Connect \/ ConnectAnnounce \/ ConnectCreate \/ ConnectDial \/ ConnectThrows
    BY <2>2, ConnectStep, ConnectAnnounceStep, ConnectCreateStep, ConnectDialStep,
       ConnectThrowsStep
  <2>3. CASE Release("run")
    BY <2>3, ReleaseTakeStep, ReleaseDropStep, ReleaseClearStep DEF Release
  <2>4. CASE Disconnect("run") \/ DisconnectAnnounce("run") \/ DisconnectDone("run")
    BY <2>4, DisconnectStep, DisconnectAnnounceStep, DisconnectDoneStep
  <2> QED
    BY <1>2, <2>1, <2>2, <2>3, <2>4 DEF Run
<1>3. CASE SpuriousWakeup \/ RequestStop \/ StopCallback
  BY <1>3, LoopStep
<1>4. CASE Interface
  BY <1>4, UsageStep, DisconnectStep DEF Interface
<1>5. CASE CallerContinues
  <2>1. CASE TrackOperation("caller") \/ Send("caller")
    BY <2>1, TrackOperationStep, SendStep
  <2>2. CASE Release("caller")
    BY <2>2, ReleaseTakeStep, ReleaseDropStep, ReleaseClearStep DEF Release
  <2>3. CASE DisconnectAnnounce("caller") \/ DisconnectDone("caller")
    BY <2>3, DisconnectAnnounceStep, DisconnectDoneStep
  <2> QED
    BY <1>5, <2>1, <2>2, <2>3 DEF CallerContinues
<1>6. CASE CallbackContinues
  BY <1>6, HandleConnectedStep, ConnectionLostStep, StatusCallbackStep,
     TrackOperationStep, SendStep DEF CallbackContinues
<1>7. CASE \E c \in Clients : Answer(c) \/ Network(c)
  BY <1>7, AnswerStep, NetworkStep
<1> QED
  BY <1>1, <1>2, <1>3, <1>4, <1>5, <1>6, <1>7 DEF Next

(* The invariant holds always. *)
LEMMA Invariance == Spec => []Inv
BY InitInv, NextInv, PTL DEF Spec

(* The state of the service, of its threads and of its clients keeps its   *)
(* types, and operationMutex_ belongs to exactly the thread that is        *)
(* between its lock and its unlock in Connect or Disconnect.               *)
THEOREM TypeCorrect == Spec => [](TypeOK /\ Lock)
<1>1. Inv => TypeOK /\ Lock
  BY DEF Inv
<1> QED
  BY <1>1, Invariance, PTL

(* However Connect, Disconnect and the callbacks of old clients interleave *)
(* there is at most one connection, and none once Run has returned.        *)
THEOREM AtMostOneConnection == Spec => []OneConnection
<1>1. Inv => OneConnection
  BY DEF Inv, Ownership
<1> QED
  BY <1>1, Invariance, PTL

(* Every listener the current client has yet to answer is in               *)
(* pendingOperations_, whatever is sent, cancelled, answered or released.  *)
THEOREM ListenersAreTracked == Spec => []TrackedInFlight
<1>1. Inv => TrackedInFlight
  BY DEF Inv, Listeners
<1> QED
  BY <1>1, Invariance, PTL

(* Once Run has returned no late callback of a released client connects    *)
(* the service again or leaves an error: outside Disconnect the status is  *)
(* Offline, or Reconnecting if connection_lost had read shuttingDown_      *)
(* before it was set.                                                      *)
THEOREM ClosedWhenRunReturns == Spec => []StaysClosed
<1>1. Inv => StaysClosed
  BY DEF Inv, Closed, StaysClosed
<1> QED
  BY <1>1, Invariance, PTL

(* No handler is left without a subscription in silence: not by Subscribe  *)
(* racing HandleConnected, a reconnection, a failed call or a late answer. *)
THEOREM HandlersStaySubscribed == Spec => []HandlersSubscribed
<1>1. Inv => HandlersSubscribed
  BY DEF Inv
<1> QED
  BY <1>1, Invariance, PTL
=============================================================================
