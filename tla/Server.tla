------------------------------- MODULE Server -------------------------------
(***************************************************************************)
(* Apps/Server/main.cpp with Dispatch/RequestDispatcher.cpp: requests that *)
(* arrive over MQTT are validated on the callback thread, executed on a    *)
(* thread pool and acknowledged, while the main thread takes the pieces    *)
(* down one after the other.  The key-value store of the requests and the  *)
(* device storage of the GUI use one SQLite file.                          *)
(*                                                                         *)
(* The pool is TaskExecutor.  Of the transport, which MqttService models   *)
(* in full, this module keeps what the server depends on: whether          *)
(* status_ is Connected, the registered handler, the pending operations    *)
(* and the thread on which Paho delivers messages and answers, one after   *)
(* the other.  Paho, the broker and SQLite are external.  SQLite has one   *)
(* writer at a time and no busy time-out: who finds the file locked gets   *)
(* an exception at once.  Other I/O errors are left out.                   *)
(***************************************************************************)
EXTENDS Naturals, Sequences

CONSTANTS
    Deliveries,  \* messages on the requests topic, a redelivery being another
    None

Valid == {"plain", "store"}   \* ParseRequest returns a request
Kinds == Valid \cup {"invalid", "unroutable"}

(* A delivery is neither a request to the broker nor the device storage. *)
ASSUME NamesAssumption ==
    /\ None \notin Deliveries \cup Kinds \cup {"unhandled", "device"}
    /\ Deliveries \cap {"subscribe", "unsubscribe", "device"} = {}

VARIABLES
    main,         \* the main thread's place in Run
    dispatcher,   \* whether the dispatcher has not been destroyed
    accepting,    \* accepting_
    phase, backlog, future,  \* the pool workerRuntime
    mqttThread,   \* before Subscribe, inside Run, or see below
    connected,    \* status_ = Connected
    handler,      \* whether subscriptions_ holds the requests topic
    pending,      \* pendingOperations_: two requests to the broker, and acks
    callback,     \* the callback thread's place and its message
    socket,       \* external: whether there is a connection
    subscribed,   \* external: whether the broker delivers the topic
    kind,         \* what was delivered
    stage,        \* the place of each worker task
    device,       \* the place of the device storage's worker
    failure,      \* the failed result that worker has pushed
    db,           \* the tables of the file
    lock,         \* the connection that is writing to the file
    acks,         \* history: calls of ackPublisher_ per delivery
    misused,      \* history: something destroyed was used
    abandoned,    \* history: acks unpublished when the transport stopped
    excuse        \* history: what went wrong at shutdown

pool == <<phase, backlog, future>>
transport == <<connected, handler, pending, socket, subscribed>>
storage == <<device, failure>>
file == <<db, lock>>
history == <<acks, misused, abandoned, excuse>>
vars == <<main, dispatcher, accepting, pool, mqttThread, transport, callback,
          kind, stage, storage, file, history>>

(* Run is "attached" once status_ has been Connected: it then waits without *)
(* a time-out.  It is "missed" when the notification of the stop request   *)
(* came between the test of its predicate and the wait; any later          *)
(* notification wakes it up.                                               *)
Woken == IF mqttThread = "missed" THEN "attached" ELSE mqttThread

Pool == INSTANCE TaskExecutor WITH Tasks <- Deliveries

Idle == [at |-> "idle", request |-> None]

CallbackAt(pc) == callback.at = pc
CallbackGo(pc) == callback' = [callback EXCEPT !.at = pc]

Init ==
    /\ main = "storage" /\ dispatcher = TRUE /\ accepting = TRUE
    /\ Pool!Init
    /\ mqttThread = "starting" /\ connected = FALSE /\ handler = FALSE
    /\ pending = {} /\ callback = Idle /\ socket = FALSE /\ subscribed = FALSE
    /\ kind = [d \in Deliveries |-> None]
    /\ stage = [d \in Deliveries |-> "none"]
    /\ device = "absent" /\ failure = "none" /\ db = {} /\ lock = None
    /\ acks = [d \in Deliveries |-> 0]
    /\ misused = FALSE /\ abandoned = {} /\ excuse = {}

(* The next process: of everything only the file is left. *)
Restart ==
    /\ main = "done" /\ CallbackAt("idle")
    /\ main' = "storage" /\ dispatcher' = TRUE /\ accepting' = TRUE
    /\ phase' = "open" /\ backlog' = <<>>
    /\ future' = [d \in Deliveries |-> "unsubmitted"]
    /\ mqttThread' = "starting" /\ connected' = FALSE /\ handler' = FALSE
    /\ pending' = {} /\ callback' = Idle /\ socket' = FALSE /\ subscribed' = FALSE
    /\ kind' = [d \in Deliveries |-> None]
    /\ stage' = [d \in Deliveries |-> "none"]
    /\ device' = "absent" /\ failure' = "none" /\ lock' = None
    /\ acks' = [d \in Deliveries |-> 0]
    /\ misused' = FALSE /\ abandoned' = {} /\ excuse' = {}
    /\ UNCHANGED db
-----------------------------------------------------------------------------
(* RequestDispatcher on the callback thread *)

(* RecordAndPublishAck and Publish.  Without a valid client ID nothing is  *)
(* sent; a client that is gone or that throws is only reported.            *)
RecordAndPublishAck(d) ==
    IF kind[d] = "unroutable"
    THEN UNCHANGED <<acks, pending>>
    ELSE /\ acks' = [acks EXCEPT ![d] = @ + 1]
         /\ \/ main # "done" /\ pending' = pending \cup {d}
            \/ UNCHANGED pending

(* message_arrived copies the handlers under mutex_. *)
MessageArrived(d) ==
    /\ CallbackAt("idle") /\ socket /\ subscribed
    /\ kind[d] = None
    /\ IF handler
       THEN /\ \E k \in Kinds : kind' = [kind EXCEPT ![d] = k]
            /\ callback' = [at |-> "handle", request |-> d]
            /\ UNCHANGED mqttThread
       ELSE /\ kind' = [kind EXCEPT ![d] = "unhandled"]
            /\ mqttThread' = Woken
            /\ UNCHANGED callback
    /\ UNCHANGED <<main, dispatcher, accepting, pool, transport, stage,
                    storage, file, history>>

HandleIncomingPayload ==
    /\ CallbackAt("handle") /\ dispatcher
    /\ CallbackGo(IF kind[callback.request] \in Valid /\ accepting
                  THEN "dispatch" ELSE "ack")
    /\ UNCHANGED <<main, dispatcher, accepting, pool, mqttThread, transport,
                   kind, stage, storage, file, history>>

(* The second look at accepting_; the exception is caught by the caller. *)
Dispatch ==
    /\ CallbackAt("dispatch") /\ dispatcher
    /\ CallbackGo(IF accepting THEN "enqueue" ELSE "ack")
    /\ UNCHANGED <<main, dispatcher, accepting, pool, mqttThread, transport,
                   kind, stage, storage, file, history>>

Unanswered == Idle   \* mutant: a rejected submission is only logged
AfterRejection == [callback EXCEPT !.at = "ack"]

Enqueue ==
    /\ CallbackAt("enqueue") /\ dispatcher
    /\ \/ /\ Pool!Accept(callback.request)
          /\ callback' = Idle
       \/ /\ Pool!Reject(callback.request)
          /\ callback' = AfterRejection
    /\ UNCHANGED <<main, dispatcher, accepting, mqttThread, transport, kind,
                   stage, storage, file, history>>

AckFromCallback ==
    /\ CallbackAt("ack") /\ dispatcher
    /\ RecordAndPublishAck(callback.request)
    /\ callback' = Idle
    /\ UNCHANGED <<main, dispatcher, accepting, pool, mqttThread, connected,
                   handler, socket, subscribed, kind, stage, storage, file,
                   misused, abandoned, excuse>>

(* The handler holds a plain pointer to the dispatcher and that a plain    *)
(* reference to the pool.  What the use of a destroyed one does is         *)
(* undefined: here it is recorded and ends the callback.                   *)
CallbackMisuse ==
    /\ ~CallbackAt("idle")
    /\ ~dispatcher \/ (CallbackAt("enqueue") /\ phase = "gone")
    /\ misused' = TRUE
    /\ callback' = Idle
    /\ UNCHANGED <<main, dispatcher, accepting, pool, mqttThread, transport,
                   kind, stage, storage, file, acks, abandoned, excuse>>
-----------------------------------------------------------------------------
(* The tasks on the pool *)

StartTask ==
    /\ Pool!Start
    /\ stage' = [stage EXCEPT ![Head(backlog)] = "execute"]
    /\ UNCHANGED <<main, dispatcher, accepting, mqttThread, transport, callback,
                   kind, storage, file, history>>

Settle(d, result) == Pool!Settle(d) /\ future'[d] = result
StageGo(d, pc) == stage' = [stage EXCEPT ![d] = pc]

ExecuteWorkerRequest(d) ==
    /\ stage[d] = "execute" /\ dispatcher
    /\ StageGo(d, IF kind[d] = "store" THEN "create" ELSE "ack")
    /\ UNCHANGED <<main, dispatcher, accepting, pool, mqttThread, transport,
                   callback, kind, storage, file, history>>

(* KeyValueStore::Initialize and Upsert: one statement each.  A statement  *)
(* that finds the file locked throws; the exception ends in the future     *)
(* that HandleIncomingPayload has dropped.  The table may exist already.   *)
BeginStatement(d) ==
    /\ stage[d] \in {"create", "insert"} /\ lock # d
    /\ \/ /\ stage[d] = "create" /\ "kv_store" \in db
          /\ StageGo(d, "insert")
          /\ UNCHANGED <<pool, lock>>
       \/ /\ stage[d] = "insert" \/ "kv_store" \notin db
          /\ lock = None
          /\ lock' = d
          /\ UNCHANGED <<pool, stage>>
       \/ /\ lock # None
          /\ Settle(d, "exception")
          /\ StageGo(d, "none")
          /\ UNCHANGED lock
    /\ UNCHANGED <<main, dispatcher, accepting, mqttThread, transport, callback,
                   kind, storage, db, history>>

LockAfterCommit == None

CommitStatement(d) ==
    /\ lock = d
    /\ lock' = LockAfterCommit
    /\ db' = db \cup {"kv_store"}
    /\ StageGo(d, IF stage[d] = "create" THEN "insert" ELSE "ack")
    /\ UNCHANGED <<main, dispatcher, accepting, pool, mqttThread, transport,
                   callback, kind, storage, history>>

AckFromTask(d) ==
    /\ stage[d] = "ack" /\ dispatcher
    /\ RecordAndPublishAck(d)
    /\ Settle(d, "value")
    /\ StageGo(d, "none")
    /\ UNCHANGED <<main, dispatcher, accepting, mqttThread, connected, handler,
                   socket, subscribed, callback, kind, storage, file, misused,
                   abandoned, excuse>>

(* The task captures the dispatcher's this. *)
TaskMisuse(d) ==
    /\ stage[d] \in {"execute", "ack"} /\ ~dispatcher
    /\ misused' = TRUE
    /\ Settle(d, "exception")
    /\ StageGo(d, "none")
    /\ UNCHANGED <<main, dispatcher, accepting, mqttThread, transport, callback,
                   kind, storage, file, acks, abandoned, excuse>>

Task(d) ==
    \/ ExecuteWorkerRequest(d) \/ BeginStatement(d) \/ CommitStatement(d)
    \/ AckFromTask(d) \/ TaskMisuse(d)
-----------------------------------------------------------------------------
(* The worker of DeviceStorageService and SQLiteDatabase::Initialize       *)

Fails(why) == failure' = why
DeviceGo(pc) == device' = pc

(* user_version is 1 exactly when the items table is there, since one      *)
(* transaction makes both; then, as in a file without version, any other   *)
(* table is refused.  A read may meet a writer that is committing.         *)
InitializeLook ==
    /\ device = "look"
    /\ \/ db = {"items"} /\ DeviceGo("ready") /\ UNCHANGED failure
       \/ db = {} /\ DeviceGo("create") /\ UNCHANGED failure
       \/ "kv_store" \in db /\ DeviceGo("left") /\ Fails("unexpected object")
       \/ lock # None /\ DeviceGo("left") /\ Fails("busy")
    /\ UNCHANGED <<main, dispatcher, accepting, pool, mqttThread, transport,
                   callback, kind, stage, file, history>>

(* The transaction takes the lock with its first write. *)
InitializeCreate ==
    /\ device = "create"
    /\ \/ lock = None /\ lock' = "device" /\ DeviceGo("commit")
          /\ UNCHANGED failure
       \/ lock # None /\ DeviceGo("left") /\ Fails("busy") /\ UNCHANGED lock
    /\ UNCHANGED <<main, dispatcher, accepting, pool, mqttThread, transport,
                   callback, kind, stage, db, history>>

(* Validated again inside the transaction, which is else rolled back. *)
InitializeCommit ==
    /\ device = "commit"
    /\ lock' = None
    /\ \/ db = {} /\ db' = {"items"} /\ DeviceGo("ready") /\ UNCHANGED failure
       \/ db # {} /\ DeviceGo("left") /\ Fails("unexpected object")
          /\ UNCHANGED db
    /\ UNCHANGED <<main, dispatcher, accepting, pool, mqttThread, transport,
                   callback, kind, stage, history>>

(* Execute: a batch of commands of the GUI; a failed one leaves the worker *)
(* in its loop.  Batches that are queued when the GUI ends are executed    *)
(* before StopAndDrain returns; no other thread can tell that from the GUI *)
(* ending after them, which is how they are modelled.                      *)
ExecuteBegin ==
    /\ device = "ready" /\ main = "gui"
    /\ \/ lock = None /\ lock' = "device" /\ DeviceGo("write")
          /\ UNCHANGED failure
       \/ lock # None /\ Fails("busy") /\ UNCHANGED <<lock, device>>
    /\ UNCHANGED <<main, dispatcher, accepting, pool, mqttThread, transport,
                   callback, kind, stage, db, history>>

ExecuteCommit ==
    /\ device = "write"
    /\ lock' = None
    /\ DeviceGo("ready")
    /\ UNCHANGED <<main, dispatcher, accepting, pool, mqttThread, transport,
                   callback, kind, stage, failure, db, history>>
-----------------------------------------------------------------------------
(* Run of main.cpp *)

MainFrom(from, to) == main = from /\ main' = to

StorageOpens ==
    /\ MainFrom("storage", "gui")
    /\ DeviceGo("look")
    /\ UNCHANGED <<dispatcher, accepting, pool, mqttThread, transport, callback,
                   kind, stage, failure, file, history>>

(* The constructor throws when the file cannot be opened.  The scope is    *)
(* then left by unwinding, which destroys the dispatcher before the pool.  *)
StorageThrows ==
    /\ MainFrom("storage", "close")
    /\ dispatcher' = FALSE
    /\ excuse' = excuse \cup {"unwound"}
    /\ UNCHANGED <<accepting, pool, mqttThread, transport, callback, kind,
                   stage, storage, file, acks, misused, abandoned>>

CloseWindow ==
    /\ MainFrom("gui", "join")
    /\ UNCHANGED <<dispatcher, accepting, pool, mqttThread, transport, callback,
                   kind, stage, storage, file, history>>

(* PumpStorage finds a failed result and ends the frame loop. *)
PumpStorage ==
    /\ failure # "none"
    /\ CloseWindow

(* StopAndDrain at the end of ImGuiStart *)
StopAndDrain ==
    /\ MainFrom("join", "accepting")
    /\ device \in {"ready", "left"}
    /\ DeviceGo("absent")
    /\ UNCHANGED <<dispatcher, accepting, pool, mqttThread, transport, callback,
                   kind, stage, failure, file, history>>

StopAccepting ==
    /\ MainFrom("accepting", "unsubscribe")
    /\ accepting' = FALSE
    /\ UNCHANGED <<dispatcher, pool, mqttThread, transport, callback, kind,
                   stage, storage, file, history>>

(* The handler goes under mutex_; the call of the client comes after it.   *)
(* Without a connection Paho refuses the call, although status_ may still  *)
(* be Connected, and the operation is cancelled.                           *)
Unsubscribe ==
    /\ MainFrom("unsubscribe", "wait1")
    /\ handler' = FALSE
    /\ pending' = IF connected /\ socket THEN pending \cup {"unsubscribe"}
                                         ELSE pending
    /\ excuse' = excuse \cup (IF connected /\ ~socket THEN {"refused"} ELSE {})
    /\ UNCHANGED <<dispatcher, accepting, pool, mqttThread, connected, socket,
                   subscribed, callback, kind, stage, storage, file, acks,
                   misused, abandoned>>

NotWaited == TRUE   \* mutant: the pending operations are not waited for
NonePending == pending = {}

NoTimeout == FALSE   \* mutant: a wait without a time-out
TimesOut == TRUE

(* WaitForPendingOperations, whose failure is only shown. *)
WaitForPendingOperations(from, to, late) ==
    /\ MainFrom(from, to)
    /\ \/ NonePending /\ UNCHANGED excuse
       \/ TimesOut /\ ~NonePending /\ excuse' = excuse \cup {late}
    /\ UNCHANGED <<dispatcher, accepting, pool, mqttThread, transport, callback,
                   kind, stage, storage, file, acks, misused, abandoned>>

ClosePool ==
    /\ MainFrom("close", "drain")
    /\ Pool!Close
    /\ UNCHANGED <<dispatcher, accepting, mqttThread, transport, callback, kind,
                   stage, storage, file, history>>

DrainPool ==
    /\ MainFrom("drain", IF dispatcher THEN "dispatcher" ELSE "stop")
    /\ Pool!Vanish
    /\ UNCHANGED <<dispatcher, accepting, mqttThread, transport, callback, kind,
                   stage, storage, file, history>>

StraightToStop == "stop"   \* mutant: no second wait
AfterDispatcher == "wait2"

DestroyDispatcher ==
    /\ MainFrom("dispatcher", AfterDispatcher)
    /\ dispatcher' = FALSE
    /\ UNCHANGED <<accepting, pool, mqttThread, transport, callback, kind,
                   stage, storage, file, history>>

(* request_stop notifies without mutex_, so Run may miss it. *)
RequestStop ==
    /\ MainFrom("stop", "joining")
    /\ \/ UNCHANGED mqttThread
       \/ mqttThread = "attached" /\ mqttThread' = "missed"
    /\ UNCHANGED <<dispatcher, accepting, pool, transport, callback, kind, stage,
                   storage, file, history>>

(* join: Run disconnects, forgets what is pending and returns. *)
StopTransport ==
    /\ MainFrom("joining", "done")
    /\ mqttThread \in {"running", "attached"}
    /\ pending' = {} /\ abandoned' = pending \cap Deliveries
    /\ connected' = FALSE /\ socket' = FALSE /\ subscribed' = FALSE
    /\ UNCHANGED <<dispatcher, accepting, pool, mqttThread, handler, callback,
                   kind, stage, storage, file, acks, misused, excuse>>

Shutdown ==
    \/ PumpStorage \/ StopAndDrain \/ StopAccepting \/ Unsubscribe
    \/ WaitForPendingOperations("wait1", "close", "late")
    \/ ClosePool \/ DrainPool \/ DestroyDispatcher
    \/ WaitForPendingOperations("wait2", "stop", "late acks")
    \/ RequestStop \/ StopTransport
-----------------------------------------------------------------------------
(* The transport *)

(* The MQTT thread registers the handler before it connects.  Nothing      *)
(* orders this before the Unsubscribe of a main thread whose GUI ends at   *)
(* once.                                                                   *)
RegisterHandler ==
    /\ mqttThread = "starting"
    /\ mqttThread' = "running" /\ handler' = TRUE
    /\ excuse' = excuse \cup (IF main \in {"storage", "gui", "join", "accepting",
                                           "unsubscribe"}
                              THEN {} ELSE {"registered late"})
    /\ UNCHANGED <<main, dispatcher, accepting, pool, connected, pending, socket,
                   subscribed, callback, kind, stage, storage, file, acks,
                   misused, abandoned>>

HandleConnected ==
    /\ CallbackAt("idle") /\ mqttThread # "starting" /\ main # "done"
    /\ ~connected
    /\ connected' = TRUE /\ socket' = TRUE /\ mqttThread' = "attached"
    /\ pending' = IF handler THEN pending \cup {"subscribe"} ELSE pending
    /\ UNCHANGED <<main, dispatcher, accepting, pool, handler, subscribed,
                   callback, kind, stage, storage, file, history>>

(* A clean session ends with its connection. *)
ConnectionBreaks ==
    /\ socket
    /\ socket' = FALSE /\ subscribed' = FALSE
    /\ UNCHANGED <<main, dispatcher, accepting, pool, mqttThread, connected,
                   handler, pending, callback, kind, stage, storage, file,
                   history>>

ConnectionLost ==
    /\ CallbackAt("idle") /\ connected /\ ~socket
    /\ connected' = FALSE /\ mqttThread' = Woken
    /\ UNCHANGED <<main, dispatcher, accepting, pool, handler, pending, socket,
                   subscribed, callback, kind, stage, storage, file, history>>

(* The broker answers in order; its answer comes behind every message it   *)
(* has sent before.                                                        *)
OperationSucceeds(op) ==
    /\ CallbackAt("idle") /\ socket
    /\ op \in pending
    /\ op = "unsubscribe" => "subscribe" \notin pending
    /\ pending' = pending \ {op}
    /\ subscribed' = CASE op = "subscribe" -> TRUE
                       [] op = "unsubscribe" -> FALSE
                       [] OTHER -> subscribed
    /\ UNCHANGED <<main, dispatcher, accepting, pool, mqttThread, connected,
                   handler, socket, callback, kind, stage, storage, file,
                   history>>

OperationFails(op) ==
    /\ op \in pending
    /\ pending' = pending \ {op} /\ mqttThread' = Woken
    /\ excuse' = excuse \cup (IF op = "unsubscribe" THEN {"failed"} ELSE {})
    /\ UNCHANGED <<main, dispatcher, accepting, pool, connected, handler, socket,
                   subscribed, callback, kind, stage, storage, file, acks,
                   misused, abandoned>>

Transport ==
    \/ RegisterHandler \/ HandleConnected \/ ConnectionBreaks \/ ConnectionLost
    \/ \E op \in pending : OperationSucceeds(op) \/ OperationFails(op)

Callback ==
    \/ \E d \in Deliveries : MessageArrived(d)
    \/ HandleIncomingPayload \/ Dispatch \/ Enqueue \/ AckFromCallback
    \/ CallbackMisuse

Device ==
    \/ InitializeLook \/ InitializeCreate \/ InitializeCommit \/ ExecuteCommit

Next ==
    \/ StorageOpens \/ StorageThrows \/ CloseWindow \/ Shutdown
    \/ Transport \/ Callback
    \/ StartTask \/ \E d \in Deliveries : Task(d)
    \/ Device \/ ExecuteBegin
    \/ Restart

(* The operating system runs every thread of the process that can run and  *)
(* the pool starts what it has accepted.  Nothing is assumed of the user,  *)
(* of Paho, of the network or of the broker.                               *)
Fairness ==
    /\ WF_vars(Shutdown) /\ WF_vars(RegisterHandler)
    /\ WF_vars(StartTask) /\ \A d \in Deliveries : WF_vars(Task(d))
    /\ WF_vars(Device)

Spec == Init /\ [][Next]_vars /\ Fairness
-----------------------------------------------------------------------------
(* A delivery that the callback and the pool have done with was            *)
(* acknowledged exactly once, whether it was invalid, rejected at either   *)
(* look at accepting_, rejected by the pool or executed.  Exceptions: no   *)
(* handler, no valid client ID, a storage exception on the worker.  One    *)
(* that is still under way has not been acknowledged yet.                  *)
AnsweredOnce ==
    \A d \in Deliveries :
        kind[d] # None /\ callback.request # d /\ ~misused =>
            acks[d] = IF \/ kind[d] \in {"unhandled", "unroutable"}
                         \/ future[d] \in {"queued", "running", "exception"}
                      THEN 0 ELSE 1

(* Neither a message callback nor a queued task uses the dispatcher or the *)
(* pool after its destruction, unless the scope was left by an exception,  *)
(* or the unsubscription was refused, failed or took too long, or the      *)
(* handler was registered only after it.                                   *)
DispatcherOutlivesUse == misused => excuse # {}

(* The transport is not stopped over acknowledgements that are still to be *)
(* published, unless the wait for them timed out or the scope was left by  *)
(* an exception.                                                           *)
AcksAwaited == abandoned # {} => excuse \cap {"late acks", "unwound"} # {}

(* Once the window is closed or the storage has failed the process ends,   *)
(* whatever broker, network and requests do, except in one case: Run has   *)
(* missed the stop request and no later notification ever wakes it up.     *)
ShutdownReturns ==
    main \notin {"storage", "gui"} \/ failure # "none"
        ~> main = "done" \/ [](mqttThread = "missed")

(* The device storage accepts the file that this server itself has made.   *)
StorageStarts == failure # "unexpected object"
=============================================================================
