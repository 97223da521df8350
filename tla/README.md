# Watchlist: TLA+ models, checks and proofs

Watchlist is a C++ desktop application and server: an ImGui device monitor over
a SQLite database, an MQTT request/acknowledgement protocol, and a small
concurrency library under both. This directory holds TLA+ models of the parts
that are hard to test, the TLC configurations that check them on small
instances, and TLAPS proofs for instances of any size. Paths below are relative
to the repository's `src/` directory unless they start with `tests/` or `docs/`.

## Inventory

| Component | State | Operations | Hard behaviour | What makes it correct |
|---|---|---|---|---|
| Thread pool (`Utils/Concurrency/ThreadPoolManager.hpp`) | `tasks_`, `stop_`, `workers_`, one future per task | construct, `enqueue`, worker loop, destroy | notification outside the mutex, stop against submission, factory failure half way, tasks that never return | accepted tasks start in order, settle once, are drained; no wake-up is lost |
| Async event loop (`AsyncEventLoop.hpp`, `CoroutineTask.hpp`) | ready list, delay queue, event waiters, `execution_gate_`, task states | `schedule`, `schedule_after`, `wait_for_event`, `process_events`, `emit_event`, `stop`, `run` | a popped task against `stop()`, `stop()` from inside a coroutine, a new earliest deadline during a sleep | a coroutine is in one place, is never resumed after a stop, and settles |
| MQTT transport (`Watchlist/Messaging/MqttService.cpp`) | `status_`, `shuttingDown_`, `client_`, `subscriptions_`, `pendingOperations_` | `Connect`, `Disconnect`, `Run`, `Subscribe`, `Unsubscribe`, `Publish`, Paho callbacks | callbacks of a released client, lost connections, retries, stop requests, calls from other threads | topics with handlers are subscribed; one connection; Run retries and stops |
| Request dispatcher and server (`Watchlist/Dispatch`, `Apps/Server/main.cpp`, `Storage/KeyValueStore.cpp`) | `accepting_`, the pool's queue, the key-value file | `HandleIncomingPayload`, `Dispatch`, `StopAccepting`, the shutdown sequence | requests that arrive during shutdown, exceptions on a worker, a file shared with the device storage | every request is answered; nothing is used after it is destroyed |
| Device storage, monitor state and GUI loop (`Watchlist/DeviceStorageService.cpp`, `Gui/DeviceMonitorState.cpp`, `Gui/GuiRuntime.cpp`, `Gui/Gui.cpp`) | command queue, results, optimistic device list | `Submit`, `PollResults`, `Run`, `StopAndDrain`; edit, delete, set alive; frames | late results over newer edits, the last frame's commands, partial batches, failed initialisation | what the user confirmed is stored or an error is shown |
| Application state and console (`Watchlist/AppState.cpp`, the console of `Gui/Apps/WatchlistApp.cpp`) | console, four bounded lists, the outbound handler | snapshot, update, `DispatchOutbound`, `Add*` | two threads reading and writing back the whole console | a form does not undo a status; a request is sent as it was typed |
| MQTT messages (`Watchlist/Messaging/MqttMessages.cpp`) | none | `SerializeRequest`, `ParseRequest`, client IDs | escapes, order of the checks, two lists of types that must agree | what is serialised is parsed as the same request |
| Generator event loop (`EventLoopGenerator.hpp`) | event queue, producers, three mutexes, event ids | `schedule_event`, `process_event_sequence`, `shutdown` | shutdown joins producers under a mutex that actions may need | every accepted event settles, shutdown returns |
| Coroutine event loop (`EventLoopCoroutine.hpp`) | delay queue, flags, worker | `schedule_after`, `stop` | the worker is started before the flags it reads are initialised | as the async event loop |
| SQLite database (`Utils/Storage/SQLiteDatabase.cpp`) | schema version, items | `Initialize` with migration, item operations, rules for IDs, names and addresses | a failure or crash inside the migration or inside `ReplaceAll`, values that do not fit their type, byte-level rules | an atomic table of valid devices; an unsupported file is left unchanged |
| Logger (`Utils/Logger/Logger.cpp`) and log window (`Gui/ApplicationLogWindow.cpp`) | bounded list, next sequence number; the window's own list | log, read since, clear, filter | readers against the dropped oldest entry, clearing between two readings | the last entries are shown, once and in order |
| Workspace (`Gui/Workspace/DetachableAppWorkspace.cpp`) | active application, detached ones, map | select, detach, attach, close | several buttons move one application within a frame | an application is rendered in one place |
| Application main (`Watchlist/main.cpp`, `Application.cpp`, `ApplicationPaths.cpp`) | four tasks on a pool of four | path, start, stop, join | order of stops and joins, failure of one subsystem | the application ends |
| Client, SQLite thread worker, examples, profiling | none of their own | - | - | - |

How they interact. `main.cpp` puts the SQL worker, the MQTT service, the async
event loop and the GUI on one thread pool of four, each for the life of the
application. The GUI loop pumps commands to the storage worker and results back
once per frame. Paho calls `MqttService` on its own threads; those call the
message handlers, which in the server call the dispatcher, which submits to a
pool of three, whose tasks publish acknowledgements through `MqttService` again.
Everybody writes to `AppState`, and the GUI reads it.

The hazards found in the code are listed with their lines in `PROJECT.json`,
each with the properties that would show it going wrong or the reason why none
does yet.

## Modules

| Module | Models |
|---|---|
| `TaskExecutor` | what a thread pool promises, without threads |
| `ThreadPoolManager`, `MCThreadPoolManager` | the thread pool |
| `ThreadPoolProofs` | theorems about `ThreadPoolManager` |
| `AsyncEventLoop`, `MCAsyncEventLoop` | the async event loop |
| `AsyncEventLoopProofs` | theorems about `AsyncEventLoop` |
| `MqttService`, `MCMqttService` | the MQTT transport |
| `MqttServiceProofs` | theorems about `MqttService` |
| `Server`, `MCServer` | the server: dispatcher, worker tasks, shared database file, shutdown; composed with `TaskExecutor` |
| `ServerProofs` | theorems about `Server` |
| `DeviceMonitor`, `MCDeviceMonitor` | the device list with its dialogs, the GUI lifecycle and its pump, the storage worker, the end of `main` |
| `EventLoopGenerator`, `MCEventLoopGenerator` | the generator event loop |
| `EventLoopCoroutine`, `MCEventLoopCoroutine` | the coroutine event loop |
| `EventLoopProofs` | theorems about `EventLoopGenerator` and `EventLoopCoroutine` |
| `DeviceTable` | what `IDatabase` promises, without files and transactions |
| `ItemRules` | the rules for IDs, names and addresses as pure operators, with reference definitions beside them |
| `SQLiteDatabase`, `MCSQLiteDatabase` | the database on one file; implements `DeviceTable` |
| `SQLiteDatabaseProofs` | theorems about `SQLiteDatabase` and `ItemRules` |
| `MqttMessages` | requests as JSON objects: serialising and parsing, as pure operators |
| `Application`, `MCApplication` | `RunApplication` with its four tasks and the shared console; composed with `TaskExecutor` and `MqttMessages` |
| `Workspace`, `MCWorkspace` | a frame of the main window, the log window and the logger |
| `GuiProofs` | theorems about `DeviceMonitor`, `Workspace` and `Application` with `MqttMessages` |
| `SequenceFacts` | lemmas about sequences and sets of numbers that several proofs use |

Conventions. A critical section of the code is one step when everything it
touches is only touched under the same mutex. What the code does after it has
released the mutex (a notification, a client call, a join) is a step of its own.
Condition variables may wake up spuriously. Definitions marked *mutant* are
plausible bugs; they are not part of any specification and serve to show that a
property can fail.

### ThreadPoolManager

State: `tasks` is `tasks_`, `stop` is `stop_`, `created` is `workers_.size()`;
`worker` and `held` say where each thread is in `WorkerThread`, `future` what a
submission's future holds, `notifiers` which calls are between the push and
`notify_one`, `phase` how far the constructor or destructor is.

| Action | Code |
|---|---|
| `Construct`, `CreateWorker`, `Constructed`, `FactoryThrows` | the constructors; an explicit zero is refused, the default count falls back to one, a throwing factory leads to `StopAndJoinWorkers` |
| `Enqueue`, `NotifyOne` | `enqueue`, called from outside or from a task on a worker |
| `Wait`, `SpuriousWakeup`, `Exit`, `Take`, `Finish` | `WorkerThread` |
| `SetStop`, `NotifyAll`, `JoinWorkers`, `Destroy` | `StopAndJoinWorkers` and the destructor |

`TaskExecutor` knows `open`, `closed` and `gone`, a backlog and the futures. The
mapping takes `tasks` for the backlog and derives the phase from `stop` and
`phase`. `Server` and `Application`, which only use a pool, are composed with it.

### AsyncEventLoop

State: `ready`, `delayed`, `waiters` and `status` are the code's queues and task
states, `gate` is the holder of `execution_gate_`, `held` the task that `run()`
has popped but not resumed, `cancelled` the local list of `stop()`. Deadlines
are the time left to them; `Tick` is the clock. A coroutine begins on the
caller's thread, outside the gate, and continues on the worker. The awaiters are
private, so the four coroutine functions are all the coroutines there are.
`emit_event` includes its `catch`: a waiter whose copy of the event throws
fails. `StreamNext` takes a stream's next event and `StreamFails` is the stream
whose coroutine throws. The destructor is `stop()` and a join; `RunStart` stands
for both execution modes. `process_events` is called by clients; a callback may
call the rest of the interface.

A coroutine that has settled may be started anew, so tasks can be scheduled for
ever. `ready_tasks_` is a stack that is served before the delays
(`AsyncEventLoop.hpp:390`): a callback that schedules itself, or two that schedule
each other, starve the older ready tasks and every delayed one. The model has
these behaviours. `QueuedTasksSettle` excepts those in which tasks become ready
for ever (`MoreBecomesReady`), and no others: tasks that are delayed anew for ever
starve nobody.

### MqttService

State: as the code's, with `thread` for the place and the locals of the service
thread, a thread that uses the interface and the thread of the callbacks,
`source` for the client that makes the present callback, and `link` for what is
outside: each client's connection, unanswered requests, and the topics the
broker delivers. `reported`, `stale` and `missed` are history variables.

| Action | Code |
|---|---|
| `Connect` .. `ConnectThrows` | `Connect`, with `ReleaseClient` in between |
| `Disconnect`, `DisconnectAnnounce`, `DisconnectDone` | `Disconnect` |
| `ReleaseTake`, `ReleaseDrop`, `ReleaseClear` | `ReleaseClient` |
| `RunStep`, `Timeout`, `StopCallback` | `Run`: the loop, its two timed waits and the untimed one |
| `Subscribe`, `Unsubscribe`, `Publish`, `TrackOperation`, `Send` | the interface, `SubscribeClient`, `CancelOperation` |
| `HandleConnected`, `ConnectionLost`, `ConnectionLostStatus`, `ConnectFailed`, `Answer` | the Paho callbacks and `CompleteOperation` |
| `RequestStop`, `Network` | external: the owner's stop request; Paho, the network and the broker |

`mutex_` is not a variable. Only `Run` keeps it across steps, between the
evaluation of a predicate and the moment it blocks, because the stop request is
the one thing that changes a predicate without `mutex_`.

Of Paho the model assumes what the code relies on: callbacks come one after the
other, `disable_callbacks` prevents further ones but does not wait for one that
is running, a clean session forgets its topics when the connection is lost,
requests are answered in order, a subscription without a connection throws, a
publication is buffered.

Three windows of this code are real and are kept in the model. History variables
record when they are met, and the properties except exactly those behaviours:

* The stop callback of `Run` notifies without `mutex_` (`MqttService.cpp:297`).
  When the stop request comes after the untimed wait has found its predicate
  false and before it blocks, nobody is woken, and `Run` sleeps as long as the
  connection lasts. `missed` records it; `StopsUnlessMissed` shows that this is
  the only way to miss a stop request. `Server` and `Application` have the same
  window, because they wait for the thread that runs `Run`.
* `connection_lost` reads `shuttingDown_` and sets `Reconnecting` in two critical
  sections (`:345`). `Run`'s `Disconnect` can run between them, and the service
  is `Reconnecting` for good. `StaysClosed` shows that this is the only status
  that a late callback can leave behind a `Run` that has returned: a connection
  that is made too late, or an attempt that fails too late, finds `shuttingDown_`.
* `HandleConnected` does not know which client called it (`:409`). One that
  belongs to a released client can set `Connected` after `Connect` has begun
  anew; the new client's own callback then finds `Connected`, returns early and
  subscribes nothing. `HandlersSubscribed` shows that topics are not lost
  otherwise. `stale` records both this and the previous window.

`ReleaseDrop` closes the connection. Where `disconnect` has failed and another
thread is still inside a call with its own copy of the pointer, the connection
lasts until that call is over; no callback is made for it any more.

### Server

State: `main` is the main thread's place in `Run`, `dispatcher` whether the
dispatcher is still there, `accepting` its flag; `phase`, `backlog` and `future`
are the pool, through `TaskExecutor`; `callback` is the place of the thread on
which Paho delivers messages, `stage` that of each worker task, `device` that of
the storage worker; `db` and `lock` are the SQLite file: its tables and the
connection that is writing. `acks`, `misused`, `abandoned` and `excuse` are
history variables.

| Action | Code |
|---|---|
| `MessageArrived`, `HandleIncomingPayload`, `Dispatch`, `Enqueue`, `AckFromCallback` | `message_arrived` and the dispatcher on the callback thread, with the two looks at `accepting_` and the pool's own rejection |
| `StartTask`, `ExecuteWorkerRequest`, `BeginStatement`, `CommitStatement`, `AckFromTask` | the task on a worker and the two statements of `KeyValueStore` |
| `CallbackMisuse`, `TaskMisuse` | the use of a destroyed dispatcher or pool: undefined, so only recorded |
| `InitializeLook`, `InitializeCreate`, `InitializeCommit`, `ExecuteBegin`, `ExecuteCommit` | `SQLiteDatabase::Initialize` and batches of commands on the storage worker |
| `StorageOpens`, `StorageThrows`, `CloseWindow`, `PumpStorage` | construction of the storage, and the end of the GUI |
| `StopAndDrain` .. `RequestStop`, `StopTransport` | the shutdown, in the order of `main.cpp`; the last two are `request_stop` and `join` |
| `RegisterHandler`, `HandleConnected`, `ConnectionLost`, `OperationSucceeds`, `OperationFails` | the MQTT thread and the callbacks of the transport |
| `Restart` | the next process on the same file |

A message is one of four kinds: valid and stored, valid and only acknowledged,
invalid with a client ID that can be answered, invalid without one. The
transport is much smaller here than in `MqttService`: once a message has
arrived, the server keeps one client, and only the callback thread changes
`status_` until `Run` is told to stop. Of `Run` the model keeps whether it has been
connected (`mqttThread` is `attached`: it waits without a time-out) and whether it
has missed the stop request (`missed`). That it returns otherwise is what
`StopsUnlessMissed` shows. Every later notification, of a lost connection or a
failed operation, wakes a `Run` that has missed the request (`Woken`); without one
`join` waits for ever, and `ShutdownReturns` excepts exactly that. A message
callback and the success of an operation come on one thread; a failure may come
at any time.

### DeviceMonitor

State: `devices`, `editor`, `pendingDelete`, `error`, `commands` and
`exitRequested` are the members of `DeviceMonitorState`; `queue`, `results` and
`stop` those of `DeviceStorageService`, `worker` and `batch` the place of its
thread; `gui`, `held`, `shouldClose` and `backgroundError` belong to
`RunGuiLifecycle`, `main` and `appResult` to the end of `main.cpp`; `db` is the
table. `submitted` and `failed` are history variables.

| Action | Code |
|---|---|
| `InitializeStage`, `DestroyStage` | the stages of `RunGuiLifecycle` and their owners, each of which but one may throw |
| `BeginFrame`, `PumpStorage`, `DrawFrame`, `EndFrame` | one frame: events, commands out and results in, at most one widget used, the background error |
| `FrameThrows` | an exception of a frame, which `RunGuiLifecycle` turns into a failure |
| `RequestRefresh` .. `ClearError`, inside `DrawFrame` | the operations of `DeviceMonitorState` behind the widgets that offer them; popups are modal |
| `Initialize`, `Take`, `Execute` | the storage worker; a batch keeps what it did before the command that fails |
| `StopAndDrain`, `RequestStop`, `PollLastResults` | the end of `ImGuiStart` and of `main.cpp` |

What is clicked in the very last frame, after its pump, is never submitted.
`SavedOrReported` therefore allows one unsubmitted command and no more. A result
computed before an edit takes the edit off the screen for a while; `Converged`
shows that it comes back.

### EventLoopGenerator

State: `accepting`, `events`, `last` and `complete` are members of the class;
`event` and `run` hold what became of each event and of each sequence with its
producer thread; `holder` is who holds `producers_mutex_` across steps, and
`stopper` the place of each thread in `shutdown()`, which also tells who holds
`shutdown_mutex_`. Actions of events return, throw, schedule an event or start a
sequence. `MaxId` stands for the largest `uint64_t`.

`shutdown()` joins the producers with `producers_mutex_` held. An action that
calls `process_event_sequence` then waits for that mutex on the worker, while
the producer that is joined waits for an event behind it: nobody goes on. This
is real, so the run does not check for deadlock, and `ShutdownReturns` excepts
`NestedWait` and nothing else. An action that itself calls `shutdown()` would
join its own thread and is left out.

### EventLoopCoroutine

State: `delayed` is the priority queue, `status` the task states, `gate` the
holder of `execution_gate_`, `admitting` is `accepting_`, `resumer` the place of
the worker with the deadline it sleeps to and the task it has taken; `now` is the
clock. `worker_thread_` is
declared before `accepting_` and `stopping_`, so the worker may read a flag that
is not yet initialised: until `InitializeFlags` it reads either value. A worker
that reads `true` there is gone before the first task, and every later task stays
pending until the loop is stopped. `leftEarly` records this and `GetEnds` excepts it.

### SQLiteDatabase, ItemRules and DeviceTable

State: `file` is what is committed and survives the process, `work` what the
connection sees inside a transaction, `step`, `call` and `todo` the place of the
thread; `initialized` is `initialized_`. A file has a version, tables with the
statement that made them, and rows whose columns need not fit the types of
`DatabaseItem`. Each statement of a transaction is a step; it may fail, and the
process may end before it.

| Action | Code |
|---|---|
| `Initialize` | the decision over version and schema |
| `CreateV1` or `Decode` .. `RenameItemsV1`, then `SetUserVersion`, `CommitSchema` | a new file, and `MigrateUnversionedDeviceSchema` |
| `AddItem`, `UpsertItem`, `RemoveItem`, `Clear`; `ReplaceAll`, `ReplaceInsert`, `ReplaceCommit` | the mutations; only the last has a transaction of its own |
| `Query`, `ContainsItem`, `CountItems` | the queries; every row that is handed out is decoded |
| `StatementFails`, `Crash` | external: SQLite reports an error; the process ends and the journal is rolled back |

`ReadsWhatIsStored` compares what a query returns with the rows of the file at that
moment: `GetItem` and `GetAllItems` return every row that they ask for, no other
row, and the port as it is stored, or they throw. One found file has a port outside
its type, as `tests/UnitTests/Storage/SQLiteDatabaseTests.cpp` makes one.
`CommitSchema` is enabled when the validation before `COMMIT` succeeds; one that
fails rolls back as a statement that fails does (`StatementFails`).

Rows are a set, since the one query that returns several orders them by their
IDs, and so is `todo`, the rows that a migration or `ReplaceAll` still has
to insert: in which order they are inserted is left open.

`DeviceTable` has a set of rows and a call in progress, which takes effect at
once or not at all. The mapping takes the committed rows and the pending
mutation. The rows that may be written are given by the reference definitions,
not by the code's own rules: a text is a sequence of well-formed pieces
(`WellFormed`, the table of the Unicode standard), and an IPv6 address is one
that expands to eight groups (`Rfc4291`).

### MqttMessages and Application

`MqttMessages` keeps of a text what `EscapeJson`, the JSON grammar and
`IsValidClientId` tell apart. A string value holds the raw characters between
its quotes, so that escaping and reading are each modelled by what they do.

In `Application`, `phase`, `backlog` and `future` are the pool through
`TaskExecutor`, with a number of workers; `mainThread` is the place of the main
thread, `stops` the tasks that were asked to stop; `console`, `handler` and
`outbound` are `AppState`; `guiThread`, `transport` and `service` are the threads that
use it. Inside the tasks only their use of `AppState` is modelled; that they end
when asked to is what the other modules show. `service` is `attached` and `missed`
as `mqttThread` is in `Server`: the stop request can fall into the window of
`MqttService.cpp:297`, and main then waits for the messaging task, in
`messagingFuture.get()` or in the destructor of the pool, until the connection
reports something. `ApplicationEnds` excepts that.

| Action | Code |
|---|---|
| `Start`, `StartThrows`, `Enqueue`, `EnqueueThrows` | arguments, path and the four submissions |
| `GuiReturned` with `RequestStops`, `Join`, `ClosePool`, `DrainPool` | the stop requests, the joins and the destructor of the pool |
| `SetStatus`, `CallbackStatus`, `ReportError`, `SnapshotConsole`, `UpdateConsole` | `Connect`, `HandleConnected`, `connection_lost`, `on_failure` and errors of operations, each with its read and write of the whole console |
| `SubscribeAcks`, `RunStops`, `RunOffline`, `RunReturns`, `RunThrows` | the messaging task |
| `GuiSnapshot`, `UpdateConsoleForm`, `NoButton`, `Send`, `AddOutbound` | a frame of the console; `Publish` may report an error on the GUI thread itself |
| `GuiReturns`, `GuiThrows`, `StorageFails`, `TaskReturns` | the ends of the tasks |

A thread of the transport that has read the console before a form edit writes
the old form back. `overwritten` records it, and `RequestArrivesAsTyped` excepts
requests that are sent after it. It also excepts texts with control characters,
which `EscapeJson` does not escape, and client IDs that the server refuses. A
client ID that is edited after the start is sent with requests, while the
acknowledgements are subscribed for the ID of the start.

### Workspace

State: `entries`, `nextSequence` and `output` are the logger; `displayedEntries`,
`lastSequence` and `severityEnabled` the log window; `activeApplication`,
`detached` and `showApplicationMap` the workspace; `step` how far the frame has
come. Other threads log between any two windows of a frame; a fatal record ends
the process. Rendering is counted per frame.

## Runs

| Run | Bounds | Shows |
|---|---|---|
| `thread_pool` | up to 3 workers, 2 callers, 3 tasks | the safety and liveness of the pool and the refinement of `TaskExecutor` |
| `async_event_loop` | 1 client, 3 tasks that are used again, streams of 2 events, delays -1 and 2 | `PendingInOnePlace`, `NeverSleepsPastWork`, `QuietAfterStop`, `StopSettlesAll`, `QueuedTasksSettle` |
| `coroutine_loop` | 3 tasks, scheduled up to time 1 | `NeverSleepsPastDeadline`, `GetEnds` |
| `generator_loop` | 2 sequences of 2 events, 2 threads that shut down, 3 IDs, 1 single event | `IdsInOrder`, `SequenceVerdict`, `ShutdownReturns` |
| `mqtt_service` | 1 topic, 2 clients, 3 listeners, 1 outside `Disconnect` | `HandlersSubscribed`, `OneConnection`, `TrackedInFlight`, `StaysClosed` |
| `mqtt_liveness` | 1 topic, 2 clients, 2 listeners | `RetriesAfterError`, `StopsUnlessMissed` |
| `server` | 2 deliveries, any number of starts | `AnsweredOnce`, `DispatcherOutlivesUse`, `AcksAwaited`, `ShutdownReturns` |
| `server_storage` | 1 delivery | violated: `StorageStarts` |
| `device_monitor` | 1 device, 5 clicks, 1 fault | `Converged`, `SavedOrReported`, `Ends` |
| `database` | 15 files, 5 items, 5 calls, 1 fault | `RefusedFilesKept`, `ReadsWhatIsStored`, `ItemRulesMatch`, `ImplementsDeviceTable` |
| `application` | 5 command lines, 1 edit and 1 request, 1 status change or error and one more that wakes `Run`, 1 fault | `StatusKeptByForm`, `RequestArrivesAsTyped`, `ApplicationEnds` |
| `workspace` | 2 applications, 2 levels, lists of 2, 4 records | `LastEntriesShown`, `RenderedOnce` |

Why these bounds. Three workers and tasks allow one busy, one sleeping and one
waking worker at once, with a task that submits another. Three coroutines allow
one popped, one queued and one being started, and the delays put a later
deadline before an earlier one; of three that are used again one can be starved by
two. One client is enough for the races with the worker, on which callbacks make
the same calls; that the safety properties hold for any number of clients is
proved. The same three do for the coroutine loop. Two
sequences allow one that is started by an action next to one that is joined, and
submissions can outnumber the IDs. Two Paho clients are a released one and its
successor; there cannot be a third with a callback still running, since
callbacks come one after the other. One topic is enough because the topics do
not influence each other in the code; three listeners are an operation of the
interface behind an unanswered one and one of the callback. A call of the
interface is not made when too few listeners are free, and `Publish` only when
none is in use. Both bound the state space and nothing else. Two deliveries are
one on the callback thread with one on a worker, or two on workers that contend
for the file; the pool of three never makes two wait. Devices do not influence
each other in the monitor, and five clicks delete a device and add it again, or
edit it twice, while results of the first command are still to come; one kind of
data is accepted by the draft and refused by the database. The files of the
database are a new one, the current schema in both spellings, the two older
schemas, and foreign or damaged ones for each of the checks of `Initialize`; its
items are two versions of one device, another device, and two that are refused;
`ReplaceAll` gets every pair of them. `ItemRulesMatch` compares the rules on all
texts of up to three bytes, four where the encoding needs them, from the bytes
at which it changes form, and on addresses of up to nine groups or five labels.
For the application, a connection, its loss or an error can fall between any two
steps of a frame that edits and one that sends, the status changes of the
disconnection are not counted, and a change can follow a stop request that was
missed; its two safety properties are proved without bounds. Four records overflow a list of two while
the window is hidden.

All runs check for deadlock but two: in `generator_loop` the standstill described
above is real, and in `database` the callers stop calling when their bound is
reached. Elsewhere a step such as `Terminated`, `Returned` or `Finished` stands for
the proper end, so that any other standstill is reported; that of the application
includes the wait for a `Run` that has missed the stop request. The async event
loop has no such step, since clients can always call it; its liveness properties
say that nobody else is stuck.

### What the violation shows

`server_storage`. The dispatcher's key-value store and the device storage get
one file. The table of the first is an object that the second refuses, so the
server ends by itself when its storage worker initialises after a store request
was served, and at every start after a value was stored.

`DispatcherOutlivesUse` holds with exceptions that are all real, each of which
alone leads to a use of the destroyed dispatcher: the scope is left by an
exception of the storage's constructor (the dispatcher is then destroyed before
the pool it has queued work on); Paho refuses the unsubscription because the
connection has just broken; the unsubscription fails; it takes longer than the
three seconds; or the MQTT thread registers the handler only after the main
thread has unsubscribed, which happens when the GUI fails at once. Likewise
`AnsweredOnce` excepts a storage exception on a worker: the file is locked by
another request or the storage worker, nothing retries, and the exception ends
in a future that nobody keeps.

## Fairness

* Thread pool: every worker, the constructor, the destructor once begun, and a
  thread about to notify are weakly fair: the operating system runs a thread
  that can run. Not assumed: that a task returns (`DrainsIfTasksReturn` has it
  as a premise and `StartsUnlessAllBusy` does without), that anybody submits or
  destroys the pool.
* Async event loop: the same for the worker and for calls under way, and time
  passes. Strong fairness of the time-out of the worker's wait: `wait_until` reads
  the clock before it blocks again, so notifications that keep coming do not keep
  a deadline that has passed from being served. Not assumed: that a callback returns (a premise of both liveness
  properties), that `run()` is called, that anybody calls.
* MQTT: weak fairness of the service thread, of the stop callback, and of calls
  and callbacks under way. Strong fairness of the time-out of a timed wait: with
  a predicate, `wait_for` computes one deadline for all its wake-ups, so
  repeated notifications do not postpone it. Nothing is assumed of the network,
  the broker or the user.
* Server: weak fairness of the main thread once the window is closed or the
  storage has failed, of the MQTT thread's start, of the pool and its tasks and
  of the storage worker inside a statement. Nothing is assumed of the user, the
  callbacks, the network or the broker; that is why `ShutdownReturns` needs the
  time-outs of both waits, and why nothing has to wake a `Run` that has missed the
  stop request.
* Device monitor: weak fairness of the GUI thread, the storage worker and the
  main thread. A frame always ends, and the user is not obliged to click.
* Generator loop: weak fairness of the producers, the worker and each thread that
  is in `shutdown()`. Nobody is obliged to submit or to shut down.
* Coroutine loop: weak fairness of the worker, of a waiting `get()` and of a
  destructor that has begun, and time passes. Callbacks return.
* Application: weak fairness of the main thread, the pool, the tasks that were
  asked to stop, a read and write of the console that has begun and a frame that
  has begun. The GUI is obliged to return only when the window is hidden or the
  storage has failed.
* The database and the workspace are checked for safety only.

## Proofs

TLAPS checks what follows for every value of the constants: any number of
threads, tasks, clients, requests, items, files, devices, applications and texts,
where the runs have two or three. The assumptions are the `ASSUME`s of the models.
They say that names are distinct (a client is not the worker, `None` is none of
the others) and that bounds and delays are numbers; for the transport that there
are more listeners than topics, so that a connection can subscribe them all; for
the database that files, items and inputs have the right shape, with any content;
for the log that the window's list may hold no fewer entries than the logger's
(both hold 10,000 in the code); and for the console that a text is a sequence of
characters. `EventLoopProofs` and `GuiProofs` extend several models, which have no
name in common for that reason. The properties of models with fairness are proved from the safety part.

| Module | Theorem | States |
|---|---|---|
| `ThreadPoolProofs` | `TypeCorrect` | `Spec => []TypeOK` |
| | `ExactlyOnePlace` | `Spec => []TaskInOnePlace` |
| | `Drained` | `Spec => []DrainedBeforeDestruction` |
| | `SettledForGood` | `Spec => SettlesOnce`, an action property |
| | `WakeupsSuffice` | `Spec => []NoLostWakeup` |
| | `Implementation` | `Spec => ImplementsTaskExecutor`, a refinement |
| `AsyncEventLoopProofs` | `TypeCorrect` | `Spec => [](TypeOK /\ Sorted)` |
| | `StopIsABoundary` | `Spec => []QuietAfterStop` |
| | `NoLostWakeup` | `Spec => []NeverSleepsPastWork` |
| | `EveryPendingTaskInOnePlace` | `Spec => []PendingInOnePlace` |
| `EventLoopProofs` | `TypeCorrect` | `Spec => [](TypeOK /\ ShutdownCloses)` |
| | `IdsIssuedAndExecutedInOrder` | `Spec => []IdsInOrder` |
| | `VerdictIsWhatHappened` | `Spec => []SequenceVerdict` |
| | `CoroutineTypeCorrect` | `CoroutineSpec => []LoopTypeOK` |
| | `SleepsToTheEarliestDeadline` | `CoroutineSpec => []NeverSleepsPastDeadline` |
| `MqttServiceProofs` | `TypeCorrect` | `Spec => [](TypeOK /\ Lock)` |
| | `AtMostOneConnection` | `Spec => []OneConnection` |
| | `ListenersAreTracked` | `Spec => []TrackedInFlight` |
| | `ClosedWhenRunReturns` | `Spec => []StaysClosed` |
| | `HandlersStaySubscribed` | `Spec => []HandlersSubscribed` |
| `ServerProofs` | `TypeCorrect` | `Spec => []TypeOK` |
| | `RequestsAreAnsweredOnce` | `Spec => []AnsweredOnce` |
| | `ShutdownOrderIsSafe` | `Spec => []DispatcherOutlivesUse` |
| | `AcknowledgementsAreAwaited` | `Spec => []AcksAwaited` |
| `SQLiteDatabaseProofs` | `Utf8RuleIsUnicode` | `IsValidUtf8(text) <=> WellFormed(text)`, for every sequence of bytes |
| | `Ipv6RuleIsRfc4291` | `IsValidIpv6(address) <=> Rfc4291(address)`, for every sequence of tokens |
| | `HostnamesAreNames` | a host name is no IPv4 or IPv6 address and not numeric, for every sequence of tokens |
| | `RulesFollowStandards` | `Spec => []ItemRulesMatch`, from the three above |
| | `ForeignFilesAreSafe` | `Spec => []RefusedFilesKept` |
| | `QueriesReadWhatIsStored` | `Spec => []ReadsWhatIsStored` |
| | `DatabaseImplementsTable` | `Spec => ImplementsDeviceTable`, a refinement |
| `GuiProofs` | `DeviceTypeCorrect` | `Spec => []TypeOK` |
| | `ListConverges` | `Spec => []Converged` |
| | `FailuresAreReported` | `Spec => []SavedOrReported` |
| | `ApplicationsRenderedOnce` | `WorkspaceSpec => []RenderedOnce` |
| | `LogWindowShowsTheLog` | `WorkspaceSpec => []LastEntriesShown` |
| | `FormKeepsStatus` | `ApplicationSpec => []StatusKeptByForm` |
| | `RequestsArrive` | `ApplicationSpec => []RequestArrivesAsTyped` |

`SequenceFacts` holds what these proofs need about sequences: the elements and
the distinctness of appended, shortened, concatenated sequences and of those with
an element inserted, that a set of numbers has a least element, and induction as
a fact about sets of numbers. `Iteration` says that a loop of n rounds has a run:
the models write loops as recursive functions over positions, and a proof has to
know that the function exists before it can say what it computes.

### The inductive invariants

*Thread pool.* `TypeOK` is inductive. The others rest on `Shape`: which workers
exist, that a worker holds a task exactly while it runs, that a worker inside a
nested `enqueue` is running, that `stop` goes with the phase, that nothing is
submitted to a pool that is not completely built, and that a worker that has left
found `stop` set and the queue empty, which stays so because a stopped pool
rejects. Without that last part `DrainedBeforeDestruction` is not inductive: a
join would have to prove that nothing is queued from the workers' exits alone.
`NoLostWakeup` is a count: a push adds one task and one notifier; a notification
turns a notifier into a woken worker, or finds nobody asleep; a worker that
takes a task leaves one task less. It needs cardinalities of finite sets, from
`FiniteSetTheorems`.

*Async event loop.* `Gate` says that whoever executes coroutine code on the worker,
or cancels in `stop()`, holds `execution_gate_`; with it, a `stop()` that has the
gate knows that the worker is outside. `Sorted` says that the delayed tasks are in
deadline order, so the first entry is the earliest deadline. `PendingInOnePlace`
counts occurrences, which no step preserves by itself: `Partition` says instead
that the pending tasks are the disjoint union of the six places and that each
place has a task once, and the count follows. The steps that move many tasks at
once, `emit_event` and `stop()`, have lemmas of their own on what they move.

*Generator loop.* `Line` splits the issued IDs at `Begun`, the number of events
that the worker has taken: those before are settled, the one there is running or
settled, those after are the queue, in order. `SequencesOK` says what a sequence
has gathered when its producer is at a given place; a rejected ID means that
admission is closed or the IDs are exhausted, and both stay so.

*Coroutine loop.* `Sleep` says that the deadline the worker sleeps to is still the
earliest, unless an earlier entry has come or the loop is stopping. It is stated
without the priority queue's choice of an element, which is what makes it
inductive: an insertion changes the choice but not the deadline slept to.

*MQTT transport.* `Lock`: `operationMutex_` is held exactly between its lock and
its unlock. `Ownership`: only its holder changes `client_`, and from `ReleaseTake`
until the next client is made there is none. `Callback`: a callback that may
report success speaks for a connection that is up, if it is the current client's.
`Listeners`: a listener is with the thread about to send its request or in one
request in flight, and is in `pendingOperations_` while its client is current.
`Closed`: `shuttingDown_` is set from the moment in which `Run` begins its last
`Disconnect`, and nothing resets it, which is why no callback that looks at it
afterwards changes the status.
`Todo` and `Connection` say what a thread has left to send and what `Connected`
means for the connection. `HandlersSubscribed` needs all of them: that a topic is
subscribed is known at the broker, was promised by the callback that set
`Connected`, and must survive every release and reconnection in between.

*Server.* `Life` follows each delivery from the callback thread through the pool
to its end, with the number of acknowledgements it has had at each place.
`PoolOrder`, `CallbackOrder` and `AckOrder` say, for each place of the main
thread in the shutdown, which of the other threads can still be where; they hold
as long as nothing in `excuse` has happened. The pool enters through
`TaskExecutor`, which the thread pool is proved to implement.

*Database.* `Schema` says what each step of a transaction has made of the tables,
`Calling` that the thread works on the call that was made, and `Contents` that the
rows written and the rows still to be written are together those that were asked
for, or those of the old table. A crash is then easy: the committed file is either
the old one or complete. The refinement needs more than `Inv`, because the rows
that `DeviceTable` may take are given by the reference definitions: that the rules
of the code accept only those is the content of `Utf8RuleIsUnicode` and
`Ipv6RuleIsRfc4291`. With them the refinement has no hypothesis left.
`QueriesReadWhatIsStored` needs that an item that `DecodeDatabaseItem` accepts is
bound to the very row that it was read from, for any column values, and that the
thread answers the query that was asked.

The theorems about rules are about loops over texts of any length. The rules are
written as recursive functions over positions, and the proofs go by positions.
`Utf8RuleIsUnicode` takes the least position at which loop and table disagree and
derives a contradiction, byte count by byte count. `Ipv6RuleIsRfc4291` shows by
induction on the length how `Split` works on a concatenation, so that the parts of
an expanded address are the parts to the left of the compression, its zeros and
the parts to the right. The converse recovers both sides from the eight groups; two
colons in a row, or one at the end of a side, would leave an empty part, which is no
group, so the compression is the only one. `HostnamesAreNames` rests on the fact
that every token but the separators is in some part.

*Device list.* `Replayed` says that executing the batch in hand and then the queue
leads from the rows of the file to the rows that were asked for; `Answered` that,
with nothing under way, the newest list that was read or is to be read is the
file's. `Converged` follows from the two, although the list on screen may be older
than an edit for a while. `Reported` follows the news of a failure from the
storage's results through the pump, the end of the frame loop and the last
drain, and `Places` says which thread can be where; `SavedOrReported` needs all but
`Answered`.

*Frame and log.* `RenderedSoFar` says what was rendered when the frame has come to
a window; the buttons behind it move applications only to where they are not drawn
again. `LoggerList` says that the logger has the newest numbers without a gap,
`WindowList` that the window has everything of them up to where it has read, and
`Stream` that every number was written. The last list survives an overflow because
the window's bound is not below the logger's.

*Console.* `Mirror` says that console, copy and request have what the user typed
as long as no thread of the transport has undone an edit. `RequestsArrive` then
only has to show that parsing inverts serialising. Its core is `RoundTrip`: by
induction on the length, the parser has read exactly the first k characters when
it has come to the end of their escapes.

### Only model-checked

* All liveness, which is out of the prover's reach: `StartsUnlessAllBusy`,
  `DrainsIfTasksReturn`, `StopSettlesAll`, `QueuedTasksSettle`, `GetEnds`,
  `ShutdownReturns` of the generator loop and of the server, `RetriesAfterError`,
  `StopsUnlessMissed`, `Ends`, `ApplicationEnds`.
* `StorageStarts`, which does not hold.

## Plan

The models are complete for what the inventory lists, and every safety property
that a run checks is proved. A change to the code begins with the module that the
map names for it: the run that checks the module, then its theorems.

## Not modelled

* Third-party and generated code (glad, the KHR headers), the examples, the
  profiling macros and the version header.
* `Apps/Client/main.cpp`, whose wiring is a part of the application's, and
  `SQLiteThreadWorker`, a demonstration. Both have no state of their own.
* Drawing: layout, styles, geometry, content scale, the placeholder
  applications, and the record of platform errors, which only words messages.
* Texts: the wording of errors, time stamps, topic strings and `TopicMatches`,
  `SerializeAck`, which nothing in the repository parses, and the SQL itself,
  which is modelled by what it does.
* Of the transport: the status and error handlers, which no application sets,
  and functions that only forward.
* Failing memory allocation, except where the code handles it.
