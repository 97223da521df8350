---------------------------- MODULE Application ----------------------------
(***************************************************************************)
(* The Watchlist application: RunApplication from its arguments to its     *)
(* exit code, the four endless tasks that main.cpp puts on a pool of four, *)
(* their stop and their joins, and the MQTT console that the GUI thread    *)
(* and the threads of the transport share through AppState.                *)
(*                                                                         *)
(* The pool is TaskExecutor with a number of workers. Inside the tasks the *)
(* model keeps what they do to AppState; DeviceMonitor, MqttService and    *)
(* AsyncEventLoop model the rest, and why each of them ends when it is     *)
(* asked to. MqttService finds the one window in which Run misses a stop   *)
(* request, and it is part of this model: what main then waits for.        *)
(***************************************************************************)
EXTENDS MqttMessages

CONSTANTS
    Arguments,     \* command lines
    Texts,         \* what the user may type into a field
    ClientIds,     \* and into the field of the client ID
    MaxLines,      \* maxLines_, 50
    MaxEdits,      \* edits of the user
    MaxRequests,   \* requests that the user sends
    MaxChanges,    \* status changes and errors of the transport
    MaxFailures,   \* failures of the system below
    Nothing

ASSUME TextsAssumption == Texts \subseteq Seq(Characters) /\ ClientIds \subseteq Seq(Characters)

VARIABLES
    mainThread,    \* the place of the main thread
    phase, backlog, future,   \* threadPool, as TaskExecutor
    stops,         \* the tasks that were asked to stop
    exit,          \* what runGui, then RunApplication returns
    console,       \* console_: [form, status]
    handler,       \* outboundCommandHandler_ is set
    outbound,      \* outbound_, the history of sent requests
    guiThread,     \* the GUI thread in a frame: [at, copy]
    transport,     \* the threads that call SetStatus or ReportError
    service,       \* the place of the messaging task; Run is "attached" while
                   \* it is connected and waits without a time limit
    sent,          \* the last published request
    typed,         \* history: the form as the user left it
    overwritten,   \* history: a thread of the transport undid an edit
    shown,         \* history: the status the transport wrote last
    edits, changes, failures

poolVars == <<phase, backlog, future>>
consoleVars == <<console, handler, outbound, guiThread, transport, service, sent>>
observed == <<typed, overwritten, shown>>
limits == <<edits, changes, failures>>
applicationVars == <<mainThread, poolVars, stops, exit, consoleVars, observed, limits>>

Tasks == {"sql", "messaging", "asyncIo", "gui"}
Order == <<"sql", "messaging", "asyncIo", "gui">>
Pool == INSTANCE TaskExecutor

ThreeWorkers == 3
PoolSize == 4
Running(t) == future[t] = "running"

Threads == {"service", "callback", "gui"}
InitialForm == [type |-> 0, clientId |-> <<"word">>, fields |-> [f \in OptionalFields |-> <<"word">>]]
Idle == [at |-> "idle", copy |-> Nothing, status |-> Nothing]

ApplicationInit ==
    /\ mainThread = "start"
    /\ Pool!Init
    /\ stops = {}
    /\ exit = Nothing
    /\ console = [form |-> InitialForm, status |-> "Offline"]
    /\ handler = FALSE
    /\ outbound = <<>>
    /\ guiThread = [at |-> "idle", copy |-> Nothing]
    /\ transport = [w \in Threads |-> Idle]
    /\ service = "none"
    /\ sent = Nothing
    /\ typed = InitialForm /\ overwritten = FALSE /\ shown = "Offline"
    /\ edits = 0 /\ changes = 0 /\ failures = 0

Fault == failures < MaxFailures /\ failures' = failures + 1

---------------------------------------------------------------------------
(* Startup *)

HasArgument(arguments, argument) == \E k \in DOMAIN arguments : arguments[k] = argument

Flags == {"--database-path", "--gui-smoke", "--wait-for-tracy"}

(* A variable that is unset or empty counts as absent: environment is the  *)
(* set of variables that have a value.                                     *)
EnvironmentPath(name, environment) == name \in environment

(* Which file is used, "error" when an exception is thrown. *)
ResolveDatabasePath(arguments, platform, environment) ==
    LET at == {k \in DOMAIN arguments : arguments[k] = "--database-path"}
        value(k) == IF k = Len(arguments) THEN "" ELSE arguments[k + 1]
        default ==
            CASE platform = "Windows" /\ EnvironmentPath("LOCALAPPDATA", environment) -> "Local"
              [] platform = "Linux" /\ EnvironmentPath("XDG_DATA_HOME", environment) -> "Data"
              [] platform \in {"Linux", "MacOS"} /\ EnvironmentPath("HOME", environment) -> "Home"
              [] OTHER -> "error"
    IN IF at = {} THEN default
       ELSE IF Cardinality(at) > 1 \/ \E k \in at : value(k) \in Flags \cup {""}
       THEN "error"
       ELSE value(CHOOSE k \in at : TRUE)

(* PreparePath refuses a directory and fails with the file system. *)
PreparePath(path) == path \notin {"error", "directory/"}

(* RunApplication up to runGui and runGui up to the pool: the handler is   *)
(* installed, a hidden window closes by itself.                            *)
Start ==
    /\ mainThread = "start"
    /\ \E arguments \in Arguments, environment \in SUBSET {"XDG_DATA_HOME", "HOME"} :
          LET path == ResolveDatabasePath(arguments, "Linux", environment)
          IN IF PreparePath(path)
             THEN /\ mainThread' = "enqueue"
                  /\ handler' = TRUE
                  /\ guiThread' = [guiThread EXCEPT !.at = IF HasArgument(arguments, "--gui-smoke")
                                                           THEN "closing" ELSE "idle"]
                  /\ UNCHANGED exit
             ELSE /\ mainThread' = "returned" /\ exit' = "failure"
                  /\ UNCHANGED <<handler, guiThread>>
    /\ UNCHANGED <<poolVars, stops, console, outbound, transport, service, sent,
                   observed, limits>>

(* The file cannot be opened, or the pool or the loop has no memory. *)
StartThrows ==
    /\ mainThread = "start"
    /\ Fault
    /\ mainThread' = "returned" /\ exit' = "failure"
    /\ UNCHANGED <<poolVars, stops, consoleVars, observed, edits, changes>>

Enqueue ==
    /\ mainThread = "enqueue"
    /\ LET t == Order[CHOOSE k \in 1..4 : /\ future[Order[k]] = "unsubmitted"
                                          /\ \A j \in 1..k - 1 : future[Order[j]] # "unsubmitted"]
       IN /\ Pool!Accept(t)
          /\ mainThread' = IF t = "gui" THEN "waiting" ELSE "enqueue"
    /\ UNCHANGED <<stops, exit, consoleVars, observed, limits>>

(* storage.RequestStop(), asyncIoStop.request_stop(), asyncIoDemo.stop() *)
StopRequests == {"sql", "messaging", "asyncIo"}

(* The stop callback of Run notifies it without mutex_: Run misses that if *)
(* it has evaluated the predicate of its untimed wait and not yet blocked. *)
RequestStops ==
    /\ stops' = StopRequests
    /\ service' \in {service, IF service = "attached" THEN "missed" ELSE service}
    /\ UNCHANGED <<console, handler, outbound, guiThread, transport, sent>>

EnqueueThrows ==
    /\ mainThread = "enqueue"
    /\ Fault
    /\ RequestStops
    /\ exit' = "failure"
    /\ mainThread' = "close"
    /\ UNCHANGED <<poolVars, observed, edits, changes>>

(* guiFuture.get() and the requests that follow it, on either path. The    *)
(* two events of the demonstration are emitted before.                     *)
GuiReturned ==
    /\ mainThread = "waiting"
    /\ future["gui"] \in Pool!Settled
    /\ RequestStops
    /\ IF future["gui"] = "value"
       THEN mainThread' = "join" /\ exit' = "success"
       ELSE mainThread' = "close" /\ exit' = "failure"
    /\ UNCHANGED <<poolVars, observed, limits>>

(* The three get(), the handler is removed, and a failed storage result    *)
(* that nobody has polled turns the result.                                *)
Join ==
    /\ mainThread = "join"
    /\ \A t \in Tasks : future[t] \in Pool!Settled
    /\ handler' = FALSE
    /\ exit' \in {exit, "failure"}
    /\ mainThread' = "close"
    /\ UNCHANGED <<poolVars, stops, console, outbound, guiThread, transport, service, sent,
                   observed, limits>>

ClosePool ==
    /\ mainThread = "close"
    /\ Pool!Close
    /\ mainThread' = "drain"
    /\ UNCHANGED <<stops, exit, consoleVars, observed, limits>>

DrainPool ==
    /\ mainThread = "drain"
    /\ Pool!Vanish
    /\ mainThread' = "returned"
    /\ UNCHANGED <<stops, exit, consoleVars, observed, limits>>

---------------------------------------------------------------------------
(* The workers of the pool *)

StartTask ==
    /\ Cardinality({t \in Tasks : Running(t)}) < PoolSize
    /\ Pool!Start
    /\ service' = IF Head(backlog) = "messaging" THEN "subscribe" ELSE service
    /\ UNCHANGED <<mainThread, stops, exit, console, handler, outbound, guiThread, transport, sent,
                   observed, limits>>

Settle(t, result) == Pool!Settle(t) /\ future'[t] = result

(* storage.RunOnCallingThread() and run_on_calling_thread() return once    *)
(* they are asked to stop.                                                 *)
TaskReturns(t) ==
    /\ t \in stops \cap {"sql", "asyncIo"}
    /\ Settle(t, "value")
    /\ UNCHANGED <<mainThread, stops, exit, consoleVars, observed, limits>>

(* The worker of the storage returns when Initialize throws. *)
StorageFails ==
    /\ Fault
    /\ Settle("sql", "value")
    /\ UNCHANGED <<mainThread, stops, exit, consoleVars, observed, edits, changes>>

---------------------------------------------------------------------------
(* AppState *)

(* The same for outbound_, received_, acks_ and activity_; the model keeps  *)
(* the first.                                                              *)
AddBounded(list, line) ==
    LET longer == Append(list, line)
    IN IF Len(longer) > MaxLines
       THEN SubSeq(longer, Len(longer) - MaxLines + 1, Len(longer))
       ELSE longer

(* What UpdateConsoleForm leaves in console_. *)
WholeConsole(copy) == copy
FormOnly(copy) == [copy EXCEPT !.status = console.status]

---------------------------------------------------------------------------
(* The messaging task and the callbacks of the transport *)

(* The task subscribes its acknowledgements and runs the service. *)
SubscribeAcks ==
    /\ service = "subscribe"
    /\ service' = "run"
    /\ UNCHANGED <<mainThread, poolVars, stops, exit, console, handler, outbound, guiThread,
                   transport, sent, observed, limits>>

(* The callback thread finds shuttingDown_ clear until Run disconnects; a  *)
(* connection_lost that has read it before may come after that.            *)
Listening(s) ==
    \/ service \in {"run", "attached", "missed"}
    \/ service = "offline" /\ s = "Reconnecting"

(* Both tell the console, in two more steps; s is Nothing where the status *)
(* that was read is written back.                                          *)
Begin(w, s) ==
    /\ transport[w].at = "idle"
    /\ transport' = [transport EXCEPT ![w] = [at |-> "snapshot", copy |-> Nothing, status |-> s]]

(* The bound leaves room for one more change that wakes a Run that has     *)
(* missed the stop request.                                                *)
Change ==
    \/ changes < MaxChanges /\ changes' = changes + 1
    \/ changes = MaxChanges /\ service = "missed" /\ UNCHANGED changes

(* Connect, called by Run as long as there is no connection. *)
SetStatus(s) ==
    /\ service = "run"
    /\ Change
    /\ Begin("service", s)
    /\ UNCHANGED <<mainThread, poolVars, stops, exit, console, handler, outbound, guiThread,
                   service, sent, observed, edits, failures>>

(* HandleConnected, connection_lost and on_failure. The first two keep Run *)
(* in its untimed wait, or take it there, and wake it if it has missed the *)
(* stop request.                                                           *)
CallbackStatus(s) ==
    /\ Listening(s)
    /\ s = "Error" => service = "run"
    /\ Change
    /\ Begin("callback", s)
    /\ service' = IF s = "Error" \/ service = "offline" THEN service ELSE "attached"
    /\ UNCHANGED <<mainThread, poolVars, stops, exit, console, handler, outbound, guiThread,
                   sent, observed, edits, failures>>

(* ReportError of an operation, by a callback, and of a disconnect that    *)
(* fails, by Run. Its notify_all wakes Run too.                            *)
ReportError(w) ==
    /\ \/ w = "callback" /\ service \in {"run", "attached", "missed"}
       \/ w = "service" /\ service = "offline"
    /\ Change
    /\ Begin(w, Nothing)
    /\ service' = IF service = "missed" THEN "attached" ELSE service
    /\ UNCHANGED <<mainThread, poolVars, stops, exit, console, handler, outbound, guiThread,
                   sent, observed, edits, failures>>

SnapshotConsole(w) ==
    /\ transport[w].at = "snapshot"
    /\ transport' = [transport EXCEPT ![w].at = "update", ![w].copy = console]
    /\ UNCHANGED <<mainThread, poolVars, stops, exit, console, handler, outbound, guiThread,
                   service, sent, observed, limits>>

UpdateConsole(w) ==
    LET copy == transport[w].copy
        new == IF transport[w].status = Nothing THEN copy
               ELSE [copy EXCEPT !.status = transport[w].status]
    IN /\ transport[w].at = "update"
       /\ console' = new
       /\ shown' = new.status
       /\ overwritten' = (overwritten \/ new.form # console.form)
       /\ transport' = [transport EXCEPT ![w] = Idle]
       /\ UNCHANGED <<mainThread, poolVars, stops, exit, handler, outbound, guiThread, service, sent,
                      typed, limits>>

(* Run sees the stop request and disconnects, which it announces if there  *)
(* is a client.                                                            *)
RunStops ==
    /\ service \in {"run", "attached"} /\ "messaging" \in stops
    /\ transport["service"].at = "idle"
    /\ Begin("service", "Disconnecting") \/ (service = "run" /\ UNCHANGED transport)
    /\ service' = "offline"
    /\ UNCHANGED <<mainThread, poolVars, stops, exit, console, handler, outbound, guiThread, sent,
                   observed, limits>>

RunOffline ==
    /\ service = "offline"
    /\ Begin("service", "Offline")
    /\ service' = "done"
    /\ UNCHANGED <<mainThread, poolVars, stops, exit, console, handler, outbound, guiThread, sent,
                   observed, limits>>

RunReturns ==
    /\ service = "done" /\ transport["service"].at = "idle"
    /\ Settle("messaging", "value")
    /\ service' = "ended"
    /\ UNCHANGED <<mainThread, stops, exit, console, handler, outbound, guiThread, transport, sent,
                   observed, limits>>

(* Subscribe or Run throws: the task catches it and ends. *)
RunThrows ==
    /\ service \in {"subscribe", "run"} /\ transport["service"].at = "idle"
    /\ Fault
    /\ Settle("messaging", "value")
    /\ service' = "ended"
    /\ UNCHANGED <<mainThread, stops, exit, console, handler, outbound, guiThread, transport, sent,
                   observed, edits, changes>>

---------------------------------------------------------------------------
(* One frame of ShowMqttConsole *)

messageTypeLabels ==
    <<"execute_script", "send_to_device", "cmd_to_device", "store_database_value", "query_AI_prompt">>

VisibleFields(type) ==
    CASE type = 0 -> {"script_name"}
      [] type = 1 -> {"device_id", "payload"}
      [] type = 2 -> {"device_id", "command"}
      [] type = 3 -> {"key", "value"}
      [] type = 4 -> {"prompt"}

(* The frame loop ends when the storage has reported a failure, and by     *)
(* itself when the window is hidden.                                       *)
MustClose ==
    \/ guiThread.at = "closing"
    \/ guiThread.at = "idle" /\ future["sql"] \in Pool!Settled

GuiSnapshot ==
    /\ Running("gui") /\ guiThread.at = "idle" /\ ~MustClose
    /\ guiThread' = [at |-> "form", copy |-> console]
    /\ UNCHANGED <<mainThread, poolVars, stops, exit, console, handler, outbound, transport,
                   service, sent, observed, limits>>

(* The user changes one widget, or none, and the form is stored. *)
Edited(form) ==
    {[form EXCEPT !.type = t] : t \in MessageTypes}
    \cup {[form EXCEPT !.clientId = id] : id \in ClientIds}
    \cup {[form EXCEPT !.fields[f] = text] : f \in VisibleFields(form.type), text \in Texts}

UpdateConsoleForm ==
    /\ guiThread.at = "form"
    /\ \/ /\ guiThread' = [guiThread EXCEPT !.at = "button"]
          /\ console' = FormOnly(guiThread.copy)
          /\ UNCHANGED <<typed, edits>>
       \/ \E form \in Edited(guiThread.copy.form) \ {guiThread.copy.form} :
             /\ edits < MaxEdits
             /\ edits' = edits + 1
             /\ guiThread' = [at |-> "button", copy |-> [guiThread.copy EXCEPT !.form = form]]
             /\ console' = FormOnly([guiThread.copy EXCEPT !.form = form])
             /\ typed' = form
    /\ UNCHANGED <<mainThread, poolVars, stops, exit, handler, outbound, transport, service,
                   sent, overwritten, shown, changes, failures>>

NoButton ==
    /\ guiThread.at = "button"
    /\ guiThread' = [at |-> "idle", copy |-> Nothing]
    /\ UNCHANGED <<mainThread, poolVars, stops, exit, console, handler, outbound, transport,
                   service, sent, observed, limits>>

Request(form) ==
    [id |-> form.clientId \o <<"word", "word">>, type |-> form.type, created_utc |-> <<"space">>,
     source_client_id |-> form.clientId, fields |-> form.fields]

Requests == IF sent = Nothing THEN 0 ELSE sent.number

(* The button, DispatchOutbound and the call of the handler. Publish       *)
(* reports what it cannot hand to a client by itself, on this thread, and  *)
(* returns; the request is recorded all the same.                          *)
Send ==
    /\ guiThread.at = "button"
    /\ \/ /\ handler
          /\ Requests < MaxRequests
          /\ sent' = [number |-> Requests + 1, form |-> guiThread.copy.form, typed |-> typed,
                      lost |-> overwritten]
          /\ guiThread' = [guiThread EXCEPT !.at = "record"]
          /\ Begin("gui", Nothing) \/ UNCHANGED transport
          /\ UNCHANGED failures
       \/ /\ Fault
          /\ guiThread' = [at |-> "idle", copy |-> Nothing]
          /\ UNCHANGED <<sent, transport>>
    /\ UNCHANGED <<mainThread, poolVars, stops, exit, console, handler, outbound,
                   service, observed, edits, changes>>

AddOutbound ==
    /\ guiThread.at = "record" /\ transport["gui"].at = "idle"
    /\ outbound' = AddBounded(outbound, sent.number)
    /\ guiThread' = [at |-> "idle", copy |-> Nothing]
    /\ UNCHANGED <<mainThread, poolVars, stops, exit, console, handler, transport, service,
                   sent, observed, limits>>

(* The user closes the window, a hidden one is closed, or a failed result  *)
(* of the storage ends the loop; ImGuiStart returns, or throws.            *)
GuiReturns ==
    /\ guiThread.at \in {"idle", "closing"}
    /\ Settle("gui", "value")
    /\ guiThread' = [at |-> "ended", copy |-> Nothing]
    /\ UNCHANGED <<mainThread, stops, exit, console, handler, outbound, transport, service,
                   sent, observed, limits>>

GuiThrows ==
    /\ guiThread.at \in {"idle", "form", "button", "closing"}
    /\ Fault
    /\ Settle("gui", "exception")
    /\ guiThread' = [at |-> "ended", copy |-> Nothing]
    /\ UNCHANGED <<mainThread, stops, exit, console, handler, outbound, transport, service,
                   sent, observed, edits, changes>>

---------------------------------------------------------------------------

MainStep == Start \/ Enqueue \/ GuiReturned \/ Join \/ ClosePool \/ DrainPool
WorkerStep ==
    \/ StartTask \/ (\E t \in Tasks : TaskReturns(t))
    \/ SubscribeAcks \/ RunStops \/ RunOffline \/ RunReturns
TransportStep == \E w \in Threads : SnapshotConsole(w) \/ UpdateConsole(w)
FrameStep == UpdateConsoleForm \/ NoButton \/ AddOutbound

(* The application has returned, or waits for a Run that nobody wakes. *)
Finished ==
    /\ mainThread = "returned" \/ service = "missed"
    /\ \A w \in Threads : transport[w].at = "idle"
    /\ UNCHANGED applicationVars

ApplicationNext ==
    \/ MainStep \/ StartThrows \/ EnqueueThrows
    \/ WorkerStep \/ StorageFails \/ RunThrows
    \/ TransportStep
    \/ \E s \in {"Connecting", "Error"} : SetStatus(s)
    \/ \E s \in {"Connected", "Reconnecting", "Error"} : CallbackStatus(s)
    \/ \E w \in {"service", "callback"} : ReportError(w)
    \/ FrameStep \/ GuiSnapshot \/ Send \/ GuiReturns \/ GuiThrows
    \/ Finished

(* The scheduler runs every thread that can go on. Nothing makes the user  *)
(* close the window, except that a hidden one closes by itself.            *)
Fairness ==
    /\ WF_applicationVars(MainStep)
    /\ WF_applicationVars(StartTask)
    /\ \A t \in {"sql", "asyncIo"} : WF_applicationVars(TaskReturns(t))
    /\ WF_applicationVars(SubscribeAcks \/ RunStops \/ RunOffline \/ RunReturns)
    /\ \A w \in Threads : WF_applicationVars(SnapshotConsole(w) \/ UpdateConsole(w))
    /\ WF_applicationVars(FrameStep)
    /\ WF_applicationVars(MustClose /\ GuiReturns)

ApplicationSpec == ApplicationInit /\ [][ApplicationNext]_applicationVars /\ Fairness

---------------------------------------------------------------------------
(* Properties *)

(* A frame that has read the console before a status change does not undo  *)
(* it when it stores its form: the console shows what a thread of the      *)
(* transport wrote last (UpdateConsoleForm against UpdateConsole).         *)
StatusKeptByForm == console.status = shown

(* What the user typed and selected is what the server parses, for every   *)
(* type and for texts that need escapes, provided that the client ID is    *)
(* one that can be answered, that no control character was pasted and that *)
(* no status change has undone an edit: ShowMqttConsole,                   *)
(* SerializeRequest and ParseRequest, whose lists of types must agree.     *)
RequestArrivesAsTyped ==
    (/\ sent # Nothing /\ ~sent.lost
     /\ IsValidClientId(sent.typed.clientId)
     /\ \A f \in OptionalFields : \A k \in DOMAIN sent.typed.fields[f] :
           sent.typed.fields[f][k] # "control")
    => LET parsed == ParseRequest(SerializeRequest(Request(sent.form)))
       IN /\ parsed.accepted
          /\ MessageTypeToString(parsed.request.type) = messageTypeLabels[sent.typed.type + 1]
          /\ parsed.request.source_client_id = sent.typed.clientId
          /\ parsed.request.fields = sent.typed.fields

(* The GUI, which is submitted last, gets a worker although none of the    *)
(* tasks before it returns by itself; and once the GUI has ended, by       *)
(* whatever way, or a task could not be submitted, every task ends and the *)
(* application returns: runGui and the destructor of its pool. Except if   *)
(* Run has missed the stop request while connected and nothing that the    *)
(* connection reports wakes it: then main waits for the messaging task.    *)
ApplicationEnds ==
    /\ future["gui"] = "queued" ~> future["gui"] # "queued"
    /\ (MustClose \/ guiThread.at = "ended" \/ mainThread = "close")
          ~> (mainThread = "returned" \/ [](service = "missed"))
=============================================================================
