--------------------------- MODULE DeviceMonitor ----------------------------
(***************************************************************************)
(* The device list of the GUI and the storage behind it: the editing       *)
(* state DeviceMonitorState, the frame loop RunGuiLifecycle with its       *)
(* platform stages, PumpStorage between the two, and the worker of         *)
(* DeviceStorageService, which main.cpp starts on a pool thread            *)
(* (ExecutionMode::CallingThread).                                         *)
(*                                                                         *)
(* Edits are shown at once and sent as commands; every executed batch      *)
(* answers with the whole list, which replaces the one that is shown.  A   *)
(* device is its data and its alive flag; the data is one of a small set   *)
(* of values, some of which the draft accepts and the storage refuses.     *)
(* ImGui, GLFW and SQLite are external: a click is an input, a stage may   *)
(* fail, a statement may fail.                                             *)
(***************************************************************************)
EXTENDS Naturals, Sequences, SequencesExt

CONSTANTS
    Ids,         \* device IDs
    Data,        \* names, addresses and ports that ValidateDraft accepts
    Storable,    \* those the database accepts as well
    MaxActions,  \* how often the user clicks something
    MaxFaults,   \* stages and statements that fail
    None

ASSUME DataAssumption == Storable \subseteq Data /\ None \notin Ids \cup Data

VARIABLES
    devices,        \* devices_
    editor,         \* editor_
    pendingDelete,  \* pendingDeleteId_
    error,          \* whether error_ holds a text
    commands,       \* commands_
    exitRequested,  \* exitRequested_
    queue,          \* DeviceStorageService::commands_
    results,        \* results_
    stop,           \* stopSource_ was asked to stop
    worker,         \* the place of the thread in DeviceStorageService::Run
    batch,          \* the batch it has taken
    db,             \* external: the rows of the file
    gui,            \* the place of the GUI thread
    held,           \* platform stages that have been set up
    shouldClose,    \* external: the window's close flag
    backgroundError,
    guiResult,      \* what ImGuiStart returns
    main,           \* the place of the main thread after it started the GUI
    appResult,      \* what runGui returns
    submitted,      \* history: the rows if every submitted command is executed
    failed,         \* history: a result with success = false was produced
    actions, faults

state == <<devices, editor, pendingDelete, error, commands, exitRequested>>
storage == <<queue, results, stop, worker, batch, db>>
platform == <<gui, held, shouldClose, backgroundError, guiResult>>
application == <<main, appResult>>
history == <<submitted, failed>>
bounds == <<actions, faults>>
vars == <<state, storage, platform, application, history, bounds>>

-----------------------------------------------------------------------------
(* Devices, drafts and commands.                                           *)

DeviceViewModel == [data : Data, alive : BOOLEAN]
DeviceDraft == [id : Ids \cup {None}, data : Data \cup {None}, alive : BOOLEAN]
DeviceEditorState(mode, id, draft) ==
    [mode |-> mode, originalId |-> id, draft |-> draft]

DeviceCommand(kind, id, device) ==
    [kind |-> kind, targetId |-> id, device |-> device]
Refresh == DeviceCommand("Refresh", None, None)

\* FindDevice(id) != devices_.end()
FindDevice(id) == id \in Ids /\ devices[id] # None

\* An empty field or a port out of range, None, is refused.
ValidateDraft(draft) == draft.id # None /\ draft.data # None

\* The database refuses an ID it already has, and data it cannot store.
Refuses(rows, command) ==
    \/ command.kind = "Add" /\ rows[command.targetId] # None
    \/ /\ command.kind \in {"Add", "Edit", "SetAlive"}
       /\ command.device.data \notin Storable

Apply(rows, command) ==
    IF command.kind = "Refresh" THEN rows
    ELSE [rows EXCEPT ![command.targetId] = command.device]

\* A batch is executed up to the first command that is refused, and what it
\* has executed stays.
Perform(rows, list) ==
    LET sofar[n \in 0..Len(list)] ==
            IF n = 0 THEN [rows |-> rows, success |-> TRUE]
            ELSE IF sofar[n - 1].success /\ ~Refuses(sofar[n - 1].rows, list[n])
                 THEN [rows |-> Apply(sofar[n - 1].rows, list[n]), success |-> TRUE]
                 ELSE [rows |-> sofar[n - 1].rows, success |-> FALSE]
    IN sofar[Len(list)]

-----------------------------------------------------------------------------
(* DeviceMonitorState: what the widgets of one frame can call.             *)

Failing == UNCHANGED <<devices, editor, pendingDelete, commands>> /\ error' = TRUE

RequestRefresh ==
    /\ commands' = Append(commands, Refresh)
    /\ UNCHANGED <<devices, editor, pendingDelete, error>>

BeginAdd ==
    /\ error' = FALSE
    /\ editor' = DeviceEditorState("Add", None,
                      [id |-> None, data |-> None, alive |-> FALSE])
    /\ UNCHANGED <<devices, pendingDelete, commands>>

BeginEdit(id) ==
    IF FindDevice(id)
    THEN /\ error' = FALSE
         /\ editor' = DeviceEditorState("Edit", id,
                           [id |-> id, data |-> devices[id].data,
                            alive |-> devices[id].alive])
         /\ UNCHANGED <<devices, pendingDelete, commands>>
    ELSE Failing

CancelEditor ==
    /\ editor' = None
    /\ UNCHANGED <<devices, pendingDelete, error, commands>>

\* The fields of the open editor write to the draft; the ID of an existing
\* device is disabled.  The user leaves the alive box ticked.
Typed == {draft \in DeviceDraft : draft.alive}

TypeDraft(draft) ==
    /\ editor # None
    /\ editor.mode = "Edit" => draft.id = editor.originalId
    /\ editor' = [editor EXCEPT !.draft = draft]
    /\ UNCHANGED <<devices, pendingDelete, error, commands>>

SubmitEditor ==
    LET draft == editor.draft
        device == [data |-> draft.data, alive |-> draft.alive]
        adding == editor.mode = "Add"
    IN  /\ editor # None
        /\ IF /\ ValidateDraft(draft)
              /\ IF adding THEN ~FindDevice(draft.id)
                           ELSE /\ draft.id = editor.originalId
                                /\ FindDevice(editor.originalId)
           THEN /\ devices' = [devices EXCEPT ![draft.id] = device]
                /\ commands' = Append(commands,
                       DeviceCommand(IF adding THEN "Add" ELSE "Edit", draft.id, device))
                /\ editor' = None
                /\ error' = FALSE
                /\ UNCHANGED pendingDelete
           ELSE Failing

RequestDelete(id) ==
    IF FindDevice(id)
    THEN pendingDelete' = id /\ UNCHANGED <<devices, editor, error, commands>>
    ELSE Failing

CancelDelete ==
    /\ pendingDelete' = None
    /\ UNCHANGED <<devices, editor, error, commands>>

ConfirmDelete ==
    /\ pendingDelete # None
    /\ pendingDelete' = None
    /\ UNCHANGED editor
    /\ IF FindDevice(pendingDelete)
       THEN /\ devices' = [devices EXCEPT ![pendingDelete] = None]
            /\ commands' = Append(commands, DeviceCommand("Delete", pendingDelete, None))
            /\ error' = FALSE
       ELSE error' = TRUE /\ UNCHANGED <<devices, commands>>

SetAlive(id, alive) ==
    IF FindDevice(id)
    THEN LET device == [devices[id] EXCEPT !.alive = alive]
         IN  /\ devices' = [devices EXCEPT ![id] = device]
             /\ commands' = Append(commands, DeviceCommand("SetAlive", id, device))
             /\ error' = FALSE
             /\ UNCHANGED <<editor, pendingDelete>>
    ELSE Failing

ClearError ==
    /\ error
    /\ error' = FALSE
    /\ UNCHANGED <<devices, editor, pendingDelete, commands>>

-----------------------------------------------------------------------------
(* What the widgets offer.  A popup is modal: while it is open, only its    *)
(* own buttons work.                                                       *)

\* One row per device that is listed.
ShowDeviceTable ==
    \E id \in Ids :
        /\ FindDevice(id)
        /\ \/ SetAlive(id, ~devices[id].alive)
           \/ BeginEdit(id)
           \/ RequestDelete(id)

ShowEditor ==
    /\ editor # None
    /\ \/ \E draft \in Typed : TypeDraft(draft)
       \/ SubmitEditor
       \/ CancelEditor

ShowDeleteConfirmation ==
    /\ pendingDelete # None
    /\ ConfirmDelete \/ CancelDelete

ShowWatchlistAppContent ==
    \/ /\ editor = None /\ pendingDelete = None
       /\ \/ RequestRefresh
          \/ BeginAdd
          \/ ClearError
          \/ ShowDeviceTable
    \/ ShowEditor
    \/ ShowDeleteConfirmation

-----------------------------------------------------------------------------
(* The platform stages, in the order in which RunGuiLifecycle sets them up. *)
(* InitializeOpenGl has no owner: nothing undoes it.                       *)

Stages == <<"Glfw", "Window", "OpenGl", "Context", "GlfwBackend", "OpenGlBackend">>

\* Creating the ImGui context is the only stage that does not throw.
MayThrow(stage) == stage # "Context"

Stop(result) ==
    /\ gui' = "unwinding"
    /\ guiResult' = result

InitializeStage ==
    /\ gui = "starting"
    /\ LET stage == Stages[Len(held) + 1]
       IN  \/ /\ held' = Append(held, stage)
              /\ gui' = IF held' = Stages THEN "looping" ELSE "starting"
              /\ UNCHANGED <<guiResult, faults>>
           \/ /\ MayThrow(stage)
              /\ faults < MaxFaults
              /\ faults' = faults + 1
              /\ Stop("failure")
              /\ UNCHANGED held
    /\ UNCHANGED <<state, storage, shouldClose, backgroundError, application,
                   history, actions>>

\* ~StageOwner, last stage first.
AfterDestroy == Front(held)

DestroyStage ==
    /\ gui = "unwinding"
    /\ held # <<>>
    /\ held' = AfterDestroy
    /\ UNCHANGED <<state, storage, gui, shouldClose, backgroundError, guiResult,
                   application, history, bounds>>

\* The condition of the frame loop, and glfwPollEvents in BeginFrame, during
\* which the window can be told to close.
BeginFrame ==
    /\ gui = "looping"
    /\ IF shouldClose
       THEN Stop("success") /\ UNCHANGED shouldClose
       ELSE /\ gui' = "pumping"
            /\ shouldClose' \in BOOLEAN
            /\ UNCHANGED guiResult
    /\ UNCHANGED <<state, storage, held, backgroundError, application, history,
                   bounds>>

\* ConsumeCommands and Submit, each of which empties what it takes.
Submitting ==
    /\ queue' = IF commands = <<>> THEN queue ELSE Append(queue, commands)
    /\ commands' = <<>>
    /\ submitted' = Perform(submitted, commands).rows

\* Where the results are that a pump uses: before the first failure.
Received == {i \in DOMAIN results : \A j \in 1..i : results[j].success}

\* Mutant of ReplaceDevices: of several results the oldest stays.
ReplacedByFirst(used) ==
    IF used = {} THEN UNCHANGED <<devices, error>>
    ELSE devices' = results[Min(used)].devices /\ error' = FALSE

\* ReplaceDevices with each of the results that are used, in turn.
ReplaceDevices(used) ==
    IF used = {} THEN UNCHANGED <<devices, error>>
    ELSE devices' = results[Max(used)].devices /\ error' = FALSE

PumpStorage ==
    /\ gui = "pumping"
    /\ Submitting
    /\ results' = <<>>
    /\ IF Received = DOMAIN results
       THEN /\ ReplaceDevices(Received)
            /\ UNCHANGED <<stop, exitRequested, shouldClose, backgroundError>>
       ELSE /\ stop' = TRUE
            /\ devices' = IF Received = {} THEN devices ELSE results[Max(Received)].devices
            /\ error' = TRUE
            /\ exitRequested' = TRUE
            /\ shouldClose' = TRUE
            /\ backgroundError' = TRUE
    /\ gui' = "drawing"
    /\ UNCHANGED <<editor, pendingDelete, worker, batch, db, held, guiResult,
                   application, failed, bounds>>

\* Mutant of ClosesAfter: the frame loop does not look at ExitRequested.
ExitIgnored(exit) == shouldClose

\* RequestClose once the exit is requested.
ClosesAfter(exit) == shouldClose \/ exit

\* ShowWindow draws nothing once the exit was requested.  The Escape key
\* and the Exit button request it.
DrawFrame ==
    /\ gui = "drawing"
    /\ gui' = "ending"
    /\ \/ UNCHANGED <<devices, editor, pendingDelete, error, commands, actions>>
       \/ /\ ~exitRequested
          /\ actions < MaxActions
          /\ actions' = actions + 1
          /\ ShowWatchlistAppContent
    /\ \E escape \in BOOLEAN : exitRequested' = (exitRequested \/ escape)
    /\ shouldClose' = ClosesAfter(exitRequested')
    /\ UNCHANGED <<storage, held, backgroundError, guiResult, application,
                   history, faults>>

EndFrame ==
    /\ gui = "ending"
    /\ IF backgroundError THEN Stop("failure")
                          ELSE gui' = "looping" /\ UNCHANGED guiResult
    /\ UNCHANGED <<state, storage, held, shouldClose, backgroundError,
                   application, history, bounds>>

\* BeginFrame, DrawFrame or EndFrame throws, and RunGuiLifecycle returns what
\* it caught.
FrameThrows ==
    /\ gui \in {"looping", "drawing", "ending"}
    /\ gui = "looping" => ~shouldClose
    /\ faults < MaxFaults
    /\ faults' = faults + 1
    /\ Stop("failure")
    /\ UNCHANGED <<state, storage, held, shouldClose, backgroundError,
                   application, history, actions>>

\* ImGuiStart after RunGuiLifecycle: RequestStop, no thread of its own to
\* join, and the results there are at that moment.
StopAndDrain ==
    /\ gui = "unwinding"
    /\ held = <<>>
    /\ gui' = "returned"
    /\ stop' = TRUE
    /\ results' = <<>>
    /\ LET good == {i \in DOMAIN results : results[i].success}
       IN  /\ ReplaceDevices(good)
           /\ guiResult' = IF good = DOMAIN results THEN guiResult ELSE "failure"
    /\ UNCHANGED <<editor, pendingDelete, commands, exitRequested, queue, worker,
                   batch, db, held, shouldClose, backgroundError, application,
                   history, bounds>>

-----------------------------------------------------------------------------
(* The storage worker.                                                     *)

Report(success, rows) ==
    /\ results' = Append(results, [success |-> success, devices |-> rows])
    /\ failed' = (failed \/ ~success)

\* runStarted_ is set once: main.cpp starts the worker once.  A failing
\* Initialize ends it.
Initialize ==
    /\ worker = "starting"
    /\ \/ /\ worker' = "waiting"
          /\ UNCHANGED <<results, failed, faults>>
       \/ /\ faults < MaxFaults
          /\ faults' = faults + 1
          /\ Report(FALSE, [id \in Ids |-> None])
          /\ worker' = "returned"
    /\ UNCHANGED <<state, queue, stop, batch, db, platform, application,
                   submitted, actions>>

\* condition_.wait with the stop token.
Awake == queue # <<>> \/ stop

\* The worker leaves only when the queue is empty and a stop was requested.
Take ==
    /\ worker = "waiting"
    /\ Awake
    /\ IF queue = <<>>
       THEN worker' = "returned" /\ UNCHANGED <<queue, batch>>
       ELSE /\ batch' = Head(queue)
            /\ queue' = Tail(queue)
            /\ worker' = "executing"
    /\ UNCHANGED <<state, results, stop, db, platform, application, history,
                   bounds>>

\* Execute: the commands up to a refused one, or up to a statement that
\* fails, then the whole list.
Execute ==
    /\ worker = "executing"
    /\ worker' = "waiting"
    /\ batch' = <<>>
    /\ \/ LET outcome == Perform(db, batch)
          IN  /\ db' = outcome.rows
              /\ Report(outcome.success,
                        IF outcome.success THEN db' ELSE [id \in Ids |-> None])
              /\ UNCHANGED faults
       \/ /\ faults < MaxFaults
          /\ faults' = faults + 1
          /\ \E done \in 0..Len(batch) :
                 db' = Perform(db, SubSeq(batch, 1, done)).rows
          /\ Report(FALSE, [id \in Ids |-> None])
    /\ UNCHANGED <<state, queue, stop, platform, application, submitted, actions>>

-----------------------------------------------------------------------------
(* The main thread, once guiFuture is ready.                               *)

RequestStop ==
    /\ main = "waiting"
    /\ gui = "returned"
    /\ main' = "joining"
    /\ stop' = TRUE
    /\ UNCHANGED <<state, queue, results, worker, batch, db, platform, appResult,
                   history, bounds>>

\* Mutant of FinalResult: the results of the last batches are not looked at.
GuiResultOnly == guiResult

\* Success becomes failure if one of the last results is one.
FinalResult == IF Received = DOMAIN results THEN guiResult ELSE "failure"

\* sqlFuture.get(), then the results that came after StopAndDrain.
PollLastResults ==
    /\ main = "joining"
    /\ worker = "returned"
    /\ main' = "returned"
    /\ results' = <<>>
    /\ appResult' = FinalResult
    /\ UNCHANGED <<state, queue, stop, worker, batch, db, platform, history,
                   bounds>>

Returned == main = "returned" /\ UNCHANGED vars

-----------------------------------------------------------------------------

\* --gui-smoke requests the exit before the first frame.  The constructor of
\* DeviceStorageService submits a Refresh.
Init ==
    /\ devices = [id \in Ids |-> None]
    /\ editor = None
    /\ pendingDelete = None
    /\ error = FALSE
    /\ commands = <<>>
    /\ exitRequested \in BOOLEAN
    /\ queue = << <<Refresh>> >>
    /\ results = <<>>
    /\ stop = FALSE
    /\ worker = "starting"
    /\ batch = <<>>
    /\ db \in [Ids -> [data : Storable, alive : {TRUE}] \cup {None}]
    /\ gui = "starting"
    /\ held = <<>>
    /\ shouldClose = FALSE
    /\ backgroundError = FALSE
    /\ guiResult = "success"
    /\ main = "waiting"
    /\ appResult = "success"
    /\ submitted = db
    /\ failed = FALSE
    /\ actions = 0
    /\ faults = 0

Gui == \/ InitializeStage \/ DestroyStage
       \/ BeginFrame \/ PumpStorage \/ DrawFrame \/ EndFrame \/ FrameThrows
       \/ StopAndDrain
Storage == Initialize \/ Take \/ Execute
Main == RequestStop \/ PollLastResults

Next == Gui \/ Storage \/ Main \/ Returned

\* The three threads are scheduled.  Nothing obliges the user to click.
Spec == Init /\ [][Next]_vars /\ WF_vars(Gui) /\ WF_vars(Storage) /\ WF_vars(Main)

-----------------------------------------------------------------------------

\* Results older than an edit overwrite the list that shows it, but not for
\* good: whenever no command is on its way and no answer is unread, the list
\* on screen is what the file holds, and both are what the commands asked for.
Converged ==
    /\ commands = <<>> /\ queue = <<>> /\ results = <<>>
    /\ worker = "waiting" /\ gui # "returned" /\ ~failed
    => devices = db /\ db = submitted

\* A storage failure is never swallowed: runGui reports success only if no
\* initialisation and no batch failed, whichever of the three places that read
\* results saw it.  Then every submitted command is in the file, and only what
\* was clicked in the very last frame, after its pump, was not submitted.
SavedOrReported ==
    main = "returned" /\ appResult = "success"
    => ~failed /\ db = submitted /\ Len(commands) <= 1

\* A failure of the storage, a closed window and a requested exit all end the
\* application, with the storage worker joined.
Ends ==
    (failed \/ shouldClose \/ exitRequested) ~> (main = "returned")
=============================================================================
