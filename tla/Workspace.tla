----------------------------- MODULE Workspace ------------------------------
(***************************************************************************)
(* One frame of the GUI as ShowWindow draws it (MyApp.cpp): the rail, the  *)
(* central application, the detached ones (DetachableAppWorkspace.cpp) and *)
(* the log window (ApplicationLogWindow.cpp), which follows the bounded    *)
(* list of the logger (Logger.cpp) by sequence number while other threads  *)
(* log.                                                                    *)
(*                                                                         *)
(* In a frame the user clicks at most one widget.  A log entry is its      *)
(* sequence number and its level; rendering an application is counted.     *)
(* ImGui is external: whether a window is visible is an input.             *)
(***************************************************************************)
EXTENDS Naturals, Sequences, SequencesExt

CONSTANTS
    Applications,         \* detachable applications
    Levels,               \* log levels
    MaxLogEntries,        \* bound of the logger's list
    MaxDisplayedEntries,  \* bound of the window's list
    MaxLogged             \* entries that are logged at all

ASSUME BoundsAssumption ==
    /\ MaxLogEntries \in Nat \ {0}
    /\ MaxDisplayedEntries \in Nat
    /\ MaxDisplayedEntries >= MaxLogEntries

VARIABLES
    entries,          \* LoggerState::entries
    nextSequence,     \* LoggerState::nextSequence
    output,           \* records written to the stream, 0 for the fallback text
    terminated,       \* LogFatal has terminated the process
    activeApplication, detached, showApplicationMap,  \* WorkspaceState
    showApplicationLog,
    displayedEntries, lastSequence, severityEnabled,  \* of ShowApplicationLog
    exitClicked,
    step,             \* how far the frame has come
    clicked,          \* the user has clicked something in this frame
    rendered,         \* how often each application was rendered in this frame
    visible,          \* external: whether ImGui shows the windows
    clearedUpTo       \* history: the last sequence number that was cleared

logger == <<entries, nextSequence, output, terminated>>
workspace == <<activeApplication, detached, showApplicationMap>>
window == <<displayedEntries, lastSequence, severityEnabled>>
frame == <<step, clicked, rendered, visible>>
workspaceVars == <<logger, workspace, window, showApplicationLog, exitClicked, frame,
                   clearedUpTo>>

LastOf(list, bound) ==
    IF Len(list) <= bound THEN list
    ELSE SubSeq(list, Len(list) - bound + 1, Len(list))

\* A loop that pushes the elements at some positions to a new list.
Picked(list, positions) ==
    LET result[n \in 0..Len(list)] ==
            IF n = 0 THEN <<>>
            ELSE IF n \in positions THEN Append(result[n - 1], list[n])
            ELSE result[n - 1]
    IN result[Len(list)]

-----------------------------------------------------------------------------
(* The logger.                                                             *)

\* Sequence number, list and stream change under one lock; formatting comes
\* before it and may throw, which writes a fixed text instead.
EmitLogRecord(level) ==
    /\ nextSequence <= MaxLogged
    /\ \/ /\ entries' = LastOf(Append(entries, [sequence |-> nextSequence, level |-> level]),
                               MaxLogEntries)
          /\ nextSequence' = nextSequence + 1
          /\ output' = Append(output, nextSequence)
       \/ /\ output' = Append(output, 0)
          /\ Len(output) < MaxLogged
          /\ UNCHANGED <<entries, nextSequence>>

\* A fatal record is written before the process ends.
Log(level) ==
    /\ ~terminated
    /\ EmitLogRecord(level)
    /\ terminated' = (level = "Fatal")
    /\ UNCHANGED <<workspace, window, showApplicationLog, exitClicked, frame,
                   clearedUpTo>>

GetLogEntriesSince(sequence) ==
    Picked(entries, {i \in DOMAIN entries : entries[i].sequence > sequence})

\* Mutant of SequenceAfterClear: a cleared log counts from one again.
SequenceRestarts == 1

\* ClearLogEntries keeps the sequence.
SequenceAfterClear == nextSequence

-----------------------------------------------------------------------------
(* The frame, window by window.                                            *)

Frame(from, to) ==
    /\ ~terminated
    /\ step = from
    /\ step' = to

Click == ~clicked /\ clicked' = TRUE
NoClick == UNCHANGED clicked

\* ShowWindow returns at once when the exit was requested.  F12 shows or hides
\* the log.
BeginWindow ==
    /\ Frame("begin", "rail")
    /\ ~exitClicked
    /\ clicked' = FALSE
    /\ rendered' = [app \in Applications |-> 0]
    /\ visible' \in BOOLEAN
    /\ showApplicationLog' \in {showApplicationLog, ~showApplicationLog}
    /\ UNCHANGED <<logger, workspace, window, exitClicked, clearedUpTo>>

\* Selects, attaches or detaches an application, toggles the log, opens the map
\* or exits.
ShowApplicationRail ==
    /\ Frame("rail", "central")
    /\ \/ NoClick /\ UNCHANGED <<workspace, showApplicationLog, exitClicked>>
       \/ /\ Click /\ visible
          /\ \/ /\ \E app \in Applications :
                       /\ activeApplication' = app
                       /\ \/ UNCHANGED detached
                          \/ detached' = [detached EXCEPT ![app] = ~@]
                /\ UNCHANGED <<showApplicationMap, showApplicationLog, exitClicked>>
             \/ /\ showApplicationLog' = ~showApplicationLog
                /\ UNCHANGED <<workspace, exitClicked>>
             \/ /\ showApplicationMap' = TRUE
                /\ UNCHANGED <<activeApplication, detached, showApplicationLog,
                               exitClicked>>
             \/ /\ exitClicked' = TRUE
                /\ UNCHANGED <<workspace, showApplicationLog>>
    /\ UNCHANGED <<logger, window, rendered, visible, clearedUpTo>>

Render(apps) ==
    rendered' = [app \in Applications |->
                     IF visible /\ app \in apps THEN rendered[app] + 1 ELSE rendered[app]]

\* Mutant of RenderedInCenter: an application that is detached stays in the
\* center.
AlwaysInCenter(now) == {activeApplication}

\* What the center renders, given which applications are detached now.
RenderedInCenter(now) == IF now[activeApplication] THEN {} ELSE {activeApplication}

\* The button of the center comes before its content.
ShowCentralApplication ==
    /\ Frame("central", "detached")
    /\ \/ NoClick /\ UNCHANGED detached
       \/ Click /\ visible /\ detached' = [detached EXCEPT ![activeApplication] = ~@]
    /\ Render(RenderedInCenter(detached'))
    /\ UNCHANGED <<logger, activeApplication, showApplicationMap, window,
                   showApplicationLog, exitClicked, visible, clearedUpTo>>

\* A detached window is drawn, then attached again if the user closed it.
ShowDetachedApplications ==
    /\ Frame("detached", "map")
    /\ Render({app \in Applications : detached[app]})
    /\ \/ NoClick /\ UNCHANGED detached
       \/ /\ Click
          /\ \E app \in Applications :
                 detached[app] /\ detached' = [detached EXCEPT ![app] = FALSE]
    /\ UNCHANGED <<logger, activeApplication, showApplicationMap, window,
                   showApplicationLog, exitClicked, visible, clearedUpTo>>

ShowApplicationMap ==
    /\ Frame("map", IF showApplicationLog THEN "log" ELSE "begin")
    /\ \/ NoClick /\ UNCHANGED showApplicationMap
       \/ Click /\ showApplicationMap /\ showApplicationMap' = FALSE
    /\ UNCHANGED <<logger, activeApplication, detached, window, showApplicationLog,
                   exitClicked, rendered, visible, clearedUpTo>>

\* The first part of ShowApplicationLog: new entries are taken over.  A window
\* that ImGui does not show ends here.
ReadLog ==
    /\ Frame("log", IF visible THEN "buttons" ELSE "begin")
    /\ LET newEntries == GetLogEntriesSince(lastSequence)
       IN  /\ displayedEntries' = LastOf(displayedEntries \o newEntries, MaxDisplayedEntries)
           /\ lastSequence' = IF newEntries = <<>> THEN lastSequence
                              ELSE Last(newEntries).sequence
    /\ UNCHANGED <<logger, workspace, severityEnabled, showApplicationLog,
                   exitClicked, clicked, rendered, visible, clearedUpTo>>

\* Clear, the severity filters and the window's close button.  Entries that
\* came since the first part are cleared unseen.
LogButtons ==
    /\ Frame("buttons", "begin")
    /\ \/ /\ NoClick
          /\ UNCHANGED <<entries, nextSequence, displayedEntries, severityEnabled,
                         showApplicationLog, clearedUpTo>>
       \/ /\ Click
          /\ entries' = <<>>
          /\ nextSequence' = SequenceAfterClear
          /\ displayedEntries' = <<>>
          /\ clearedUpTo' = nextSequence - 1
          /\ UNCHANGED <<severityEnabled, showApplicationLog>>
       \/ /\ Click
          /\ \E level \in Levels :
                 severityEnabled' = [severityEnabled EXCEPT ![level] = ~@]
          /\ UNCHANGED <<entries, nextSequence, displayedEntries,
                         showApplicationLog, clearedUpTo>>
       \/ /\ Click
          /\ showApplicationLog' = FALSE
          /\ UNCHANGED <<entries, nextSequence, displayedEntries, severityEnabled,
                         clearedUpTo>>
    /\ UNCHANGED <<output, terminated, workspace, lastSequence, exitClicked,
                   rendered, visible>>

\* The rows that are drawn.
VisibleRows ==
    Picked(displayedEntries,
           {i \in DOMAIN displayedEntries : severityEnabled[displayedEntries[i].level]})

Ended == (terminated \/ (exitClicked /\ step = "begin")) /\ UNCHANGED workspaceVars

-----------------------------------------------------------------------------

WorkspaceInit ==
    /\ entries = <<>>
    /\ nextSequence = 1
    /\ output = <<>>
    /\ terminated = FALSE
    /\ activeApplication \in Applications
    /\ detached = [app \in Applications |-> FALSE]
    /\ showApplicationMap = FALSE
    /\ showApplicationLog = TRUE
    /\ displayedEntries = <<>>
    /\ lastSequence = 0
    /\ severityEnabled = [level \in Levels |-> TRUE]
    /\ exitClicked = FALSE
    /\ step = "begin"
    /\ clicked = FALSE
    /\ rendered = [app \in Applications |-> 0]
    /\ visible = TRUE
    /\ clearedUpTo = 0

WorkspaceNext ==
    \/ \E level \in Levels : Log(level)
    \/ BeginWindow
    \/ ShowApplicationRail \/ ShowCentralApplication \/ ShowDetachedApplications
    \/ ShowApplicationMap \/ ReadLog \/ LogButtons
    \/ Ended

WorkspaceSpec == WorkspaceInit /\ [][WorkspaceNext]_workspaceVars

-----------------------------------------------------------------------------

Increasing(list) == \A i, j \in DOMAIN list : i < j => list[i] < list[j]
Numbers(list) == [i \in DOMAIN list |-> list[i].sequence]

\* The window shows the log.  Of the last MaxLogEntries records, those that were
\* not cleared are all in the logger's list and, up to where the window has
\* read, in the window's, each once and in order, even if the log overflowed or
\* was cleared while the window was hidden or behind; and the stream has every
\* record, in the order of the sequence numbers.
LastEntriesShown ==
    LET Recent == {q \in clearedUpTo + 1 .. nextSequence - 1 : nextSequence - q <= MaxLogEntries}
    IN  /\ {entries[i].sequence : i \in DOMAIN entries} = Recent
        /\ {q \in Recent : q <= lastSequence} \subseteq
               {displayedEntries[i].sequence : i \in DOMAIN displayedEntries}
        /\ Increasing(Numbers(entries)) /\ Increasing(Numbers(displayedEntries))
        /\ {output[i] : i \in DOMAIN output} \ {0} = 1..nextSequence - 1
        /\ \A i, j \in DOMAIN output :
              i < j /\ output[i] # 0 /\ output[j] # 0 => output[i] < output[j]
        /\ (\A level \in Levels : severityEnabled[level]) => VisibleRows = displayedEntries

\* Every application is rendered at most once in a frame, whichever button
\* moved it between the center and its own window in that frame: rendered twice
\* its widgets would act twice.  The active one is rendered.
RenderedOnce ==
    /\ \A app \in Applications : rendered[app] <= 1
    /\ step = "map" /\ visible => rendered[activeApplication] = 1
=============================================================================
