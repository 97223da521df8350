------------------------------ MODULE GuiProofs ------------------------------
(***************************************************************************)
(* Proofs about what the user of the GUI sees and sends: the device list   *)
(* of DeviceMonitor, for any devices, clicks and failures; the frame and   *)
(* the log window of Workspace, for any applications, levels and bounds;   *)
(* and the console of Application, for any texts. The three models have no *)
(* name in common, and no theorem is about two of them.                    *)
(***************************************************************************)
EXTENDS DeviceMonitor, Workspace, Application, Integers, SequenceFacts, TLAPS

-----------------------------------------------------------------------------
(* The device list *)

Rows == [Ids -> DeviceViewModel \cup {None}]
Commands == [kind : {"Refresh", "Add", "Edit", "SetAlive", "Delete"},
             targetId : Ids \cup {None}, device : DeviceViewModel \cup {None}]
Editors == [mode : {"Add", "Edit"}, originalId : Ids \cup {None}, draft : DeviceDraft]
Results == [success : BOOLEAN, devices : Rows]

StateOK ==
    /\ devices \in Rows
    /\ editor \in Editors \cup {None}
    /\ pendingDelete \in Ids \cup {None}
    /\ error \in BOOLEAN
    /\ commands \in Seq(Commands)

StorageOK ==
    /\ queue \in Seq(Seq(Commands))
    /\ results \in Seq(Results)
    /\ stop \in BOOLEAN
    /\ worker \in {"starting", "waiting", "executing", "returned"}
    /\ batch \in Seq(Commands)
    /\ db \in Rows
    /\ submitted \in Rows
    /\ failed \in BOOLEAN

PlatformOK ==
    /\ gui \in {"starting", "looping", "pumping", "drawing", "ending", "unwinding", "returned"}
    /\ exitRequested \in BOOLEAN
    /\ shouldClose \in BOOLEAN
    /\ backgroundError \in BOOLEAN
    /\ guiResult \in {"success", "failure"}
    /\ main \in {"waiting", "joining", "returned"}
    /\ appResult \in {"success", "failure"}

TypeOK == StateOK /\ StorageOK /\ PlatformOK

(* Where the threads can be, given what they have left behind. *)
Places ==
    /\ Len(commands) <= 1
    /\ gui \in {"starting", "drawing"} => commands = <<>>
    /\ worker = "starting" => queue # <<>>
    /\ main # "waiting" => gui = "returned"
    /\ main = "returned" => worker = "returned"
    /\ ~failed => \A i \in DOMAIN results : results[i].success
    /\ stop /\ ~failed => gui = "returned"
    /\ worker = "returned" /\ ~failed => stop /\ queue = <<>>

(* Where the news of a failure is. *)
Reported ==
    failed => IF main = "returned" THEN appResult = "failure"
              ELSE \/ \E i \in DOMAIN results : ~results[i].success
                   \/ backgroundError /\ gui \in {"drawing", "ending"}
                   \/ guiResult = "failure" /\ gui \in {"unwinding", "returned"}

(* Executing the batch in hand and then the queue, one batch after the     *)
(* other, leads from the rows of the file to the submitted ones.           *)
Replay(f, q) ==
    /\ f[0] = IF worker = "executing" THEN Perform(db, batch).rows ELSE db
    /\ \A i \in DOMAIN q : f[i] = Perform(f[i - 1], q[i]).rows
    /\ f[Len(q)] = submitted

Replayed == ~failed => \E f : Replay(f, queue)

(* When nothing is on its way to the storage, the newest list that was     *)
(* read or is to be read is that of the file.                              *)
Answered ==
    /\ commands = <<>> /\ queue = <<>>
    /\ worker = "waiting" /\ gui # "returned" /\ ~failed
    => db = IF results = <<>> THEN devices ELSE results[Len(results)].devices

-----------------------------------------------------------------------------

(* The greatest of some positions. *)
LEMMA MaxPosition ==
    ASSUME NEW n \in Nat, NEW S \in SUBSET (1..n), S # {}
    PROVE  Max(S) \in S /\ \A i \in S : i <= Max(S)
<1> DEFINE D == {n - i : i \in S}
<1>1. D \in SUBSET Nat /\ D # {}
  <2>1. \A i \in S : n - i \in Nat
    OBVIOUS
  <2> QED
    BY <2>1
<1>2. PICK m \in D : \A k \in D : m <= k
  <2> HIDE DEF D
  <2> QED
    BY <1>1, LeastElement
<1>3. PICK x \in S : m = n - x
  OBVIOUS
<1>4. \A i \in S : x >= i
  <2> TAKE i \in S
  <2>1. n - i \in D
    OBVIOUS
  <2>2. m <= n - i /\ i \in Int /\ x \in Int
    BY <1>2, <2>1
  <2> QED
    BY <1>3, <2>2
<1>5. Max(S) \in S /\ \A i \in S : Max(S) >= i
  BY <1>4 DEF Max
<1> QED
  BY <1>5


(* Commands that are executed one after the other keep the shape of the    *)
(* rows; no command, or a Refresh, leaves them as they are.                *)
LEMMA PerformFacts ==
    ASSUME NEW rows \in Rows, NEW list \in Seq(Commands)
    PROVE  /\ Perform(rows, list).rows \in Rows
           /\ Perform(rows, list).success \in BOOLEAN
           /\ list = <<>> => Perform(rows, list) = [rows |-> rows, success |-> TRUE]
           /\ list = <<Refresh>> => Perform(rows, list) = [rows |-> rows, success |-> TRUE]
<1> DEFINE Outcome == [rows : Rows, success : BOOLEAN]
           Then(o, command) ==
               IF o.success /\ ~Refuses(o.rows, command)
               THEN [rows |-> Apply(o.rows, command), success |-> TRUE]
               ELSE [rows |-> o.rows, success |-> FALSE]
           Initial == [rows |-> rows, success |-> TRUE]
           Steps(g, m) ==
               g = [n \in 0..m |-> IF n = 0 THEN Initial ELSE Then(g[n - 1], list[n])]
           Good == {m \in Nat : m <= Len(list) => \E g \in [0..m -> Outcome] : Steps(g, m)}
<1>1. \A o \in Outcome, command \in Commands : Then(o, command) \in Outcome
  BY DEF Rows, Commands, Refuses, Apply
<1>2. \A i \in 1..Len(list) : list[i] \in Commands
  OBVIOUS
<1>3. Initial \in Outcome
  OBVIOUS
<1> HIDE DEF Outcome, Then, Initial
<1>4. 0 \in Good
  <2> DEFINE g == [n \in 0..0 |-> Initial]
  <2>1. g \in [0..0 -> Outcome] /\ Steps(g, 0)
    BY <1>3
  <2> QED
    BY <2>1
<1>5. ASSUME NEW m \in Nat, m \in Good PROVE m + 1 \in Good
  <2> HIDE DEF Steps
  <2> SUFFICES ASSUME m + 1 <= Len(list)
               PROVE  \E g \in [0..m + 1 -> Outcome] : Steps(g, m + 1)
    OBVIOUS
  <2> USE DEF Steps
  <2>1. PICK g \in [0..m -> Outcome] : Steps(g, m)
    BY <1>5
  <2> DEFINE h == [n \in 0..m + 1 |-> IF n = m + 1 THEN Then(g[m], list[m + 1]) ELSE g[n]]
  <2>2. h \in [0..m + 1 -> Outcome]
    <3>1. Then(g[m], list[m + 1]) \in Outcome
      BY <1>1, <1>2
    <3> QED
      BY <3>1
  <2>3. \A n \in 0..m + 1 : h[n] = IF n = 0 THEN Initial ELSE Then(h[n - 1], list[n])
    <3> TAKE n \in 0..m + 1
    <3>1. CASE n = m + 1
      <4>1. h[n - 1] = g[m] /\ n # 0
        BY <3>1
      <4> QED
        BY <3>1, <4>1
    <3>2. CASE n \in 0..m
      <4>1. h[n] = g[n] /\ (n # 0 => h[n - 1] = g[n - 1])
        BY <3>2
      <4> QED
        BY <2>1, <3>2, <4>1
    <3> QED
      BY <3>1, <3>2
  <2>4. Steps(h, m + 1)
    BY <2>3, Zenon
  <2> QED
    BY <2>2, <2>4
<1>6. Len(list) \in Good
  <2> HIDE DEF Good
  <2>1. Nat \subseteq Good
    BY <1>4, <1>5, SetInduction
  <2>2. Len(list) \in Nat
    OBVIOUS
  <2> QED
    BY <2>1, <2>2
<1>7. PICK g \in [0..Len(list) -> Outcome] : Steps(g, Len(list))
  BY <1>6
<1> DEFINE F == CHOOSE f : Steps(f, Len(list))
<1>8. Steps(F, Len(list))
  BY <1>7
<1>9. Perform(rows, list) = F[Len(list)]
  BY DEF Perform, Then, Initial
<1> HIDE DEF F
<1>10. \A n \in 0..Len(list) :
          F[n] = IF n = 0 THEN Initial ELSE Then(F[n - 1], list[n])
  BY <1>8
<1>11. \A n \in Nat : n \in {k \in Nat : k <= Len(list) => F[k] \in Outcome}
  <2> DEFINE P == {k \in Nat : k <= Len(list) => F[k] \in Outcome}
  <2>1. 0 \in P
    BY <1>3, <1>10
  <2>2. ASSUME NEW k \in Nat, k \in P PROVE k + 1 \in P
    <3> SUFFICES ASSUME k + 1 <= Len(list) PROVE F[k + 1] \in Outcome
      OBVIOUS
    <3>1. F[k + 1] = Then(F[k], list[k + 1]) /\ F[k] \in Outcome /\ list[k + 1] \in Commands
      BY <1>2, <1>10, <2>2
    <3> QED
      BY <1>1, <3>1
  <2> HIDE DEF P
  <2>3. Nat \subseteq P
    BY <2>1, <2>2, SetInduction
  <2> QED
    BY <2>3 DEF P
<1>12. F[Len(list)] \in Outcome
  BY <1>11
<1>13. list = <<>> => F[Len(list)] = Initial
  BY <1>10
<1>14. list = <<Refresh>> => F[Len(list)] = Initial
  <2> HAVE list = <<Refresh>>
  <2>1. F[0] = Initial /\ F[1] = Then(F[0], Refresh) /\ Len(list) = 1
    BY <1>10
  <2>2. Then(Initial, Refresh) = Initial
    BY DEF Then, Initial, Refuses, Apply, Refresh, DeviceCommand
  <2> QED
    BY <2>1, <2>2
<1> QED
  BY <1>9, <1>12, <1>13, <1>14 DEF Outcome, Initial

(* A batch that was submitted is in the queue. *)
LEMMA SubmittedIsQueued ==
    ASSUME TypeOK
    PROVE  Append(queue, commands) # <<>>
<1>1. queue \in Seq(Seq(Commands)) /\ commands \in Seq(Commands)
  BY DEF TypeOK, StateOK, StorageOK
<1> QED
  BY <1>1

(* What a click does to DeviceMonitorState: the list changes only together *)
(* with a command that says so.                                            *)
LEMMA ClickFacts ==
    ASSUME StateOK, ShowWatchlistAppContent
    PROVE  /\ StateOK'
           /\ \/ UNCHANGED <<devices, commands>>
              \/ \E command \in Commands : commands' = Append(commands, command)
<1> USE DEF StateOK
<1>1. CASE RequestRefresh
  <2>1. Refresh \in Commands
    BY DEF Refresh, Commands, DeviceCommand
  <2> QED
    BY <1>1, <2>1 DEF RequestRefresh
<1>2. CASE BeginAdd
  BY <1>2 DEF BeginAdd, DeviceEditorState, Editors, DeviceDraft
<1>3. CASE ClearError
  BY <1>3 DEF ClearError
<1>4. CASE ShowDeviceTable
  <2>1. PICK id \in Ids : /\ FindDevice(id)
                          /\ \/ SetAlive(id, ~devices[id].alive)
                             \/ BeginEdit(id)
                             \/ RequestDelete(id)
    BY <1>4 DEF ShowDeviceTable
  <2>2. devices[id] \in DeviceViewModel
    BY <2>1 DEF FindDevice, Rows
  <2>3. CASE SetAlive(id, ~devices[id].alive)
    <3> DEFINE device == [devices[id] EXCEPT !.alive = ~devices[id].alive]
    <3>1. device \in DeviceViewModel
      BY <2>2 DEF DeviceViewModel
    <3>2. DeviceCommand("SetAlive", id, device) \in Commands
      BY <3>1 DEF DeviceCommand, Commands
    <3>3. /\ devices' = [devices EXCEPT ![id] = device]
          /\ commands' = Append(commands, DeviceCommand("SetAlive", id, device))
          /\ error' = FALSE
          /\ UNCHANGED <<editor, pendingDelete>>
      BY <2>1, <2>3 DEF SetAlive
    <3> HIDE DEF device
    <3>4. devices' \in Rows
      BY <3>1, <3>3 DEF Rows
    <3>5. commands' \in Seq(Commands)
      BY <3>2, <3>3, AppendFacts
    <3> QED
      BY <3>2, <3>3, <3>4, <3>5
  <2>4. CASE BeginEdit(id)
    <3>1. /\ error' = FALSE
          /\ editor' = DeviceEditorState("Edit", id,
                           [id |-> id, data |-> devices[id].data,
                            alive |-> devices[id].alive])
          /\ UNCHANGED <<devices, pendingDelete, commands>>
      BY <2>1, <2>4 DEF BeginEdit
    <3>2. editor' \in Editors
      BY <2>2, <3>1 DEF DeviceEditorState, Editors, DeviceDraft, DeviceViewModel
    <3> QED
      BY <3>1, <3>2
  <2>5. CASE RequestDelete(id)
    BY <2>1, <2>5 DEF RequestDelete
  <2> QED
    BY <2>1, <2>3, <2>4, <2>5
<1>5. CASE ShowEditor
  <2>1. editor \in Editors
    BY <1>5 DEF ShowEditor
  <2>2. CASE \E draft \in Typed : TypeDraft(draft)
    BY <2>1, <2>2 DEF Typed, TypeDraft, Editors
  <2>3. CASE SubmitEditor
    <3> DEFINE draft == editor.draft
               device == [data |-> draft.data, alive |-> draft.alive]
               command == DeviceCommand(IF editor.mode = "Add" THEN "Add" ELSE "Edit",
                                        draft.id, device)
    <3>1. draft \in DeviceDraft
      BY <2>1 DEF Editors
    <3>2. CASE Failing
      BY <3>2 DEF Failing
    <3>3. CASE /\ ValidateDraft(draft)
               /\ devices' = [devices EXCEPT ![draft.id] = device]
               /\ commands' = Append(commands, command)
               /\ editor' = None
               /\ error' = FALSE
               /\ UNCHANGED pendingDelete
      <4>1. draft.id \in Ids /\ device \in DeviceViewModel
        BY <3>1, <3>3 DEF ValidateDraft, DeviceDraft, DeviceViewModel
      <4>2. command \in Commands
        BY <4>1 DEF DeviceCommand, Commands
      <4> HIDE DEF device, command, draft
      <4>3. devices' \in Rows
        BY <3>3, <4>1 DEF Rows
      <4>4. commands' \in Seq(Commands)
        BY <3>3, <4>2, AppendFacts
      <4> QED
        BY <3>3, <4>2, <4>3, <4>4
    <3> QED
      BY <2>3, <3>2, <3>3 DEF SubmitEditor
  <2>4. CASE CancelEditor
    BY <2>4 DEF CancelEditor
  <2> QED
    BY <1>5, <2>2, <2>3, <2>4 DEF ShowEditor
<1>6. CASE ShowDeleteConfirmation
  <2>1. pendingDelete \in Ids
    BY <1>6 DEF ShowDeleteConfirmation
  <2>2. CASE ConfirmDelete
    <3>1. DeviceCommand("Delete", pendingDelete, None) \in Commands
      BY <2>1 DEF DeviceCommand, Commands
    <3>2. [devices EXCEPT ![pendingDelete] = None] \in Rows
      BY <2>1 DEF Rows
    <3>3. CASE FindDevice(pendingDelete)
      <4>1. /\ pendingDelete' = None /\ UNCHANGED editor /\ error' = FALSE
            /\ devices' = [devices EXCEPT ![pendingDelete] = None]
            /\ commands' = Append(commands, DeviceCommand("Delete", pendingDelete, None))
        BY <2>2, <3>3 DEF ConfirmDelete
      <4>2. commands' \in Seq(Commands)
        BY <3>1, <4>1, AppendFacts
      <4> QED
        BY <3>1, <3>2, <4>1, <4>2
    <3>4. CASE ~FindDevice(pendingDelete)
      BY <2>2, <3>4 DEF ConfirmDelete
    <3> QED
      BY <3>3, <3>4
  <2>3. CASE CancelDelete
    BY <2>3 DEF CancelDelete
  <2> QED
    BY <1>6, <2>2, <2>3 DEF ShowDeleteConfirmation
<1> QED
  BY <1>1, <1>2, <1>3, <1>4, <1>5, <1>6 DEF ShowWatchlistAppContent

(* What DrawFrame does to DeviceMonitorState, with a click or without. *)
LEMMA DrawFacts ==
    ASSUME TypeOK, DrawFrame
    PROVE  /\ StateOK'
           /\ \/ UNCHANGED <<devices, commands>>
              \/ \E command \in Commands : commands' = Append(commands, command)
<1>1. CASE UNCHANGED <<devices, editor, pendingDelete, error, commands, actions>>
  BY <1>1 DEF TypeOK, StateOK
<1>2. CASE ShowWatchlistAppContent
  BY <1>2, ClickFacts DEF TypeOK
<1> QED
  BY <1>1, <1>2 DEF DrawFrame

(* The list of an answer that is used. *)
LEMMA UsedFacts ==
    ASSUME TypeOK, NEW used \in SUBSET (DOMAIN results), used # {}
    PROVE  /\ Max(used) \in used
           /\ results[Max(used)].devices \in Rows
           /\ used = DOMAIN results => Max(used) = Len(results)
<1>1. results \in Seq(Results) /\ Len(results) \in Nat /\ DOMAIN results = 1..Len(results)
  BY DEF TypeOK, StorageOK
<1>2. Max(used) \in used /\ \A i \in used : i <= Max(used)
  BY <1>1, MaxPosition
<1>3. results[Max(used)] \in Results
  BY <1>1, <1>2
<1>4. used = DOMAIN results => Max(used) = Len(results)
  <2> HAVE used = DOMAIN results
  <2>1. Len(results) \in used
    BY <1>1
  <2> QED
    BY <1>1, <1>2, <2>1
<1> QED
  BY <1>2, <1>3, <1>4 DEF Results

(* What a pump receives: everything if nothing has failed. *)
LEMMA ReceivedFacts ==
    ASSUME TypeOK
    PROVE  /\ Received \subseteq DOMAIN results
           /\ Received = DOMAIN results <=> \A i \in DOMAIN results : results[i].success
<1>1. DOMAIN results = 1..Len(results) /\ Len(results) \in Nat
  BY DEF TypeOK, StorageOK
<1>2. ASSUME \A i \in DOMAIN results : results[i].success
      PROVE  Received = DOMAIN results
  <2>1. ASSUME NEW i \in DOMAIN results, NEW j \in 1..i PROVE results[j].success
    <3>1. j \in DOMAIN results
      BY <1>1
    <3> QED
      BY <1>2, <3>1
  <2> QED
    BY <2>1 DEF Received
<1>3. ASSUME Received = DOMAIN results, NEW i \in DOMAIN results
      PROVE  results[i].success
  <2>1. i \in 1..i
    BY <1>1
  <2> QED
    BY <1>3, <2>1 DEF Received
<1> QED
  BY <1>2, <1>3 DEF Received

(* Every step keeps the types. *)
LEMMA TypeStep ==
    ASSUME DataAssumption, TypeOK, [Next]_vars
    PROVE  TypeOK'
<1> USE DEF TypeOK, StateOK, StorageOK, PlatformOK, state, storage, platform, application, history, bounds
<1>1. CASE InitializeStage
  BY <1>1 DEF InitializeStage, Stop
<1>2. CASE DestroyStage
  BY <1>2 DEF DestroyStage
<1>3. CASE BeginFrame
  BY <1>3 DEF BeginFrame, Stop
<1>4. CASE PumpStorage
  <2>1. queue' \in Seq(Seq(Commands)) /\ commands' \in Seq(Commands)
    <3>1. queue' = queue \/ queue' = Append(queue, commands)
      BY <1>4 DEF PumpStorage, Submitting
    <3>2. commands' = <<>>
      BY <1>4 DEF PumpStorage, Submitting
    <3>3. Append(queue, commands) \in Seq(Seq(Commands))
      OBVIOUS
    <3>4. queue' \in Seq(Seq(Commands))
      BY <3>1, <3>3, Zenon
    <3> QED
      BY <3>2, <3>4
  <2>2. submitted' \in Rows
    BY <1>4, PerformFacts DEF PumpStorage, Submitting
  <2>3. devices' \in Rows /\ error' \in BOOLEAN
    <3>1. Received \in SUBSET (DOMAIN results)
      BY ReceivedFacts
    <3>2. Received # {} => results[Max(Received)].devices \in Rows
      BY <3>1, UsedFacts
    <3> QED
      BY <1>4, <3>2 DEF PumpStorage, ReplaceDevices
  <2>4. results' \in Seq(Results)
    BY <1>4 DEF PumpStorage
  <2>5. /\ UNCHANGED <<editor, pendingDelete, worker, batch, db, guiResult, main, appResult,
                        failed>>
        /\ stop' \in BOOLEAN /\ exitRequested' \in BOOLEAN /\ shouldClose' \in BOOLEAN
        /\ backgroundError' \in BOOLEAN /\ gui' = "drawing"
    BY <1>4 DEF PumpStorage
  <2> QED
    BY <2>1, <2>2, <2>3, <2>4, <2>5
<1>5. CASE DrawFrame
  <2>1. StateOK'
    BY <1>5, DrawFacts
  <2> QED
    BY <1>5, <2>1 DEF DrawFrame, ClosesAfter
<1>6. CASE EndFrame
  BY <1>6 DEF EndFrame, Stop
<1>6a. CASE FrameThrows
  BY <1>6a DEF FrameThrows, Stop
<1>7. CASE StopAndDrain
  <2> DEFINE good == {i \in DOMAIN results : results[i].success}
  <2>1. good # {} => results[Max(good)].devices \in Rows
    BY UsedFacts
  <2>2. devices' \in Rows /\ error' \in BOOLEAN
    BY <1>7, <2>1 DEF StopAndDrain, ReplaceDevices
  <2>3. /\ guiResult' \in {"success", "failure"}
        /\ gui' = "returned" /\ stop' = TRUE /\ results' = <<>>
        /\ UNCHANGED <<editor, pendingDelete, commands, exitRequested, queue, worker,
                       batch, db, shouldClose, backgroundError, main, appResult,
                       submitted, failed>>
    BY <1>7 DEF StopAndDrain
  <2>4. results' \in Seq(Results)
    BY <2>3
  <2> QED
    BY <2>2, <2>3, <2>4
<1>8. CASE Initialize
  <2>1. [success |-> FALSE, devices |-> [id \in Ids |-> None]] \in Results
    BY DEF Results, Rows
  <2> DEFINE result == [success |-> FALSE, devices |-> [id \in Ids |-> None]]
  <2> HIDE DEF result
  <2>2. Append(results, result) \in Seq(Results)
    BY <2>1, AppendFacts DEF result
  <2>3. results' = results \/ results' = Append(results, result)
    BY <1>8 DEF Initialize, Report, result
  <2>4. failed' \in BOOLEAN /\ worker' \in {"waiting", "returned"}
    BY <1>8 DEF Initialize, Report
  <2>5. UNCHANGED <<state, queue, stop, batch, db, platform, application, submitted>>
    BY <1>8 DEF Initialize
  <2>6. results' \in Seq(Results)
    BY <2>2, <2>3, Zenon
  <2> QED
    BY <2>4, <2>5, <2>6
<1>9. CASE Take
  <2>1. queue' \in Seq(Seq(Commands)) /\ batch' \in Seq(Commands)
    <3>1. CASE queue = <<>>
      BY <1>9, <3>1 DEF Take
    <3>2. CASE queue # <<>>
      <4>1. queue' = Tail(queue) /\ batch' = Head(queue)
        BY <1>9, <3>2 DEF Take
      <4>2. Tail(queue) \in Seq(Seq(Commands)) /\ Head(queue) \in Seq(Commands)
        BY <3>2
      <4> QED
        BY <4>1, <4>2
    <3> QED
      BY <3>1, <3>2
  <2> QED
    BY <1>9, <2>1 DEF Take
<1>10. CASE Execute
  <2>1. db' \in Rows
    <3>1. ASSUME NEW done \in 0..Len(batch) PROVE SubSeq(batch, 1, done) \in Seq(Commands)
      OBVIOUS
    <3> QED
      BY <1>10, <3>1, PerformFacts DEF Execute
  <2>2. PICK result \in Results : results' = Append(results, result)
    <3>1. /\ [id \in Ids |-> None] \in Rows
          /\ Perform(db, batch).rows \in Rows
          /\ Perform(db, batch).success \in BOOLEAN
      BY PerformFacts DEF Rows
    <3> QED
      BY <1>10, <2>1, <3>1 DEF Execute, Report, Results
  <2>3. results' \in Seq(Results)
    BY <2>2, AppendFacts
  <2>4. failed' \in BOOLEAN
    BY <1>10 DEF Execute, Report
  <2>5. batch' \in Seq(Commands)
    BY <1>10 DEF Execute
  <2> QED
    BY <1>10, <2>1, <2>3, <2>4, <2>5 DEF Execute
<1>11. CASE RequestStop
  BY <1>11 DEF RequestStop
<1>12. CASE PollLastResults
  BY <1>12 DEF PollLastResults, FinalResult
<1>13. CASE Returned \/ UNCHANGED vars
  BY <1>13 DEF Returned, vars
<1> QED
  BY <1>1, <1>2, <1>3, <1>4, <1>5, <1>6, <1>6a, <1>7, <1>8, <1>9, <1>10, <1>11, <1>12, <1>13 DEF Next, Gui, Storage, Main

(* Every step keeps Places. *)
LEMMA PlacesStep ==
    ASSUME TypeOK, TypeOK', Places, [Next]_vars
    PROVE  Places'
<1> USE DEF Places, state, storage, platform, application, history, bounds
<1>1. CASE InitializeStage
  BY <1>1 DEF InitializeStage, Stop
<1>2. CASE DestroyStage
  BY <1>2 DEF DestroyStage
<1>3. CASE BeginFrame
  BY <1>3 DEF BeginFrame, Stop
<1>4. CASE PumpStorage
  <2>1. commands' = <<>> /\ results' = <<>> /\ gui' = "drawing" /\ gui = "pumping"
    BY <1>4 DEF PumpStorage, Submitting
  <2>2. queue # <<>> => queue' # <<>>
    <3>1. Append(queue, commands) # <<>>
      BY SubmittedIsQueued
    <3> QED
      BY <1>4, <3>1 DEF PumpStorage, Submitting
  <2>3. ~failed => stop' = stop
    BY <1>4, ReceivedFacts DEF PumpStorage
  <2>4. UNCHANGED <<worker, main, failed>>
    BY <1>4 DEF PumpStorage
  <2> QED
    BY <2>1, <2>2, <2>3, <2>4
<1>5. CASE DrawFrame
  <2>1. commands = <<>> /\ gui' = "ending" /\ UNCHANGED <<queue, results, stop, worker, main, failed>>
    BY <1>5 DEF DrawFrame
  <2>2. Len(commands') <= 1
    BY <2>1, <1>5, DrawFacts
  <2> QED
    BY <1>5, <2>1, <2>2 DEF DrawFrame
<1>6. CASE EndFrame
  BY <1>6 DEF EndFrame, Stop
<1>6a. CASE FrameThrows
  BY <1>6a DEF FrameThrows, Stop
<1>7. CASE StopAndDrain
  <2>1. /\ gui = "unwinding" /\ gui' = "returned" /\ stop' = TRUE /\ results' = <<>>
        /\ UNCHANGED <<commands, queue, worker, main, failed>>
    BY <1>7 DEF StopAndDrain
  <2> QED
    BY <2>1
<1>8. CASE Initialize
  <2>1. /\ worker = "starting" /\ UNCHANGED <<commands, gui, queue, main, stop>>
        /\ \/ worker' = "waiting" /\ UNCHANGED <<results, failed>>
           \/ worker' = "returned" /\ failed'
    BY <1>8 DEF Initialize, Report
  <2> QED
    BY <2>1
<1>9. CASE Take
  <2>1. /\ worker = "waiting" /\ UNCHANGED <<commands, gui, results, main, stop, failed>>
        /\ \/ worker' = "returned" /\ queue = <<>> /\ queue' = <<>> /\ stop
           \/ worker' = "executing"
    BY <1>9 DEF Take, Awake, TypeOK, StorageOK
  <2> QED
    BY <2>1
<1>10. CASE Execute
  <2>1. /\ worker = "executing" /\ worker' = "waiting"
        /\ UNCHANGED <<commands, gui, queue, main, stop>>
    BY <1>10 DEF Execute
  <2>2. ASSUME ~failed' PROVE \A i \in DOMAIN results' : results'[i].success
    <3>1. PICK rows \in Rows : results' = Append(results, [success |-> TRUE, devices |-> rows])
      BY <1>10, <2>2, PerformFacts DEF Execute, Report, TypeOK, StorageOK
    <3>2. ~failed
      BY <1>10, <2>2 DEF Execute, Report
    <3>3. [success |-> TRUE, devices |-> rows] \in Results
      BY DEF Results
    <3>4. results \in Seq(Results)
      BY DEF TypeOK, StorageOK
    <3>5. /\ DOMAIN results' = 1..Len(results) + 1
          /\ \A i \in DOMAIN results : results'[i] = results[i]
          /\ results'[Len(results) + 1] = [success |-> TRUE, devices |-> rows]
      BY <3>1, <3>3, <3>4, AppendFacts
    <3> QED
      BY <3>2, <3>4, <3>5
  <2>3. failed => failed'
    BY <1>10 DEF Execute, Report
  <2> QED
    BY <2>1, <2>2, <2>3
<1>11. CASE RequestStop
  BY <1>11 DEF RequestStop
<1>12. CASE PollLastResults
  <2>1. /\ main = "joining" /\ worker = "returned" /\ main' = "returned" /\ results' = <<>>
        /\ UNCHANGED <<commands, gui, queue, worker, stop, failed>>
    BY <1>12 DEF PollLastResults
  <2> QED
    BY <2>1
<1>13. CASE Returned \/ UNCHANGED vars
  BY <1>13 DEF Returned, vars
<1> QED
  BY <1>1, <1>2, <1>3, <1>4, <1>5, <1>6, <1>6a, <1>7, <1>8, <1>9, <1>10, <1>11, <1>12, <1>13 DEF Next, Gui, Storage, Main

(* A result that is appended is unread, and those before it stay so. *)
LEMMA FailureUnread ==
    ASSUME TypeOK, NEW success \in BOOLEAN, NEW rows \in Rows,
           results' = Append(results, [success |-> success, devices |-> rows])
    PROVE  /\ ~success => \E i \in DOMAIN results' : ~results'[i].success
           /\ (\E i \in DOMAIN results : ~results[i].success)
                 => \E i \in DOMAIN results' : ~results'[i].success
<1>1. results \in Seq(Results) /\ [success |-> success, devices |-> rows] \in Results
  BY DEF TypeOK, StorageOK, Results
<1>2. /\ DOMAIN results' = 1..Len(results) + 1 /\ Len(results) \in Nat
      /\ DOMAIN results = 1..Len(results)
      /\ \A i \in DOMAIN results : results'[i] = results[i]
      /\ results'[Len(results) + 1] = [success |-> success, devices |-> rows]
  BY <1>1, AppendFacts
<1>3. Len(results) + 1 \in DOMAIN results' /\ DOMAIN results \subseteq DOMAIN results'
  BY <1>2
<1> QED
  BY <1>2, <1>3

(* Every step keeps Reported. *)
LEMMA ReportedStep ==
    ASSUME TypeOK, Places, Reported, [Next]_vars
    PROVE  Reported'
<1> USE DEF Reported, Places, state, storage, platform, application, history, bounds
<1>1. CASE InitializeStage
  BY <1>1 DEF InitializeStage, Stop
<1>2. CASE DestroyStage
  BY <1>2 DEF DestroyStage
<1>3. CASE BeginFrame
  BY <1>3 DEF BeginFrame, Stop
<1>4. CASE PumpStorage
  <2>1. gui = "pumping" /\ gui' = "drawing" /\ UNCHANGED <<failed, main, appResult, guiResult>>
    BY <1>4 DEF PumpStorage
  <2>2. (\E i \in DOMAIN results : ~results[i].success) => backgroundError' = TRUE
    BY <1>4, ReceivedFacts DEF PumpStorage
  <2> QED
    BY <2>1, <2>2
<1>5. CASE DrawFrame
  BY <1>5 DEF DrawFrame
<1>6. CASE EndFrame
  BY <1>6 DEF EndFrame, Stop
<1>6a. CASE FrameThrows
  BY <1>6a DEF FrameThrows, Stop
<1>7. CASE StopAndDrain
  <2>1. gui = "unwinding" /\ gui' = "returned" /\ UNCHANGED <<failed, main, appResult>>
    BY <1>7 DEF StopAndDrain
  <2>2. guiResult' = guiResult \/ guiResult' = "failure"
    BY <1>7 DEF StopAndDrain
  <2>3. (\E i \in DOMAIN results : ~results[i].success) => guiResult' = "failure"
    BY <1>7 DEF StopAndDrain
  <2> QED
    BY <2>1, <2>2, <2>3
<1>8. CASE Initialize
  <2>1. worker = "starting" /\ UNCHANGED <<gui, main, appResult, guiResult, backgroundError>>
    BY <1>8 DEF Initialize
  <2>2. CASE UNCHANGED <<results, failed>>
    BY <2>1, <2>2
  <2>3. CASE results' = Append(results, [success |-> FALSE, devices |-> [id \in Ids |-> None]])
    BY <2>1, <2>3, FailureUnread DEF Rows
  <2> QED
    BY <1>8, <2>2, <2>3 DEF Initialize, Report
<1>9. CASE Take
  BY <1>9 DEF Take
<1>10. CASE Execute
  <2>1. worker = "executing" /\ UNCHANGED <<gui, main, appResult, guiResult, backgroundError>>
    BY <1>10 DEF Execute
  <2>2. PICK success \in BOOLEAN, rows \in Rows :
            /\ results' = Append(results, [success |-> success, devices |-> rows])
            /\ failed' = (failed \/ ~success)
    <3>1. [id \in Ids |-> None] \in Rows
      BY DEF Rows
    <3> QED
      BY <1>10, <3>1, PerformFacts DEF Execute, Report, TypeOK, StorageOK
  <2>3. CASE ~success
    BY <2>1, <2>2, <2>3, FailureUnread
  <2>4. CASE success
    BY <2>1, <2>2, <2>4, FailureUnread
  <2> QED
    BY <2>3, <2>4
<1>11. CASE RequestStop
  BY <1>11 DEF RequestStop
<1>12. CASE PollLastResults
  <2>1. /\ main = "joining" /\ main' = "returned" /\ gui = "returned"
        /\ appResult' = FinalResult /\ UNCHANGED failed
    BY <1>12 DEF PollLastResults
  <2>2. ASSUME failed PROVE FinalResult = "failure"
    BY <2>1, <2>2, ReceivedFacts DEF FinalResult
  <2> QED
    BY <2>1, <2>2
<1>13. CASE Returned \/ UNCHANGED vars
  <2>1. UNCHANGED <<failed, main, appResult, results, backgroundError, gui, guiResult>>
    BY <1>13 DEF Returned, vars
  <2> QED
    BY <2>1
<1> QED
  BY <1>1, <1>2, <1>3, <1>4, <1>5, <1>6, <1>6a, <1>7, <1>8, <1>9, <1>10, <1>11, <1>12, <1>13 DEF Next, Gui, Storage, Main

(* Every step keeps Replayed. *)
LEMMA ReplayedStep ==
    ASSUME TypeOK, Places, Replayed, [Next]_vars
    PROVE  Replayed'
<1> USE DEF Replayed, Replay, state, storage, platform, application, history, bounds
<1>1. CASE InitializeStage
  BY <1>1 DEF InitializeStage, Stop
<1>2. CASE DestroyStage
  BY <1>2 DEF DestroyStage
<1>3. CASE BeginFrame
  BY <1>3 DEF BeginFrame, Stop
<1>4. CASE PumpStorage
  <2> SUFFICES ASSUME ~failed PROVE \E f : Replay(f, queue)'
    BY <1>4 DEF PumpStorage
  <2>1. PICK f : Replay(f, queue)
    OBVIOUS
  <2>2. UNCHANGED <<worker, db, batch>> /\ submitted' = Perform(submitted, commands).rows
    BY <1>4 DEF PumpStorage, Submitting
  <2>3. CASE commands = <<>>
    <3>1. queue' = queue /\ submitted' = submitted
      <4>1. Perform(submitted, commands).rows = submitted
        <5>1. submitted \in Rows /\ commands \in Seq(Commands)
          BY DEF TypeOK, StateOK, StorageOK
        <5>2. Perform(submitted, commands) = [rows |-> submitted, success |-> TRUE]
          BY <2>3, <5>1, PerformFacts, Zenon
        <5> QED
          BY <5>2
      <4> QED
        BY <1>4, <2>2, <2>3, <4>1 DEF PumpStorage, Submitting
    <3> QED
      BY <2>1, <2>2, <3>1
  <2>4. CASE commands # <<>>
    <3> DEFINE n == Len(queue)
    <3>0. PICK g : g = [i \in 0..n + 1 |-> IF i = n + 1 THEN submitted' ELSE f[i]]
      OBVIOUS
    <3>1. queue' = Append(queue, commands) /\ queue \in Seq(Seq(Commands)) /\ commands \in Seq(Commands)
      BY <1>4, <2>4 DEF PumpStorage, Submitting, TypeOK, StateOK, StorageOK
    <3>2. /\ Len(queue') = n + 1 /\ DOMAIN queue' = 1..n + 1 /\ n \in Nat /\ DOMAIN queue = 1..n
          /\ \A i \in DOMAIN queue : queue'[i] = queue[i]
          /\ queue'[n + 1] = commands
      BY <3>1, AppendFacts
    <3>3. /\ \A i \in 0..n : g[i] = f[i]
          /\ 0 \in 0..n /\ n \in 0..n /\ g[n + 1] = submitted'
      BY <3>0, <3>2
    <3>4. ASSUME NEW i \in DOMAIN queue' PROVE g[i] = Perform(g[i - 1], queue'[i]).rows
      <4>1. CASE i = n + 1
        <5>1. i - 1 = n
          BY <3>2, <4>1
        <5>2. g[n] = submitted
          BY <2>1, <3>3
        <5> QED
          BY <2>2, <3>2, <3>3, <4>1, <5>1, <5>2
      <4>2. CASE i \in DOMAIN queue
        <5>1. g[i] = f[i] /\ g[i - 1] = f[i - 1]
          <6>1. i \in 0..n /\ i - 1 \in 0..n
            BY <3>2, <4>2
          <6> QED
            BY <3>3, <6>1
        <5> QED
          BY <2>1, <3>2, <4>2, <5>1
      <4> QED
        BY <3>2, <4>1, <4>2
    <3>5. Replay(g, queue)'
      BY <2>1, <2>2, <3>2, <3>3, <3>4
    <3> QED
      BY <3>5
  <2> QED
    BY <2>3, <2>4
<1>5. CASE DrawFrame
  BY <1>5 DEF DrawFrame
<1>6. CASE EndFrame
  BY <1>6 DEF EndFrame, Stop
<1>6a. CASE FrameThrows
  BY <1>6a DEF FrameThrows, Stop
<1>7. CASE StopAndDrain
  BY <1>7 DEF StopAndDrain, ReplaceDevices
<1>8. CASE Initialize
  <2>1. CASE failed'
    BY <2>1
  <2>2. CASE ~failed'
    <3>1. ~failed /\ worker = "starting" /\ worker' = "waiting" /\ UNCHANGED <<db, batch, queue, submitted>>
      <4>1. failed' = (failed \/ ~FALSE) => failed'
        OBVIOUS
      <4>2. ~(failed' = (failed \/ ~FALSE))
        BY <2>2, <4>1
      <4>3. worker' = "waiting" /\ UNCHANGED <<results, failed, faults>>
        BY <1>8, <4>2, Zenon DEF Initialize, Report
      <4>4. worker = "starting" /\ UNCHANGED <<queue, batch, db, submitted>>
        BY <1>8 DEF Initialize
      <4> QED
        BY <2>2, <4>3, <4>4
    <3> QED
      BY <3>1
  <2> QED
    BY <2>1, <2>2
<1>9. CASE Take
  <2> SUFFICES ASSUME ~failed PROVE \E f : Replay(f, queue)'
    BY <1>9 DEF Take
  <2>1. PICK f : Replay(f, queue)
    OBVIOUS
  <2>2. worker = "waiting" /\ UNCHANGED <<db, submitted>>
    BY <1>9 DEF Take
  <2>3. CASE queue = <<>>
    <3>1. worker' = "returned" /\ queue' = queue
      BY <1>9, <2>3 DEF Take
    <3> QED
      BY <2>1, <2>2, <3>1
  <2>4. CASE queue # <<>>
    <3> DEFINE n == Len(queue)
    <3>0. PICK g : g = [i \in 0..n - 1 |-> f[i + 1]]
      OBVIOUS
    <3>1. /\ queue \in Seq(Seq(Commands)) /\ queue' = Tail(queue)
          /\ batch' = Head(queue) /\ worker' = "executing"
      BY <1>9, <2>4 DEF Take, TypeOK, StorageOK
    <3>2. /\ Len(queue') = n - 1 /\ DOMAIN queue' = 1..n - 1 /\ n \in Nat \ {0}
          /\ DOMAIN queue = 1..n /\ batch' = queue[1]
          /\ \A i \in DOMAIN queue' : queue'[i] = queue[i + 1]
      BY <2>4, <3>1, TailFacts
    <3>3. g[0] = f[1] /\ g[n - 1] = f[n] /\ f[0] = db /\ f[1] = Perform(f[0], queue[1]).rows
      <4>1. 0 \in 0..n - 1 /\ n - 1 \in 0..n - 1 /\ (n - 1) + 1 = n /\ 1 \in DOMAIN queue
        BY <3>2
      <4> QED
        BY <2>1, <2>2, <3>0, <4>1
    <3>4. ASSUME NEW i \in DOMAIN queue' PROVE g[i] = Perform(g[i - 1], queue'[i]).rows
      <4>1. g[i] = f[i + 1] /\ g[i - 1] = f[i] /\ i + 1 \in DOMAIN queue /\ (i + 1) - 1 = i
        BY <3>0, <3>2
      <4>2. f[i + 1] = Perform(f[(i + 1) - 1], queue[i + 1]).rows
        BY <2>1, <4>1
      <4> QED
        BY <3>2, <4>1, <4>2
    <3>5. Replay(g, queue)'
      BY <2>1, <2>2, <3>1, <3>2, <3>3, <3>4
    <3> QED
      BY <3>5
  <2> QED
    BY <2>3, <2>4
<1>10. CASE Execute
  <2>1. CASE failed'
    BY <2>1
  <2>2. CASE ~failed'
    <3>1. /\ ~failed /\ worker = "executing" /\ worker' = "waiting"
          /\ db' = Perform(db, batch).rows /\ UNCHANGED <<queue, submitted>>
      BY <1>10, <2>2 DEF Execute, Report
    <3>2. PICK f : Replay(f, queue)
      BY <3>1
    <3>3. Replay(f, queue)'
      BY <3>1, <3>2
    <3> QED
      BY <3>3
  <2> QED
    BY <2>1, <2>2
<1>11. CASE RequestStop
  BY <1>11 DEF RequestStop
<1>12. CASE PollLastResults
  BY <1>12 DEF PollLastResults, FinalResult
<1>13. CASE Returned \/ UNCHANGED vars
  BY <1>13 DEF Returned, vars
<1> QED
  BY <1>1, <1>2, <1>3, <1>4, <1>5, <1>6, <1>6a, <1>7, <1>8, <1>9, <1>10, <1>11, <1>12, <1>13 DEF Next, Gui, Storage, Main

(* Every step keeps Answered. *)
LEMMA AnsweredStep ==
    ASSUME TypeOK, TypeOK', Places, Answered, [Next]_vars
    PROVE  Answered'
<1> USE DEF Answered, state, storage, platform, application, history, bounds
<1>1. CASE InitializeStage
  BY <1>1 DEF InitializeStage, Stop
<1>2. CASE DestroyStage
  BY <1>2 DEF DestroyStage
<1>3. CASE BeginFrame
  BY <1>3 DEF BeginFrame, Stop
<1>4. CASE PumpStorage
  <2> SUFFICES ASSUME queue' = <<>>, worker = "waiting", ~failed
               PROVE  results' = <<>> /\ db = devices'
    BY <1>4 DEF PumpStorage
  <2>1. results' = <<>> /\ gui = "pumping"
    BY <1>4 DEF PumpStorage
  <2>2. commands = <<>> /\ queue = <<>>
    <3>1. Append(queue, commands) # <<>>
      BY SubmittedIsQueued
    <3> QED
      BY <1>4, <3>1 DEF PumpStorage, Submitting
  <2>3. Received = DOMAIN results
    BY ReceivedFacts DEF Places
  <2>4. ReplaceDevices(Received)
    BY <1>4, <2>3 DEF PumpStorage
  <2>5. CASE results = <<>>
    <3>1. Received = {}
      BY <2>3, <2>5
    <3> QED
      BY <2>1, <2>2, <2>4, <2>5, <3>1 DEF ReplaceDevices
  <2>6. CASE results # <<>>
    <3>1. DOMAIN results # {}
      <4>1. results \in Seq(Results)
        BY DEF TypeOK, StorageOK
      <4> QED
        BY <2>6, <4>1, TailFacts
    <3>2. Max(Received) = Len(results) /\ Received # {}
      BY <2>3, <3>1, UsedFacts
    <3> QED
      BY <2>1, <2>2, <2>4, <2>6, <3>2 DEF ReplaceDevices
  <2> QED
    BY <2>5, <2>6
<1>5. CASE DrawFrame
  <2>1. gui = "drawing" /\ UNCHANGED <<storage, failed>> /\ commands = <<>>
    BY <1>5 DEF DrawFrame, Places
  <2>2. CASE UNCHANGED <<devices, commands>>
    BY <2>1, <2>2
  <2>3. CASE \E command \in Commands : commands' = Append(commands, command)
    BY <2>1, <2>3
  <2> QED
    BY <1>5, <2>2, <2>3, DrawFacts
<1>6. CASE EndFrame
  BY <1>6 DEF EndFrame, Stop
<1>6a. CASE FrameThrows
  BY <1>6a DEF FrameThrows, Stop
<1>7. CASE StopAndDrain
  BY <1>7 DEF StopAndDrain
<1>8. CASE Initialize
  BY <1>8 DEF Initialize, Report, Places
<1>9. CASE Take
  BY <1>9 DEF Take
<1>10. CASE Execute
  <2> SUFFICES ASSUME ~failed'
               PROVE  results' # <<>> /\ db' = results'[Len(results')].devices
    BY <1>10
  <2> DEFINE result == [success |-> TRUE, devices |-> db']
  <2>1. results' = Append(results, result)
    BY <1>10, PerformFacts DEF Execute, Report, TypeOK, StorageOK
  <2>2. result \in Results /\ results \in Seq(Results)
    BY DEF Results, TypeOK, StorageOK
  <2>3. results' # <<>> /\ Len(results') = Len(results) + 1 /\ results'[Len(results) + 1] = result
    BY <2>1, <2>2, AppendFacts
  <2> QED
    BY <2>3
<1>11. CASE RequestStop
  BY <1>11 DEF RequestStop
<1>12. CASE PollLastResults
  BY <1>12 DEF PollLastResults
<1>13. CASE Returned \/ UNCHANGED vars
  BY <1>13 DEF Returned, vars
<1> QED
  BY <1>1, <1>2, <1>3, <1>4, <1>5, <1>6, <1>6a, <1>7, <1>8, <1>9, <1>10, <1>11, <1>12, <1>13 DEF Next, Gui, Storage, Main

(* In the first state nothing is submitted but the Refresh of the          *)
(* constructor.                                                            *)
LEMMA Initially ==
    ASSUME DataAssumption, Init
    PROVE  TypeOK /\ Places /\ Reported /\ Replayed /\ Answered
<1>1. Refresh \in Commands
  BY DEF Refresh, Commands, DeviceCommand
<1>2. queue \in Seq(Seq(Commands)) /\ queue # <<>> /\ Len(queue) = 1 /\ queue[1] = <<Refresh>>
  BY <1>1 DEF Init
<1>3. db \in Rows
  BY DEF Init, Rows, DeviceViewModel, DataAssumption
<1>4. TypeOK
  <2>1. [id \in Ids |-> None] \in Rows
    BY DEF Rows
  <2>2. /\ devices \in Rows /\ submitted \in Rows
        /\ editor = None /\ pendingDelete = None
        /\ commands = <<>> /\ batch = <<>> /\ results = <<>>
    BY <1>3, <2>1 DEF Init
  <2>3. commands \in Seq(Commands) /\ batch \in Seq(Commands) /\ results \in Seq(Results)
    BY <2>2
  <2> QED
    BY <1>2, <1>3, <2>2, <2>3 DEF Init, TypeOK, StateOK, StorageOK, PlatformOK
<1>5. Places /\ Reported /\ Answered
  BY <1>2 DEF Init, Places, Reported, Answered
<1>6. Perform(db, <<Refresh>>).rows = db
  <2>1. <<Refresh>> \in Seq(Commands)
    BY <1>1
  <2> QED
    <3>1. Perform(db, <<Refresh>>) = [rows |-> db, success |-> TRUE]
      BY <1>3, <2>1, PerformFacts, Zenon
    <3> QED
      BY <3>1
<1>7. Replayed
  <2>1. PICK f : f = [i \in 0..1 |-> db]
    OBVIOUS
  <2>2. f[0] = db /\ f[1] = db /\ DOMAIN queue = {1}
    BY <1>2, <2>1
  <2>3. Replay(f, queue)
    BY <1>2, <1>6, <2>2 DEF Init, Replay
  <2> QED
    BY <2>3 DEF Replayed
<1> QED
  BY <1>4, <1>5, <1>7

(* What is known of the device list in every state. *)
DeviceInv == TypeOK /\ Places /\ Reported /\ Replayed /\ Answered

(* The list, the commands, the queue, the answers and the rows of the file *)
(* have the shapes that the code gives them.                               *)
THEOREM DeviceTypeCorrect == Spec => []TypeOK
<1>1. Init => TypeOK
  BY Initially, DataAssumption
<1>2. TypeOK /\ [Next]_vars => TypeOK'
  BY TypeStep, DataAssumption
<1> QED
  BY <1>1, <1>2, PTL DEF Spec

(* The invariant that the two theorems below rest on. *)
THEOREM DeviceInvariant == Spec => []DeviceInv
<1>1. Init => DeviceInv
  BY Initially, DataAssumption DEF DeviceInv
<1>2. DeviceInv /\ [Next]_vars => DeviceInv'
  BY TypeStep, PlacesStep, ReportedStep, ReplayedStep, AnsweredStep, DataAssumption
     DEF DeviceInv
<1> QED
  BY <1>1, <1>2, PTL DEF Spec

(* When PumpStorage has nothing left to do in either direction, the list   *)
(* on screen is that of the file and both are what was asked for.          *)
THEOREM ListConverges == Spec => []Converged
<1>1. DeviceInv => Converged
  <2> SUFFICES ASSUME DeviceInv,
                      commands = <<>>, queue = <<>>, results = <<>>,
                      worker = "waiting", gui # "returned", ~failed
               PROVE  devices = db /\ db = submitted
    BY DEF Converged
  <2>1. PICK f : Replay(f, queue)
    BY DEF DeviceInv, Replayed
  <2>2. db = submitted
    BY <2>1 DEF Replay
  <2> QED
    BY <2>2 DEF DeviceInv, Answered
<1> QED
  BY <1>1, DeviceInvariant, PTL

(* runGui reports success only if no part of the storage failed and every  *)
(* submitted command is in the file.                                       *)
THEOREM FailuresAreReported == Spec => []SavedOrReported
<1>1. DeviceInv => SavedOrReported
  <2> SUFFICES ASSUME DeviceInv, main = "returned", appResult = "success"
               PROVE  ~failed /\ db = submitted /\ Len(commands) <= 1
    BY DEF SavedOrReported
  <2>1. ~failed /\ worker = "returned" /\ queue = <<>> /\ Len(commands) <= 1
    BY DEF DeviceInv, Reported, Places
  <2>2. PICK f : Replay(f, queue)
    BY <2>1 DEF DeviceInv, Replayed
  <2>3. db = submitted
    BY <2>1, <2>2 DEF Replay
  <2> QED
    BY <2>1, <2>3
<1> QED
  BY <1>1, DeviceInvariant, PTL

-----------------------------------------------------------------------------
(* The frame *)

FrameTypeOK ==
    /\ activeApplication \in Applications
    /\ detached \in [Applications -> BOOLEAN]
    /\ rendered \in [Applications -> Nat]
    /\ visible \in BOOLEAN
    /\ step \in {"begin", "rail", "central", "detached", "map", "log", "buttons"}

(* What has been rendered when the frame has come to a step. *)
RenderedSoFar ==
    /\ step \in {"rail", "central"} => \A app \in Applications : rendered[app] = 0
    /\ step = "detached" =>
          \A app \in Applications :
              rendered[app] = IF visible /\ app = activeApplication /\ ~detached[app]
                              THEN 1 ELSE 0
    /\ RenderedOnce

FrameInv == FrameTypeOK /\ RenderedSoFar

(* Every step of the window keeps FrameInv. *)
LEMMA FrameKept ==
    ASSUME FrameInv, [WorkspaceNext]_workspaceVars
    PROVE  FrameInv'
<1> USE DEF FrameInv, FrameTypeOK, RenderedSoFar, RenderedOnce
<1>1. CASE \E level \in Levels : Log(level)
  BY <1>1 DEF Log, workspace, frame
<1>2. CASE BeginWindow
  BY <1>2 DEF BeginWindow, Frame, workspace
<1>3. CASE ShowApplicationRail
  <2>1. /\ step = "rail" /\ step' = "central" /\ UNCHANGED <<rendered, visible>>
        /\ activeApplication' \in Applications
        /\ detached' \in [Applications -> BOOLEAN]
    BY <1>3 DEF ShowApplicationRail, Frame, Click, workspace
  <2> QED
    BY <2>1
<1>4. CASE ShowCentralApplication
  <2>1. /\ step = "central" /\ step' = "detached" /\ UNCHANGED <<activeApplication, visible>>
        /\ detached' \in [Applications -> BOOLEAN]
    BY <1>4 DEF ShowCentralApplication, Frame
  <2>2. rendered' = [app \in Applications |->
                        IF visible /\ app = activeApplication /\ ~detached'[activeApplication]
                        THEN rendered[app] + 1 ELSE rendered[app]]
    BY <1>4 DEF ShowCentralApplication, Render, RenderedInCenter
  <2>3. \A app \in Applications :
            rendered'[app] = IF visible' /\ app = activeApplication' /\ ~detached'[app]
                             THEN 1 ELSE 0
    BY <2>1, <2>2
  <2>4. rendered' \in [Applications -> Nat] /\ \A app \in Applications : rendered'[app] <= 1
    BY <2>2, <2>3
  <2> QED
    BY <2>1, <2>3, <2>4
<1>5. CASE ShowDetachedApplications
  <2>1. /\ step = "detached" /\ step' = "map" /\ UNCHANGED <<activeApplication, visible>>
        /\ detached' \in [Applications -> BOOLEAN]
    BY <1>5 DEF ShowDetachedApplications, Frame
  <2>2. rendered' = [app \in Applications |->
                        IF visible /\ detached[app] THEN rendered[app] + 1 ELSE rendered[app]]
    BY <1>5 DEF ShowDetachedApplications, Render
  <2>3. \A app \in Applications :
            rendered'[app] = IF visible /\ (app = activeApplication \/ detached[app])
                             THEN 1 ELSE 0
    BY <2>1, <2>2
  <2>4. rendered' \in [Applications -> Nat]
    BY <2>2
  <2>5. \A app \in Applications : rendered'[app] <= 1
    BY <2>3
  <2>6. visible' => rendered'[activeApplication'] = 1
    BY <2>1, <2>3
  <2> QED
    BY <2>1, <2>4, <2>5, <2>6
<1>6. CASE ShowApplicationMap
  BY <1>6 DEF ShowApplicationMap, Frame
<1>7. CASE ReadLog
  BY <1>7 DEF ReadLog, Frame, workspace
<1>8. CASE LogButtons
  BY <1>8 DEF LogButtons, Frame, workspace
<1>9. CASE Ended \/ UNCHANGED workspaceVars
  BY <1>9 DEF Ended, workspaceVars, workspace, frame
<1> QED
  BY <1>1, <1>2, <1>3, <1>4, <1>5, <1>6, <1>7, <1>8, <1>9 DEF WorkspaceNext

(* ShowCentralApplication and ShowDetachedApplications draw an application *)
(* at most once in a frame, and the active one in every visible frame,     *)
(* whichever button has moved it.                                          *)
THEOREM ApplicationsRenderedOnce == WorkspaceSpec => []RenderedOnce
<1>1. WorkspaceInit => FrameInv
  BY DEF WorkspaceInit, FrameInv, FrameTypeOK, RenderedSoFar, RenderedOnce
<1>2. FrameInv /\ [WorkspaceNext]_workspaceVars => FrameInv'
  BY FrameKept
<1>3. FrameInv => RenderedOnce
  BY DEF FrameInv, RenderedSoFar
<1> QED
  BY <1>1, <1>2, <1>3, PTL DEF WorkspaceSpec

-----------------------------------------------------------------------------
(* The log *)

(* A loop that picks elements keeps their order and loses none; picking    *)
(* all of them gives the list again.                                       *)
LEMMA PickedFacts ==
    ASSUME NEW T, NEW list \in Seq(T), NEW positions,
           NEW r, r = Picked(list, positions)
    PROVE  /\ r \in Seq(T)
           /\ \A i \in DOMAIN list : i \in positions => \E k \in DOMAIN r : r[k] = list[i]
           /\ \A k \in DOMAIN r : \E i \in DOMAIN list : i \in positions /\ r[k] = list[i]
           /\ \A k, l \in DOMAIN r :
                 k < l => \E i, j \in DOMAIN list :
                             /\ i < j /\ i \in positions /\ j \in positions
                             /\ r[k] = list[i] /\ r[l] = list[j]
           /\ DOMAIN list \subseteq positions => r = list
<1> DEFINE n == Len(list)
           Then(x, m) == IF m \in positions THEN Append(x, list[m]) ELSE x
           Steps(g) == g = [m \in 0..n |-> IF m = 0 THEN <<>> ELSE Then(g[m - 1], m)]
           F == CHOOSE g : Steps(g)
           Holds(x, m) ==
               /\ x \in Seq(T)
               /\ \A i \in 1..m : i \in positions => \E k \in DOMAIN x : x[k] = list[i]
               /\ \A k \in DOMAIN x : \E i \in 1..m : i \in positions /\ x[k] = list[i]
               /\ \A k, l \in DOMAIN x :
                     k < l => \E i, j \in 1..m :
                                 /\ i < j /\ i \in positions /\ j \in positions
                                 /\ x[k] = list[i] /\ x[l] = list[j]
               /\ 1..m \subseteq positions => Len(x) = m /\ \A k \in 1..m : x[k] = list[k]
           P == {m \in Nat : m <= n => Holds(F[m], m)}
<1>1. n \in Nat /\ DOMAIN list = 1..n /\ \A m \in 1..n : list[m] \in T
  OBVIOUS
<1>2. \A x \in Seq(T), m \in 1..n : Then(x, m) \in Seq(T)
  BY <1>1
<1>3. Picked(list, positions) = F[n]
  BY DEF Picked
<1>4. \E g : Steps(g)
  <2> DEFINE body == [m \in 1..n |-> [x \in Seq(T) |-> Then(x, m)]]
  <2>1. body \in [1..n -> [Seq(T) -> Seq(T)]]
    BY <1>2
  <2>2. <<>> \in Seq(T)
    OBVIOUS
  <2>3. \A m \in 1..n, x \in Seq(T) : body[m][x] = Then(x, m)
    OBVIOUS
  <2> DEFINE X == Seq(T)
             none == <<>>
  <2> HIDE DEF body, Then, n, X, none
  <2>4. PICK g \in [0..n -> Seq(T)] : g[0] = <<>> /\ \A m \in 1..n : g[m] = body[m][g[m - 1]]
    <3>1. body \in [1..n -> [X -> X]] /\ none \in X /\ n \in Nat
      BY <1>1, <2>1, <2>2 DEF X, none
    <3>2. \E g \in [0..n -> X] : g[0] = none /\ \A m \in 1..n : g[m] = body[m][g[m - 1]]
      BY <3>1, Iteration
    <3> QED
      BY <3>2, Zenon DEF X, none
  <2>5. \A m \in 0..n : g[m] = IF m = 0 THEN <<>> ELSE Then(g[m - 1], m)
    <3> TAKE m \in 0..n
    <3>1. CASE m = 0
      BY <2>4, <3>1
    <3>2. CASE m # 0
      <4>1. m \in 1..n /\ m - 1 \in 0..n
        BY <1>1, <3>2
      <4>2. g[m - 1] \in Seq(T)
        BY <4>1
      <4> QED
        BY <2>3, <2>4, <3>2, <4>1, <4>2
    <3> QED
      BY <3>1, <3>2
  <2>6. Steps(g)
    BY <2>5
  <2> QED
    BY <2>6
<1> HIDE DEF Then
<1>5. \A m \in 0..n : F[m] = IF m = 0 THEN <<>> ELSE Then(F[m - 1], m)
  <2>1. Steps(F)
    BY <1>4
  <2> HIDE DEF F
  <2> QED
    BY <2>1
<1> HIDE DEF F, Steps, n
<1>6. 0 \in P
  <2>1. F[0] = <<>>
    BY <1>1, <1>5
  <2>2. 1..0 = {} /\ DOMAIN <<>> = {} /\ <<>> \in Seq(T) /\ Len(<<>>) = 0
    OBVIOUS
  <2>3. Holds(<<>>, 0)
    BY <2>2, Zenon
  <2> HIDE DEF Holds
  <2> QED
    BY <2>1, <2>3
<1>7. ASSUME NEW m \in Nat, m \in P PROVE m + 1 \in P
  <2> DEFINE x == F[m]
             s == F[m + 1]
  <2> HIDE DEF Holds
  <2> SUFFICES ASSUME m + 1 <= n PROVE Holds(s, m + 1)
    OBVIOUS
  <2>1. m + 1 \in 1..n /\ list[m + 1] \in T
    BY <1>1
  <2>2. s = Then(x, m + 1)
    BY <1>1, <1>5, <2>1
  <2>3. Holds(x, m)
    BY <1>1, <1>7, <2>1
  <2> HIDE DEF x, s
  <2> USE DEF Holds
  <2>4. CASE m + 1 \notin positions
    <3>1. s = x
      BY <2>2, <2>4 DEF Then
    <3>2. \A i \in 1..m + 1 : i \in positions => i \in 1..m
      BY <2>4
    <3>3. \A i \in 1..m : i \in 1..m + 1
      OBVIOUS
    <3>4. ~(1..m + 1 \subseteq positions)
      BY <2>4
    <3>5. \A i \in 1..m + 1 : i \in positions => \E k \in DOMAIN x : x[k] = list[i]
      BY <2>3, <3>2
    <3>6. \A k \in DOMAIN x : \E i \in 1..m + 1 : i \in positions /\ x[k] = list[i]
      BY <2>3, <3>3
    <3>7. \A k, l \in DOMAIN x :
             k < l => \E i, j \in 1..m + 1 :
                         /\ i < j /\ i \in positions /\ j \in positions
                         /\ x[k] = list[i] /\ x[l] = list[j]
      BY <2>3, <3>3
    <3> QED
      BY <2>3, <3>1, <3>4, <3>5, <3>6, <3>7
  <2>5. CASE m + 1 \in positions
    <3>1. s = Append(x, list[m + 1])
      BY <2>2, <2>5 DEF Then
    <3>2. /\ s \in Seq(T) /\ Len(s) = Len(x) + 1 /\ Len(x) \in Nat
          /\ DOMAIN x = 1..Len(x) /\ DOMAIN s = 1..Len(x) + 1
          /\ \A k \in DOMAIN x : s[k] = x[k]
          /\ s[Len(x) + 1] = list[m + 1]
      BY <2>1, <2>3, <3>1, AppendFacts
    <3>3. /\ \A i \in 1..m + 1 : i = m + 1 \/ i \in 1..m
          /\ \A k \in DOMAIN s : k = Len(x) + 1 \/ k \in DOMAIN x
          /\ \A k \in DOMAIN x : k \in DOMAIN s
          /\ \A i \in 1..m : i \in 1..m + 1 /\ i < m + 1
          /\ Len(x) + 1 \in DOMAIN s /\ m + 1 \in 1..m + 1
      BY <3>2
    <3>4. \A i \in 1..m + 1 : i \in positions => \E k \in DOMAIN s : s[k] = list[i]
      <4> TAKE i \in 1..m + 1
      <4>1. CASE i = m + 1
        BY <3>2, <3>3, <4>1
      <4>2. CASE i \in 1..m
        BY <2>3, <3>2, <3>3, <4>2
      <4> QED
        BY <3>3, <4>1, <4>2
    <3>5. \A k \in DOMAIN s : \E i \in 1..m + 1 : i \in positions /\ s[k] = list[i]
      <4> TAKE k \in DOMAIN s
      <4>1. CASE k = Len(x) + 1
        BY <2>5, <3>2, <3>3, <4>1
      <4>2. CASE k \in DOMAIN x
        <5>1. PICK i \in 1..m : i \in positions /\ x[k] = list[i]
          BY <2>3, <4>2
        <5> QED
          BY <3>2, <3>3, <4>2, <5>1
      <4> QED
        BY <3>3, <4>1, <4>2
    <3>6. ASSUME NEW k \in DOMAIN s, NEW l \in DOMAIN s, k < l
          PROVE  \E i, j \in 1..m + 1 : /\ i < j /\ i \in positions /\ j \in positions
                                        /\ s[k] = list[i] /\ s[l] = list[j]
      <4>1. k \in DOMAIN x
        BY <3>2, <3>6
      <4>2. CASE l = Len(x) + 1
        <5>1. PICK i \in 1..m : i \in positions /\ x[k] = list[i]
          BY <2>3, <4>1
        <5> QED
          BY <2>5, <3>2, <3>3, <4>1, <4>2, <5>1
      <4>3. CASE l \in DOMAIN x
        <5>1. PICK i \in 1..m, j \in 1..m : /\ i < j /\ i \in positions /\ j \in positions
                                            /\ x[k] = list[i] /\ x[l] = list[j]
          BY <2>3, <3>6, <4>1, <4>3
        <5> QED
          BY <3>2, <3>3, <4>1, <4>3, <5>1
      <4> QED
        BY <3>3, <4>2, <4>3
    <3>7. ASSUME 1..m + 1 \subseteq positions
          PROVE  Len(s) = m + 1 /\ \A k \in 1..m + 1 : s[k] = list[k]
      <4>1. 1..m \subseteq positions
        BY <3>3, <3>7
      <4>2. Len(x) = m /\ \A k \in 1..m : x[k] = list[k]
        BY <2>3, <4>1
      <4> QED
        BY <3>2, <3>3, <4>2
    <3> QED
      BY <3>2, <3>4, <3>5, <3>6, <3>7
  <2> QED
    BY <2>4, <2>5
<1>8. Holds(F[n], n)
  <2> HIDE DEF P, Holds
  <2>1. Nat \subseteq P
    BY <1>6, <1>7, SetInduction
  <2>2. n \in P /\ n <= n
    BY <1>1, <2>1
  <2> QED
    BY <2>2 DEF P
<1>9. Holds(r, n)
  BY <1>3, <1>8
<1>10. DOMAIN list \subseteq positions => r = list
  <2> HAVE DOMAIN list \subseteq positions
  <2>1. Len(r) = n /\ \A k \in 1..n : r[k] = list[k]
    BY <1>1, <1>9
  <2> QED
    BY <1>1, <1>9, <2>1, SeqEqual DEF n
<1>11. \A i \in DOMAIN list : i \in positions => \E k \in DOMAIN r : r[k] = list[i]
  BY <1>1, <1>9
<1>12. \A k \in DOMAIN r : \E i \in DOMAIN list : i \in positions /\ r[k] = list[i]
  <2> TAKE k \in DOMAIN r
  <2>1. PICK i \in 1..n : i \in positions /\ r[k] = list[i]
    BY <1>9
  <2> QED
    BY <1>1, <2>1
<1>13. \A k, l \in DOMAIN r :
          k < l => \E i, j \in DOMAIN list :
                      /\ i < j /\ i \in positions /\ j \in positions
                      /\ r[k] = list[i] /\ r[l] = list[j]
  <2> SUFFICES ASSUME NEW k \in DOMAIN r, NEW l \in DOMAIN r, k < l
               PROVE  \E i, j \in DOMAIN list :
                          /\ i < j /\ i \in positions /\ j \in positions
                          /\ r[k] = list[i] /\ r[l] = list[j]
    OBVIOUS
  <2>1. PICK i \in 1..n, j \in 1..n : /\ i < j /\ i \in positions /\ j \in positions
                                      /\ r[k] = list[i] /\ r[l] = list[j]
    BY <1>9
  <2> QED
    BY <1>1, <2>1
<1>14. r \in Seq(T)
  BY <1>9
<1> HIDE DEF Holds
<1> QED
  BY <1>10, <1>11, <1>12, <1>13, <1>14, Zenon

(* What is left of a list that is cut to its last elements. *)
LEMMA LastOfFacts ==
    ASSUME NEW T, NEW list \in Seq(T), NEW bound \in Nat
    PROVE  LET l == LastOf(list, bound)
           IN  /\ l \in Seq(T)
               /\ Len(l) = IF Len(list) <= bound THEN Len(list) ELSE bound
               /\ \A i \in 1..Len(l) : l[i] = list[Len(list) - Len(l) + i]
<1>1. CASE Len(list) <= bound
  <2>1. LastOf(list, bound) = list
    BY <1>1 DEF LastOf
  <2> QED
    BY <1>1, <2>1
<1>2. CASE ~(Len(list) <= bound)
  <2> DEFINE l == SubSeq(list, Len(list) - bound + 1, Len(list))
  <2>1. LastOf(list, bound) = l
    BY <1>2 DEF LastOf
  <2>2. l \in Seq(T) /\ Len(l) = bound
    BY <1>2
  <2>3. \A i \in 1..bound : l[i] = list[Len(list) - bound + i]
    BY <1>2
  <2> QED
    BY <1>2, <2>1, <2>2, <2>3
<1> QED
  BY <1>1, <1>2

(* Numbers that increase are as far apart as their positions. *)
LEMMA IncreasingSpread ==
    ASSUME NEW s \in Seq(Int), Increasing(s),
           NEW i \in DOMAIN s, NEW j \in DOMAIN s, i <= j
    PROVE  j - i <= s[j] - s[i]
<1> DEFINE P == {k \in Nat : i + k <= Len(s) => k <= s[i + k] - s[i]}
<1>1. /\ Len(s) \in Nat /\ DOMAIN s = 1..Len(s) /\ i \in Nat /\ i >= 1
      /\ \A k \in 1..Len(s) : s[k] \in Int
  OBVIOUS
<1>2. 0 \in P
  <2>1. i + 0 = i /\ s[i] - s[i] = 0
    BY <1>1
  <2> QED
    BY <2>1
<1>3. ASSUME NEW k \in Nat, k \in P PROVE k + 1 \in P
  <2> SUFFICES ASSUME i + (k + 1) <= Len(s) PROVE k + 1 <= s[i + (k + 1)] - s[i]
    OBVIOUS
  <2>1. i + k \in 1..Len(s) /\ i + (k + 1) \in 1..Len(s) /\ i + k < i + (k + 1) /\ i + k <= Len(s)
    BY <1>1
  <2>2. s[i + k] < s[i + (k + 1)]
    BY <1>1, <2>1 DEF Increasing
  <2>3. k <= s[i + k] - s[i]
    BY <1>3, <2>1
  <2>4. s[i + k] \in Int /\ s[i + (k + 1)] \in Int /\ s[i] \in Int
    BY <1>1, <2>1
  <2> QED
    BY <2>2, <2>3, <2>4
<1> HIDE DEF P
<1>4. Nat \subseteq P
  BY <1>2, <1>3, SetInduction
<1>5. j - i \in P
  BY <1>1, <1>4
<1>6. i + (j - i) = j /\ j <= Len(s)
  BY <1>1
<1> QED
  BY <1>5, <1>6 DEF P

Entry == [sequence : Nat, level : Levels]

LogTypeOK ==
    /\ entries \in Seq(Entry)
    /\ nextSequence \in Nat \ {0}
    /\ output \in Seq(Nat)
    /\ displayedEntries \in Seq(Entry)
    /\ lastSequence \in Nat
    /\ severityEnabled \in [Levels -> BOOLEAN]
    /\ clearedUpTo \in Nat

(* The logger's list has the newest numbers, without a gap: as many as     *)
(* were not cleared, or as many as it may hold.                            *)
LoggerList ==
    /\ clearedUpTo < nextSequence
    /\ Len(entries) = IF nextSequence - 1 - clearedUpTo <= MaxLogEntries
                      THEN nextSequence - 1 - clearedUpTo ELSE MaxLogEntries
    /\ \A i \in 1..Len(entries) : entries[i].sequence = nextSequence - 1 - Len(entries) + i

Recent(q) == clearedUpTo < q /\ q < nextSequence /\ nextSequence - q <= MaxLogEntries

(* The window's list goes up to lastSequence, and of what the logger still *)
(* has up to there, nothing is missing.                                    *)
WindowList ==
    /\ lastSequence < nextSequence
    /\ \A i \in 1..Len(displayedEntries) : displayedEntries[i].sequence <= lastSequence
    /\ \A i, j \in 1..Len(displayedEntries) :
          i < j => displayedEntries[i].sequence < displayedEntries[j].sequence
    /\ \A q \in Nat : Recent(q) /\ q <= lastSequence
          => \E i \in 1..Len(displayedEntries) : displayedEntries[i].sequence = q

(* The stream has every record once, in order. *)
Stream ==
    /\ \A i \in DOMAIN output : output[i] < nextSequence
    /\ \A q \in 1..nextSequence - 1 : \E i \in DOMAIN output : output[i] = q
    /\ \A i, j \in DOMAIN output :
          i < j /\ output[i] # 0 /\ output[j] # 0 => output[i] < output[j]

LogInv == LogTypeOK /\ LoggerList /\ WindowList /\ Stream

(* A number is in the logger's list exactly if it is recent. *)
LEMMA RecentIsListed ==
    ASSUME LogTypeOK, LoggerList, NEW q \in Nat
    PROVE  Recent(q) <=> \E i \in 1..Len(entries) : entries[i].sequence = q
<1>1. Len(entries) \in Nat /\ MaxLogEntries \in Nat /\ nextSequence \in Nat /\ clearedUpTo \in Nat
  BY BoundsAssumption DEF LogTypeOK
<1>2. ASSUME Recent(q) PROVE \E i \in 1..Len(entries) : entries[i].sequence = q
  <2> DEFINE i == q - (nextSequence - 1 - Len(entries))
  <2>1. i \in 1..Len(entries) /\ nextSequence - 1 - Len(entries) + i = q
    BY <1>1, <1>2 DEF Recent, LoggerList
  <2> HIDE DEF i
  <2> QED
    BY <2>1 DEF LoggerList
<1>3. ASSUME NEW i \in 1..Len(entries), entries[i].sequence = q PROVE Recent(q)
  <2>1. q = nextSequence - 1 - Len(entries) + i
    BY <1>3 DEF LoggerList
  <2> QED
    BY <1>1, <2>1 DEF LoggerList, Recent
<1> QED
  BY <1>2, <1>3

(* EmitLogRecord. *)
LEMMA EmitStep ==
    ASSUME LogInv, NEW level \in Levels, EmitLogRecord(level),
           UNCHANGED <<displayedEntries, lastSequence, severityEnabled, clearedUpTo>>
    PROVE  LogInv'
<1> USE DEF LogInv
<1>0. /\ Len(entries) \in Nat /\ MaxLogEntries \in Nat \ {0} /\ nextSequence \in Nat \ {0}
      /\ clearedUpTo \in Nat /\ lastSequence \in Nat
  BY BoundsAssumption DEF LogTypeOK
<1>1. CASE output' = Append(output, 0) /\ UNCHANGED <<entries, nextSequence>>
  <2>1. /\ output' \in Seq(Nat) /\ DOMAIN output' = 1..Len(output) + 1
        /\ Len(output) \in Nat /\ DOMAIN output = 1..Len(output)
        /\ \A i \in DOMAIN output : output'[i] = output[i]
        /\ output'[Len(output) + 1] = 0
    BY <1>1, AppendFacts DEF LogTypeOK
  <2>2. \A i \in DOMAIN output' : i \in DOMAIN output \/ output'[i] = 0
    BY <2>1
  <2>3. Stream'
    BY <1>0, <1>1, <2>1, <2>2 DEF Stream
  <2> QED
    BY <1>1, <2>1, <2>3 DEF LogTypeOK, LoggerList, WindowList, Recent
<1>2. CASE /\ entries' = LastOf(Append(entries, [sequence |-> nextSequence, level |-> level]),
                                MaxLogEntries)
           /\ nextSequence' = nextSequence + 1
           /\ output' = Append(output, nextSequence)
  <2> DEFINE longer == Append(entries, [sequence |-> nextSequence, level |-> level])
             n == Len(entries)
  <2>1. /\ longer \in Seq(Entry) /\ Len(longer) = n + 1
        /\ \A i \in 1..n : longer[i] = entries[i]
        /\ longer[n + 1].sequence = nextSequence
    BY <1>0 DEF LogTypeOK, Entry
  <2> HIDE DEF longer
  <2>2. /\ entries' \in Seq(Entry)
        /\ Len(entries') = IF n + 1 <= MaxLogEntries THEN n + 1 ELSE MaxLogEntries
        /\ \A i \in 1..Len(entries') : entries'[i] = longer[n + 1 - Len(entries') + i]
    <3> DEFINE l == LastOf(longer, MaxLogEntries)
    <3>1. /\ l \in Seq(Entry)
          /\ Len(l) = IF Len(longer) <= MaxLogEntries THEN Len(longer) ELSE MaxLogEntries
          /\ \A i \in 1..Len(l) : l[i] = longer[Len(longer) - Len(l) + i]
      <4>1. longer \in Seq(Entry) /\ MaxLogEntries \in Nat
        BY <1>0, <2>1
      <4> QED
        BY <4>1, LastOfFacts, Zenon
    <3>2. entries' = l
      BY <1>2 DEF longer
    <3> HIDE DEF l
    <3>3. Len(l) = IF n + 1 <= MaxLogEntries THEN n + 1 ELSE MaxLogEntries
      BY <2>1, <3>1
    <3>4. \A i \in 1..Len(l) : l[i] = longer[n + 1 - Len(l) + i]
      <4>1. Len(longer) = n + 1
        BY <2>1
      <4> TAKE i \in 1..Len(l)
      <4>2. l[i] = longer[Len(longer) - Len(l) + i]
        BY <3>1
      <4> QED
        BY <4>1, <4>2
    <3> QED
      BY <3>1, <3>2, <3>3, <3>4
  <2>3. ASSUME NEW i \in 1..Len(entries')
        PROVE  entries'[i].sequence = nextSequence' - 1 - Len(entries') + i
    <3> DEFINE k == n + 1 - Len(entries') + i
    <3>1. k \in 1..n + 1 /\ Len(entries') \in Nat
      BY <1>0, <2>2
    <3>2. entries'[i] = longer[k]
      BY <2>2
    <3>3. CASE k = n + 1
      BY <1>0, <1>2, <2>1, <3>1, <3>2, <3>3
    <3>4. CASE k \in 1..n
      <4>1. longer[k].sequence = nextSequence - 1 - n + k
        BY <2>1, <3>4 DEF LoggerList
      <4> QED
        BY <1>0, <1>2, <3>1, <3>2, <4>1
    <3> QED
      BY <1>0, <3>1, <3>3, <3>4
  <2>4. LoggerList'
    <3>1. /\ clearedUpTo' < nextSequence'
          /\ Len(entries') = IF nextSequence' - 1 - clearedUpTo' <= MaxLogEntries
                             THEN nextSequence' - 1 - clearedUpTo' ELSE MaxLogEntries
      BY <1>0, <1>2, <2>2 DEF LoggerList
    <3> QED
      BY <2>3, <3>1 DEF LoggerList
  <2>5. WindowList'
    <3>1. \A q \in Nat : Recent(q)' /\ q <= lastSequence => Recent(q)
      BY <1>0, <1>2 DEF Recent, WindowList
    <3>2. lastSequence < nextSequence'
      BY <1>0, <1>2 DEF WindowList
    <3>3. \A q \in Nat : Recent(q)' /\ q <= lastSequence
             => \E i \in 1..Len(displayedEntries) : displayedEntries[i].sequence = q
      BY <3>1 DEF WindowList
    <3> QED
      BY <3>2, <3>3 DEF WindowList
  <2>6. /\ output' \in Seq(Nat) /\ DOMAIN output' = 1..Len(output) + 1
        /\ Len(output) \in Nat /\ DOMAIN output = 1..Len(output)
        /\ \A i \in DOMAIN output : output'[i] = output[i]
        /\ output'[Len(output) + 1] = nextSequence
    BY <1>0, <1>2, AppendFacts DEF LogTypeOK
  <2>7. Stream'
    <3>1. \A i \in DOMAIN output' : i \in DOMAIN output \/ i = Len(output) + 1
      BY <2>6
    <3>2. \A i \in DOMAIN output : output[i] \in Nat /\ i \in DOMAIN output'
      BY <2>6 DEF LogTypeOK
    <3>3. \A i \in DOMAIN output' : output'[i] < nextSequence'
      BY <1>0, <1>2, <2>6, <3>1, <3>2 DEF Stream
    <3>4. ASSUME NEW q \in 1..nextSequence' - 1 PROVE \E i \in DOMAIN output' : output'[i] = q
      <4>1. CASE q = nextSequence
        BY <2>6, <4>1
      <4>2. CASE q \in 1..nextSequence - 1
        BY <2>6, <3>2, <4>2 DEF Stream
      <4> QED
        BY <1>0, <1>2, <4>1, <4>2
    <3>5. ASSUME NEW i \in DOMAIN output', NEW j \in DOMAIN output', i < j,
                 output'[i] # 0, output'[j] # 0
          PROVE  output'[i] < output'[j]
      <4>1. i \in DOMAIN output
        BY <2>6, <3>1, <3>5
      <4>2. CASE j = Len(output) + 1
        BY <1>0, <2>6, <4>1, <4>2 DEF Stream
      <4>3. CASE j \in DOMAIN output
        BY <2>6, <3>5, <4>1, <4>3 DEF Stream
      <4> QED
        BY <3>1, <4>2, <4>3
    <3> QED
      BY <3>3, <3>4, <3>5 DEF Stream
  <2>8. LogTypeOK'
    BY <1>0, <1>2, <2>2, <2>6 DEF LogTypeOK
  <2> QED
    BY <2>4, <2>5, <2>7, <2>8
<1> QED
  BY <1>1, <1>2 DEF EmitLogRecord

(* GetLogEntriesSince gives what the window has not read, in order. *)
LEMMA NewEntries ==
    ASSUME LogTypeOK, LoggerList,
           NEW new, new = GetLogEntriesSince(lastSequence)
    PROVE  /\ new \in Seq(Entry)
           /\ \A k \in 1..Len(new) :
                 new[k].sequence > lastSequence /\ new[k].sequence < nextSequence
           /\ \A k, l \in 1..Len(new) : k < l => new[k].sequence < new[l].sequence
           /\ \A q \in Nat : Recent(q) /\ q > lastSequence
                 => \E k \in 1..Len(new) : new[k].sequence = q
<1> DEFINE positions == {i \in DOMAIN entries : entries[i].sequence > lastSequence}
<1>1. new = Picked(entries, positions)
  BY DEF GetLogEntriesSince
<1>2. entries \in Seq(Entry) /\ DOMAIN entries = 1..Len(entries) /\ Len(entries) \in Nat
  BY DEF LogTypeOK
<1> HIDE DEF positions
<1>3. /\ new \in Seq(Entry)
      /\ \A i \in DOMAIN entries : i \in positions => \E k \in DOMAIN new : new[k] = entries[i]
      /\ \A k \in DOMAIN new : \E i \in DOMAIN entries : i \in positions /\ new[k] = entries[i]
      /\ \A k, l \in DOMAIN new :
            k < l => \E i, j \in DOMAIN entries :
                        /\ i < j /\ i \in positions /\ j \in positions
                        /\ new[k] = entries[i] /\ new[l] = entries[j]
  <2>1. entries \in Seq(Entry)
    BY <1>2
  <2> QED
    BY <1>1, <2>1, PickedFacts
<1>4. DOMAIN new = 1..Len(new)
  BY <1>3
<1>5. nextSequence \in Nat /\ lastSequence \in Nat
  BY DEF LogTypeOK
<1>6. ASSUME NEW k \in 1..Len(new)
      PROVE  new[k].sequence > lastSequence /\ new[k].sequence < nextSequence
  <2>1. PICK i \in DOMAIN entries : i \in positions /\ new[k] = entries[i]
    BY <1>3, <1>4
  <2>2. entries[i].sequence = nextSequence - 1 - Len(entries) + i
    BY <1>2 DEF LoggerList
  <2> QED
    BY <1>2, <1>5, <2>1, <2>2 DEF positions
<1>7. ASSUME NEW k \in 1..Len(new), NEW l \in 1..Len(new), k < l
      PROVE  new[k].sequence < new[l].sequence
  <2>1. PICK i \in DOMAIN entries, j \in DOMAIN entries :
            /\ i < j /\ i \in positions /\ j \in positions
            /\ new[k] = entries[i] /\ new[l] = entries[j]
    <3>1. k \in DOMAIN new /\ l \in DOMAIN new
      BY <1>4
    <3> QED
      BY <1>3, <1>7, <3>1, Zenon
  <2>2. /\ entries[i].sequence = nextSequence - 1 - Len(entries) + i
        /\ entries[j].sequence = nextSequence - 1 - Len(entries) + j
    BY <1>2 DEF LoggerList
  <2> QED
    BY <1>2, <1>5, <2>1, <2>2
<1>8. ASSUME NEW q \in Nat, Recent(q), q > lastSequence
      PROVE  \E k \in 1..Len(new) : new[k].sequence = q
  <2>1. PICK i \in 1..Len(entries) : entries[i].sequence = q
    BY <1>8, RecentIsListed
  <2>2. i \in DOMAIN entries /\ i \in positions
    BY <1>2, <1>8, <2>1 DEF positions
  <2>3. PICK k \in DOMAIN new : new[k] = entries[i]
    BY <1>3, <2>2
  <2> QED
    BY <1>4, <2>1, <2>3
<1> QED
  BY <1>3, <1>6, <1>7, <1>8

(* ReadLog. *)
LEMMA ReadStep ==
    ASSUME LogInv, ReadLog
    PROVE  LogInv'
<1> DEFINE new == GetLogEntriesSince(lastSequence)
           both == displayedEntries \o new
           d == Len(displayedEntries)
           n == Len(new)
           kept == LastOf(both, MaxDisplayedEntries)
           last == IF new = <<>> THEN lastSequence ELSE Last(new).sequence
<1>1. /\ displayedEntries' = kept /\ lastSequence' = last
      /\ UNCHANGED <<entries, nextSequence, output, severityEnabled, clearedUpTo>>
  <2>1. /\ displayedEntries' = kept
        /\ lastSequence' = IF new = <<>> THEN lastSequence ELSE Last(new).sequence
    BY DEF ReadLog
  <2>2. UNCHANGED <<entries, nextSequence, output, severityEnabled, clearedUpTo>>
    BY DEF ReadLog, logger
  <2>3. Last(new) = Last(new)
    BY DEF Last, Last
  <2> QED
    BY <2>1, <2>2, <2>3, Zenon
<1>2. /\ displayedEntries \in Seq(Entry) /\ lastSequence \in Nat /\ nextSequence \in Nat \ {0}
      /\ MaxDisplayedEntries \in Nat /\ MaxLogEntries \in Nat \ {0}
      /\ MaxLogEntries <= MaxDisplayedEntries /\ d \in Nat
      /\ \A e \in Entry : e.sequence \in Nat
  BY BoundsAssumption DEF LogInv, LogTypeOK, Entry
<1>3. /\ new \in Seq(Entry)
      /\ \A k \in 1..Len(new) :
            new[k].sequence > lastSequence /\ new[k].sequence < nextSequence
      /\ \A k, l \in 1..Len(new) : k < l => new[k].sequence < new[l].sequence
      /\ \A q \in Nat : Recent(q) /\ q > lastSequence
            => \E k \in 1..Len(new) : new[k].sequence = q
  BY NewEntries DEF LogInv
<1>4. n \in Nat /\ (new # <<>> => n \in 1..n /\ Last(new) = new[n])
  <2> HIDE DEF new
  <2>1. n \in Nat
    BY <1>3
  <2>2. ASSUME new # <<>> PROVE n \in 1..n /\ Last(new) = new[n]
    BY <1>3, <2>2, FrontFacts
  <2> QED
    BY <2>1, <2>2
<1> HIDE DEF new
<1>5. /\ both \in Seq(Entry) /\ Len(both) = d + n
      /\ \A i \in 1..d : both[i] = displayedEntries[i]
      /\ \A i \in d + 1..d + n : both[i] = new[i - d] /\ i - d \in 1..n
      /\ \A i \in 1..n : both[d + i] = new[i]
  BY <1>2, <1>3, ConcatFacts
<1>6. /\ last \in Nat /\ lastSequence <= last /\ last < nextSequence
      /\ \A k \in 1..n : new[k].sequence <= last
  <2>1. CASE new = <<>>
    BY <1>2, <2>1 DEF LogInv, WindowList
  <2>2. CASE new # <<>>
    <3>1. new[n] \in Entry /\ last = new[n].sequence
      BY <1>3, <1>4, <2>2
    <3>2. \A k \in 1..n : new[k] \in Entry
      BY <1>3
    <3>3. \A k \in 1..n : k = n \/ k < n
      BY <1>4
    <3> QED
      BY <1>2, <1>3, <1>4, <2>2, <3>1, <3>2, <3>3
  <2> QED
    BY <2>1, <2>2
<1> HIDE DEF both, d, n, last
<1>7. ASSUME NEW i \in 1..d + n PROVE both[i].sequence \in Nat /\ both[i].sequence <= last
  <2>1. both[i] \in Entry
    BY <1>5
  <2>2. CASE i \in 1..d
    <3>1. displayedEntries[i].sequence <= lastSequence
      BY <2>2 DEF LogInv, WindowList, d
    <3> QED
      BY <1>2, <1>5, <1>6, <2>1, <2>2, <3>1
  <2>3. CASE i \in d + 1..d + n
    BY <1>2, <1>5, <1>6, <2>1, <2>3
  <2> QED
    BY <1>2, <1>4, <2>2, <2>3
<1>8. ASSUME NEW i \in 1..d + n, NEW j \in 1..d + n, i < j
      PROVE  both[i].sequence < both[j].sequence
  <2>1. CASE j \in 1..d
    <3>1. i \in 1..d
      BY <1>2, <1>8, <2>1
    <3> QED
      BY <1>5, <1>8, <2>1, <3>1 DEF LogInv, WindowList, d
  <2>2. CASE i \in d + 1..d + n
    <3>1. j \in d + 1..d + n
      BY <1>2, <1>4, <1>8, <2>2
    <3>2. i - d \in 1..n /\ j - d \in 1..n /\ i - d < j - d
      BY <1>2, <1>4, <1>5, <1>8, <2>2, <3>1
    <3> QED
      BY <1>3, <1>5, <2>2, <3>1, <3>2 DEF n
  <2>3. CASE i \in 1..d /\ j \in d + 1..d + n
    <3>1. displayedEntries[i].sequence <= lastSequence
      BY <2>3 DEF LogInv, WindowList, d
    <3>2. new[j - d].sequence > lastSequence /\ both[j] = new[j - d]
      BY <1>3, <1>5, <2>3 DEF n
    <3>3. both[i] \in Entry /\ both[j] \in Entry
      BY <1>5
    <3> QED
      BY <1>2, <1>5, <2>3, <3>1, <3>2, <3>3
  <2> QED
    BY <1>2, <1>4, <2>1, <2>2, <2>3
<1>9. ASSUME NEW q \in Nat, Recent(q), q <= last
      PROVE  \E p \in 1..d + n : both[p].sequence = q
  <2>1. CASE q <= lastSequence
    <3>1. PICK p \in 1..d : displayedEntries[p].sequence = q
      BY <1>9, <2>1 DEF LogInv, WindowList, d
    <3>2. p \in 1..d + n
      BY <1>2, <1>4
    <3> QED
      BY <1>5, <3>1, <3>2
  <2>2. CASE q > lastSequence
    <3>1. PICK k \in 1..n : new[k].sequence = q
      BY <1>3, <1>9, <2>2 DEF n
    <3>2. d + k \in 1..d + n
      BY <1>2, <1>4
    <3> QED
      BY <1>5, <3>1, <3>2
  <2> QED
    BY <1>2, <2>1, <2>2
<1>10. /\ kept \in Seq(Entry)
       /\ Len(kept) = IF Len(both) <= MaxDisplayedEntries THEN Len(both) ELSE MaxDisplayedEntries
       /\ \A i \in 1..Len(kept) : kept[i] = both[Len(both) - Len(kept) + i]
  <2>1. both \in Seq(Entry) /\ MaxDisplayedEntries \in Nat
    BY <1>2, <1>5
  <2> QED
    BY <2>1, LastOfFacts, Zenon
<1> DEFINE m == Len(kept)
           c == d + n - m
<1> HIDE DEF kept
<1>11. /\ m \in Nat /\ c \in Nat /\ (c = 0 \/ m = MaxDisplayedEntries)
       /\ \A i \in 1..m : c + i \in 1..d + n
  <2>1. Len(both) = d + n /\ d \in Nat /\ n \in Nat /\ MaxDisplayedEntries \in Nat
    BY <1>2, <1>4, <1>5
  <2>2. m = IF d + n <= MaxDisplayedEntries THEN d + n ELSE MaxDisplayedEntries
    BY <1>10, <2>1
  <2> HIDE DEF m
  <2> QED
    BY <2>1, <2>2
<1>12. \A i \in 1..m : kept[i] = both[c + i]
  <2> TAKE i \in 1..m
  <2>1. kept[i] = both[Len(both) - Len(kept) + i]
    BY <1>10
  <2>2. Len(both) - Len(kept) + i = c + i
    BY <1>2, <1>4, <1>5
  <2> QED
    BY <2>1, <2>2
<1> HIDE DEF c, m
<1>13. \A i \in 1..m : kept[i].sequence <= last
  BY <1>7, <1>11, <1>12
<1>14. \A i, j \in 1..m : i < j => kept[i].sequence < kept[j].sequence
  <2> SUFFICES ASSUME NEW i \in 1..m, NEW j \in 1..m, i < j
               PROVE  kept[i].sequence < kept[j].sequence
    OBVIOUS
  <2>1. c + i < c + j /\ c + i \in 1..d + n /\ c + j \in 1..d + n
    BY <1>11
  <2> QED
    BY <1>8, <1>12, <2>1
<1>15. ASSUME NEW q \in Nat, Recent(q), q <= last
       PROVE  \E i \in 1..m : kept[i].sequence = q
  <2>1. PICK p \in 1..d + n : both[p].sequence = q
    BY <1>9, <1>15
  <2> DEFINE numbers == [i \in 1..d + n |-> both[i].sequence]
  <2>2. numbers \in Seq(Int) /\ DOMAIN numbers = 1..d + n
    <3>1. \A i \in 1..d + n : both[i].sequence \in Int
      BY <1>7
    <3> QED
      BY <1>2, <1>4, <3>1
  <2>3. Increasing(numbers)
    BY <1>8 DEF Increasing
  <2>4. p <= d + n /\ d + n \in 1..d + n
    BY <1>2, <1>4
  <2>5. d + n - p <= numbers[d + n] - numbers[p]
    <3> HIDE DEF numbers
    <3> DEFINE top == d + n
    <3>1. numbers \in Seq(Int) /\ p \in DOMAIN numbers /\ top \in DOMAIN numbers /\ p <= top
      BY <2>2, <2>4
    <3> HIDE DEF top
    <3>2. top - p <= numbers[top] - numbers[p]
      BY <2>3, <3>1, IncreasingSpread
    <3> QED
      BY <1>2, <1>4, <3>2 DEF top
  <2>6. d + n - p <= both[d + n].sequence - q
    BY <2>1, <2>4, <2>5
  <2>7. both[d + n].sequence \in Nat /\ both[d + n].sequence <= last
    BY <1>7, <2>4
  <2>8. d + n - p < MaxLogEntries
    BY <1>2, <1>4, <1>6, <1>15, <2>6, <2>7 DEF Recent
  <2>9. p - c \in 1..m /\ c + (p - c) = p
    BY <1>2, <1>4, <1>11, <2>8 DEF c
  <2> QED
    BY <1>12, <2>1, <2>9
<1>16. WindowList'
  <2>1. Len(displayedEntries') = m /\ displayedEntries' = kept
    BY <1>1 DEF m
  <2>2. \A q \in Nat : Recent(q)' = Recent(q)
    BY <1>1 DEF Recent
  <2> QED
    BY <1>1, <1>6, <1>13, <1>14, <1>15, <2>1, <2>2 DEF WindowList
<1>17. LogTypeOK'
  BY <1>1, <1>6, <1>10 DEF LogInv, LogTypeOK
<1> QED
  BY <1>1, <1>16, <1>17 DEF LogInv, LoggerList, Stream

(* Every step of the window and the logger keeps LogInv. *)
LEMMA LogStep ==
    ASSUME LogInv, [WorkspaceNext]_workspaceVars
    PROVE  LogInv'
<1> DEFINE log == <<entries, nextSequence, output, displayedEntries, lastSequence,
                    severityEnabled, clearedUpTo>>
<1>1. CASE \E level \in Levels : Log(level)
  <2>1. PICK level \in Levels : Log(level)
    BY <1>1
  <2>2. /\ EmitLogRecord(level)
        /\ UNCHANGED <<displayedEntries, lastSequence, severityEnabled, clearedUpTo>>
    BY <2>1 DEF Log, window
  <2> QED
    BY <2>2, EmitStep
<1>2. CASE UNCHANGED log
  BY <1>2 DEF LogInv, LogTypeOK, LoggerList, WindowList, Stream, Recent
<1>3. CASE ReadLog
  BY <1>3, ReadStep
<1>4. CASE LogButtons
  <2>1. UNCHANGED <<output, lastSequence>>
    BY <1>4 DEF LogButtons
  <2>2. CASE /\ UNCHANGED <<entries, nextSequence, displayedEntries, clearedUpTo>>
             /\ severityEnabled' \in [Levels -> BOOLEAN]
    BY <2>1, <2>2 DEF LogInv, LogTypeOK, LoggerList, WindowList, Stream, Recent
  <2>3. CASE /\ entries' = <<>> /\ displayedEntries' = <<>> /\ nextSequence' = nextSequence
             /\ clearedUpTo' = nextSequence - 1 /\ UNCHANGED severityEnabled
    <3>1. entries' \in Seq(Entry) /\ displayedEntries' \in Seq(Entry)
      BY <2>3
    <3>2. /\ nextSequence \in Nat \ {0} /\ MaxLogEntries \in Nat \ {0} /\ lastSequence \in Nat
          /\ clearedUpTo' \in Nat
      BY <2>3, BoundsAssumption DEF LogInv, LogTypeOK
    <3>3. LogTypeOK'
      BY <2>1, <2>3, <3>1, <3>2 DEF LogInv, LogTypeOK
    <3>4. LoggerList'
      BY <2>3, <3>2 DEF LoggerList
    <3>5. WindowList'
      <4>1. \A q \in Nat : ~Recent(q)'
        BY <2>3, <3>2 DEF Recent
      <4>2. lastSequence' < nextSequence'
        BY <2>1, <2>3 DEF LogInv, WindowList
      <4>3. Len(displayedEntries') = 0
        BY <2>3
      <4> QED
        BY <4>1, <4>2, <4>3 DEF WindowList
    <3>6. Stream'
      BY <2>1, <2>3 DEF LogInv, Stream
    <3> QED
      BY <3>3, <3>4, <3>5, <3>6 DEF LogInv
  <2>4. severityEnabled \in [Levels -> BOOLEAN]
    BY DEF LogInv, LogTypeOK
  <2> QED
    BY <1>4, <2>2, <2>3, <2>4 DEF LogButtons, SequenceAfterClear
<1>5. CASE \/ BeginWindow \/ ShowApplicationRail
           \/ ShowCentralApplication \/ ShowDetachedApplications
           \/ ShowApplicationMap \/ Ended \/ UNCHANGED workspaceVars
  <2>1. UNCHANGED log
    BY <1>5 DEF BeginWindow, ShowApplicationRail,
       ShowCentralApplication, ShowDetachedApplications,
       ShowApplicationMap, Ended, workspaceVars, logger, window
  <2> QED
    BY <1>2, <2>1
<1> QED
  BY <1>1, <1>3, <1>4, <1>5 DEF WorkspaceNext

(* LogInv says what LastEntriesShown does. *)
LEMMA LogInvSuffices ==
    ASSUME LogInv
    PROVE  LastEntriesShown
<1> DEFINE recent == {q \in clearedUpTo + 1 .. nextSequence - 1 : nextSequence - q <= MaxLogEntries}
<1>1. /\ nextSequence \in Nat \ {0} /\ clearedUpTo \in Nat /\ MaxLogEntries \in Nat
      /\ entries \in Seq(Entry) /\ displayedEntries \in Seq(Entry) /\ output \in Seq(Nat)
      /\ lastSequence \in Nat /\ severityEnabled \in [Levels -> BOOLEAN]
      /\ \A e \in Entry : e.sequence \in Nat /\ e.level \in Levels
  BY BoundsAssumption DEF LogInv, LogTypeOK, Entry
<1>2. /\ DOMAIN entries = 1..Len(entries) /\ DOMAIN displayedEntries = 1..Len(displayedEntries)
      /\ \A i \in DOMAIN entries : entries[i] \in Entry
      /\ \A i \in DOMAIN displayedEntries : displayedEntries[i] \in Entry
  BY <1>1
<1>3. \A q : q \in recent <=> q \in Nat /\ Recent(q)
  BY <1>1 DEF Recent
<1> HIDE DEF recent
<1>4. {entries[i].sequence : i \in DOMAIN entries} = recent
  <2>1. ASSUME NEW i \in DOMAIN entries PROVE entries[i].sequence \in recent
    <3>1. entries[i].sequence \in Nat
      BY <1>1, <1>2
    <3> QED
      BY <1>2, <1>3, <3>1, RecentIsListed DEF LogInv
  <2>2. ASSUME NEW q \in recent PROVE \E i \in DOMAIN entries : entries[i].sequence = q
    BY <1>2, <1>3, RecentIsListed DEF LogInv
  <2> QED
    BY <2>1, <2>2
<1>5. {q \in recent : q <= lastSequence} \subseteq
          {displayedEntries[i].sequence : i \in DOMAIN displayedEntries}
  <2> SUFFICES ASSUME NEW q \in recent, q <= lastSequence
               PROVE  \E i \in DOMAIN displayedEntries : displayedEntries[i].sequence = q
    OBVIOUS
  <2> QED
    BY <1>2, <1>3 DEF LogInv, WindowList
<1>6. Increasing(Numbers(entries))
  <2> SUFFICES ASSUME NEW i \in 1..Len(entries), NEW j \in 1..Len(entries), i < j
               PROVE  entries[i].sequence < entries[j].sequence
    BY <1>2 DEF Increasing, Numbers
  <2>1. /\ entries[i].sequence = nextSequence - 1 - Len(entries) + i
        /\ entries[j].sequence = nextSequence - 1 - Len(entries) + j
    BY DEF LogInv, LoggerList
  <2> QED
    BY <1>1, <2>1
<1>7. Increasing(Numbers(displayedEntries))
  BY <1>2 DEF Increasing, Numbers, LogInv, WindowList
<1>8. {output[i] : i \in DOMAIN output} \ {0} = 1..nextSequence - 1
  <2>1. \A i \in DOMAIN output : output[i] \in Nat /\ output[i] < nextSequence
    BY <1>1 DEF LogInv, Stream
  <2>2. \A q \in 1..nextSequence - 1 : q # 0 /\ \E i \in DOMAIN output : output[i] = q
    BY <1>1 DEF LogInv, Stream
  <2> QED
    BY <1>1, <2>1, <2>2
<1>9. (\A level \in Levels : severityEnabled[level]) => VisibleRows = displayedEntries
  <2> HAVE \A level \in Levels : severityEnabled[level]
  <2> DEFINE positions == {i \in DOMAIN displayedEntries :
                              severityEnabled[displayedEntries[i].level]}
  <2>1. DOMAIN displayedEntries \subseteq positions
    BY <1>1, <1>2
  <2>2. VisibleRows = Picked(displayedEntries, positions)
    BY DEF VisibleRows
  <2> HIDE DEF positions
  <2> QED
    BY <1>1, <2>1, <2>2, PickedFacts
<1>10. \A i, j \in DOMAIN output :
          i < j /\ output[i] # 0 /\ output[j] # 0 => output[i] < output[j]
  BY DEF LogInv, Stream
<1> QED
  BY <1>4, <1>5, <1>6, <1>7, <1>8, <1>9, <1>10 DEF LastEntriesShown, recent

(* What the log window and the stream show of the log, with any bounds on  *)
(* the two lists such that the window's is not the shorter one.            *)
THEOREM LogWindowShowsTheLog == WorkspaceSpec => []LastEntriesShown
<1>1. WorkspaceInit => LogInv
  <2> SUFFICES ASSUME WorkspaceInit PROVE LogInv
    OBVIOUS
  <2>1. /\ entries = <<>> /\ nextSequence = 1 /\ output = <<>> /\ displayedEntries = <<>>
        /\ lastSequence = 0 /\ severityEnabled = [level \in Levels |-> TRUE] /\ clearedUpTo = 0
    BY DEF WorkspaceInit
  <2>2. MaxLogEntries \in Nat
    BY BoundsAssumption
  <2>3. \A q \in Nat : ~Recent(q)
    BY <2>1 DEF Recent
  <2> QED
    BY <2>1, <2>2, <2>3 DEF LogInv, LogTypeOK, LoggerList, WindowList, Stream
<1>2. LogInv /\ [WorkspaceNext]_workspaceVars => LogInv'
  BY LogStep
<1>3. LogInv => LastEntriesShown
  BY LogInvSuffices
<1> QED
  BY <1>1, <1>2, <1>3, PTL DEF WorkspaceSpec

-----------------------------------------------------------------------------
(* The console *)

Forms == [type : MessageTypes, clientId : Seq(Characters),
          fields : [OptionalFields -> Seq(Characters)]]
Statuses == {"Offline", "Connecting", "Connected", "Reconnecting", "Disconnecting", "Error"}
Consoles == [form : Forms, status : Statuses]

ConsoleTypeOK ==
    /\ console \in Consoles
    /\ guiThread.at \in {"form", "button"} => guiThread.copy \in Consoles
    /\ \A w \in Threads :
          /\ transport[w].status \in Statuses \cup {Nothing}
          /\ transport[w].at = "update" => transport[w].copy \in Consoles
    /\ guiThread = [at |-> guiThread.at, copy |-> guiThread.copy]
    /\ DOMAIN transport = Threads
    /\ typed \in Forms
    /\ overwritten \in BOOLEAN
    /\ sent # Nothing => sent.form \in Forms /\ sent.typed \in Forms

(* As long as no thread of the transport has undone an edit, the console   *)
(* and the copy of the frame have what the user typed.                     *)
Mirror ==
    /\ ~overwritten => console.form = typed
    /\ ~overwritten /\ guiThread.at \in {"form", "button"} => guiThread.copy.form = typed
    /\ sent # Nothing /\ ~sent.lost => sent.form = sent.typed

ConsoleInv == ConsoleTypeOK /\ Mirror /\ StatusKeptByForm

(* A form that the user has edited is a form. *)
LEMMA EditedIsForm ==
    ASSUME NEW form \in Forms, NEW edited \in Edited(form)
    PROVE  edited \in Forms
<1>1. CASE \E t \in MessageTypes : edited = [form EXCEPT !.type = t]
  BY <1>1 DEF Forms
<1>2. CASE \E id \in ClientIds : edited = [form EXCEPT !.clientId = id]
  BY <1>2, TextsAssumption DEF Forms
<1>3. CASE \E f \in VisibleFields(form.type), text \in Texts :
               edited = [form EXCEPT !.fields[f] = text]
  <2>1. PICK f \in VisibleFields(form.type), text \in Texts :
            edited = [form EXCEPT !.fields[f] = text]
    BY <1>3
  <2>2. text \in Seq(Characters)
    BY TextsAssumption
  <2>3. [form.fields EXCEPT ![f] = text] \in [OptionalFields -> Seq(Characters)]
    BY <2>2 DEF Forms
  <2>4. edited = [form EXCEPT !.fields = [form.fields EXCEPT ![f] = text]]
    BY <2>1
  <2> QED
    BY <2>3, <2>4 DEF Forms
<1> QED
  BY <1>1, <1>2, <1>3 DEF Edited

(* Every step of the application keeps ConsoleInv. *)
LEMMA ConsoleStep ==
    ASSUME ConsoleInv, [ApplicationNext]_applicationVars
    PROVE  ConsoleInv'
<1> DEFINE shared == <<console, guiThread, transport, sent, typed, overwritten, shown>>
<1> USE DEF ConsoleInv, ConsoleTypeOK, Mirror, StatusKeptByForm
<1>1. CASE UNCHANGED shared
  BY <1>1
<1>2. CASE Start
  <2>1. /\ UNCHANGED <<console, transport, sent, typed, overwritten, shown>>
        /\ UNCHANGED guiThread \/ \E at \in {"closing", "idle"} : guiThread' = [guiThread EXCEPT !.at = at]
    BY <1>2 DEF Start, observed
  <2>2. CASE UNCHANGED guiThread
    BY <1>1, <2>1, <2>2
  <2>3. CASE \E at \in {"closing", "idle"} : guiThread' = [guiThread EXCEPT !.at = at]
    <3>1. guiThread'.at \in {"closing", "idle"} /\ guiThread' = [at |-> guiThread'.at, copy |-> guiThread'.copy]
      BY <2>3
    <3> QED
      BY <2>1, <3>1
  <2> QED
    BY <2>1, <2>2, <2>3
<1>3. CASE RunStops \/ RunOffline
  <2>1. /\ UNCHANGED <<console, guiThread, sent, typed, overwritten, shown>>
        /\ \/ UNCHANGED transport
           \/ \E s \in Statuses : transport' =
              [transport EXCEPT !["service"] = [at |-> "snapshot", copy |-> Nothing, status |-> s]]
    BY <1>3 DEF RunStops, RunOffline, Begin, observed, Statuses
  <2> QED
    BY <1>1, <2>1 DEF Threads
<1>4. CASE \E w \in Threads : SnapshotConsole(w)
  <2>1. PICK w \in Threads : SnapshotConsole(w)
    BY <1>4
  <2>2. /\ UNCHANGED <<console, guiThread, sent, typed, overwritten, shown>>
        /\ transport' = [transport EXCEPT ![w].at = "update", ![w].copy = console]
    BY <2>1 DEF SnapshotConsole, observed
  <2> QED
    BY <2>2
<1>5. CASE \E w \in Threads : UpdateConsole(w)
  <2>1. PICK w \in Threads : UpdateConsole(w)
    BY <1>5
  <2> DEFINE copy == transport[w].copy
             new == IF transport[w].status = Nothing THEN copy
                    ELSE [copy EXCEPT !.status = transport[w].status]
  <2>2. /\ transport[w].at = "update" /\ console' = new /\ shown' = new.status
        /\ overwritten' = (overwritten \/ new.form # console.form)
        /\ transport' = [transport EXCEPT ![w] = Idle]
        /\ UNCHANGED <<guiThread, sent, typed>>
    BY <2>1 DEF UpdateConsole
  <2>3. new \in Consoles
    BY <2>2 DEF Consoles
  <2> HIDE DEF new
  <2> QED
    BY <2>2, <2>3 DEF Idle
<1>6. CASE \/ \E s \in {"Connecting", "Error"} : SetStatus(s)
           \/ \E s \in {"Connected", "Reconnecting", "Error"} : CallbackStatus(s)
           \/ \E w \in {"service", "callback"} : ReportError(w)
  <2>1. /\ UNCHANGED <<console, guiThread, sent, typed, overwritten, shown>>
        /\ \E w \in Threads, s \in Statuses \cup {Nothing} : transport' =
              [transport EXCEPT ![w] = [at |-> "snapshot", copy |-> Nothing, status |-> s]]
    BY <1>6 DEF SetStatus, CallbackStatus, ReportError, Begin, observed,
       Statuses, Threads
  <2> QED
    BY <2>1
<1>7. CASE GuiSnapshot
  <2>1. guiThread' = [at |-> "form", copy |-> console]
        /\ UNCHANGED <<console, transport, sent, typed, overwritten, shown>>
    BY <1>7 DEF GuiSnapshot, observed
  <2> QED
    BY <2>1
<1>8. CASE UpdateConsoleForm
  <2>1. /\ guiThread.at = "form" /\ guiThread.copy \in Consoles
        /\ UNCHANGED <<transport, sent, overwritten, shown>>
    BY <1>8 DEF UpdateConsoleForm
  <2>2. PICK copy \in Consoles :
            /\ guiThread' = [at |-> "button", copy |-> copy]
            /\ console' = FormOnly(copy)
            /\ (typed' = typed /\ copy = guiThread.copy) \/ typed' = copy.form
    <3>1. CASE /\ guiThread' = [guiThread EXCEPT !.at = "button"]
               /\ console' = FormOnly(guiThread.copy)
               /\ UNCHANGED typed
      BY <2>1, <3>1
    <3>2. CASE \E form \in Edited(guiThread.copy.form) :
                  /\ guiThread' = [at |-> "button", copy |-> [guiThread.copy EXCEPT !.form = form]]
                  /\ console' = FormOnly([guiThread.copy EXCEPT !.form = form])
                  /\ typed' = form
      <4>1. PICK form \in Edited(guiThread.copy.form) :
                  /\ guiThread' = [at |-> "button", copy |-> [guiThread.copy EXCEPT !.form = form]]
                  /\ console' = FormOnly([guiThread.copy EXCEPT !.form = form])
                  /\ typed' = form
        BY <3>2
      <4>2. form \in Forms
        BY <2>1, EditedIsForm DEF Consoles
      <4>3. [guiThread.copy EXCEPT !.form = form] \in Consoles /\ [guiThread.copy EXCEPT !.form = form].form = form
        BY <2>1, <4>2 DEF Consoles
      <4> QED
        BY <4>1, <4>3
    <3> QED
      BY <1>8, <3>1, <3>2 DEF UpdateConsoleForm
  <2>3. /\ console' \in Consoles /\ console'.form = copy.form /\ console'.status = console.status
        /\ copy.form \in Forms
    BY <2>2 DEF FormOnly, Consoles
  <2> QED
    BY <2>1, <2>2, <2>3
<1>9. CASE Send
  <2>1. /\ guiThread.at = "button" /\ UNCHANGED <<console, typed, overwritten, shown>>
        /\ \/ UNCHANGED transport
           \/ transport' = [transport EXCEPT !["gui"] =
                                [at |-> "snapshot", copy |-> Nothing, status |-> Nothing]]
        /\ \/ /\ sent' = [number |-> Requests + 1, form |-> guiThread.copy.form, typed |-> typed,
                          lost |-> overwritten]
              /\ guiThread' = [guiThread EXCEPT !.at = "record"]
           \/ guiThread' = [at |-> "idle", copy |-> Nothing] /\ UNCHANGED sent
    BY <1>9 DEF Send, Begin, observed
  <2>2. guiThread.copy.form \in Forms
    BY <2>1 DEF Consoles
  <2>3. guiThread' = [at |-> guiThread'.at, copy |-> guiThread'.copy] /\ guiThread'.at \in {"idle", "record"}
    BY <2>1
  <2>4. sent' = sent \/ /\ sent'.form = guiThread.copy.form /\ sent'.typed = typed
                        /\ sent'.lost = overwritten
    BY <2>1
  <2>5. /\ DOMAIN transport' = Threads
        /\ \A w \in Threads :
              /\ transport'[w].status \in Statuses \cup {Nothing}
              /\ transport'[w].at = "update" => transport'[w].copy \in Consoles
    BY <2>1
  <2> QED
    BY <2>1, <2>2, <2>3, <2>4, <2>5
<1>10. CASE NoButton \/ AddOutbound \/ GuiReturns \/ GuiThrows
  <2>1. /\ UNCHANGED <<console, transport, sent, typed, overwritten, shown>>
        /\ \E at \in {"idle", "ended"} : guiThread' = [at |-> at, copy |-> Nothing]
    BY <1>10 DEF NoButton, AddOutbound, GuiReturns, GuiThrows,
       observed
  <2> QED
    BY <2>1
<1>11. CASE \/ Enqueue \/ GuiReturned \/ Join \/ ClosePool
            \/ DrainPool \/ StartThrows \/ EnqueueThrows
            \/ StartTask \/ (\E t \in Tasks : TaskReturns(t))
            \/ SubscribeAcks \/ RunReturns \/ StorageFails
            \/ RunThrows \/ Finished \/ UNCHANGED applicationVars
  <2>1. UNCHANGED shared
    BY <1>11 DEF Enqueue, GuiReturned, Join, ClosePool,
       DrainPool, StartThrows, EnqueueThrows, RequestStops, StartTask,
       TaskReturns, SubscribeAcks, RunReturns, StorageFails,
       RunThrows, Finished, applicationVars, consoleVars, observed
  <2> QED
    BY <1>1, <2>1
<1> QED
  BY <1>2, <1>3, <1>4, <1>5, <1>6, <1>7, <1>8, <1>9, <1>10, <1>11
     DEF ApplicationNext, MainStep, WorkerStep, TransportStep,
         FrameStep

(* What is known of the console in every state. *)
THEOREM ConsoleInvariant == ApplicationSpec => []ConsoleInv
<1>1. ApplicationInit => ConsoleInv
  <2> SUFFICES ASSUME ApplicationInit PROVE ConsoleInv
    OBVIOUS
  <2>1. /\ console = [form |-> InitialForm, status |-> "Offline"]
        /\ guiThread = [at |-> "idle", copy |-> Nothing]
        /\ transport = [w \in Threads |-> Idle]
        /\ sent = Nothing /\ typed = InitialForm /\ overwritten = FALSE /\ shown = "Offline"
    BY DEF ApplicationInit
  <2>2. InitialForm \in Forms
    <3>1. <<"word">> \in Seq(Characters)
      BY DEF Characters
    <3> QED
      BY <3>1 DEF InitialForm, Forms, MessageTypes
  <2>3. console \in Consoles
    BY <2>1, <2>2 DEF Consoles, Statuses
  <2> QED
    BY <2>1, <2>2, <2>3 DEF ConsoleInv, ConsoleTypeOK, Mirror, StatusKeptByForm,
       Idle
<1>2. ConsoleInv /\ [ApplicationNext]_applicationVars => ConsoleInv'
  BY ConsoleStep
<1> QED
  BY <1>1, <1>2, PTL DEF ApplicationSpec

(* UpdateConsoleForm never takes back a status that UpdateConsole wrote    *)
(* while the frame was being drawn.                                        *)
THEOREM FormKeepsStatus == ApplicationSpec => []StatusKeptByForm
<1>1. ConsoleInv => StatusKeptByForm
  BY DEF ConsoleInv
<1> QED
  BY <1>1, ConsoleInvariant, PTL

-----------------------------------------------------------------------------
(* Requests *)

Plain == Characters \ {"control"}
Escaped == Plain \cup {"\\"}

(* EscapeJson as the run of its loop: what it has written after n          *)
(* characters.                                                             *)
LEMMA EscapeLoop ==
    ASSUME NEW text \in Seq(Plain)
    PROVE  \E g \in [0..Len(text) -> Seq(Escaped)] :
              /\ g[0] = <<>>
              /\ \A n \in 1..Len(text) : g[n] = g[n - 1] \o EscapeCharacter(text[n])
              /\ EscapeJson(text) = g[Len(text)]
<1> DEFINE N == Len(text)
           Steps(g) == g = [n \in 0..N |-> IF n = 0 THEN <<>>
                                           ELSE g[n - 1] \o EscapeCharacter(text[n])]
           F == CHOOSE g : Steps(g)
           X == Seq(Escaped)
           none == <<>>
           body == [n \in 1..N |-> [x \in X |-> x \o EscapeCharacter(text[n])]]
<1>1. N \in Nat /\ none \in X
  OBVIOUS
<1>2. \A n \in 1..N, x \in X : x \o EscapeCharacter(text[n]) \in X
  <2>1. \A n \in 1..N : EscapeCharacter(text[n]) \in Seq(Escaped)
    <3> TAKE n \in 1..N
    <3>1. text[n] \in Escaped /\ "\\" \in Escaped
      BY DEF Escaped
    <3> QED
      BY <3>1 DEF EscapeCharacter
  <2> QED
    BY <2>1
<1>3. body \in [1..N -> [X -> X]]
  BY <1>2
<1>4. \A n \in 1..N, x \in X : body[n][x] = x \o EscapeCharacter(text[n])
  OBVIOUS
<1>5. EscapeJson(text) = F[N]
  BY DEF EscapeJson
<1> HIDE DEF body, X, none, N
<1>6. PICK g \in [0..N -> X] : g[0] = none /\ \A n \in 1..N : g[n] = body[n][g[n - 1]]
  BY <1>1, <1>3, Iteration
<1>7. ASSUME NEW n \in 1..N PROVE g[n] = g[n - 1] \o EscapeCharacter(text[n])
  <2>1. n - 1 \in 0..N
    BY <1>1
  <2>2. g[n - 1] \in X
    BY <2>1
  <2> QED
    BY <1>4, <1>6, <2>2
<1>8. Steps(g)
  <2>1. ASSUME NEW n \in 0..N
        PROVE  g[n] = IF n = 0 THEN <<>> ELSE g[n - 1] \o EscapeCharacter(text[n])
    <3>1. CASE n = 0
      BY <1>6, <3>1 DEF none
    <3>2. CASE n # 0
      <4>1. n \in 1..N
        BY <1>1, <3>2
      <4> QED
        BY <1>7, <3>2, <4>1
    <3> QED
      BY <3>1, <3>2
  <2> QED
    BY <2>1
<1>9. Steps(F)
  BY <1>8
<1> HIDE DEF F
<1>10. \A n \in 0..N : F[n] = IF n = 0 THEN <<>>
                              ELSE F[n - 1] \o EscapeCharacter(text[n])
  BY <1>9
<1>11. DOMAIN F = 0..N
  BY <1>9
<1>12. ASSUME NEW n \in Nat PROVE n \in {k \in Nat : k <= N => F[k] \in X}
  <2> DEFINE P == {k \in Nat : k <= N => F[k] \in X}
  <2>1. 0 \in P
    BY <1>1, <1>10 DEF none
  <2>2. ASSUME NEW k \in Nat, k \in P PROVE k + 1 \in P
    <3> SUFFICES ASSUME k + 1 <= N PROVE F[k + 1] \in X
      OBVIOUS
    <3>1. k + 1 \in 0..N /\ k + 1 # 0 /\ (k + 1) - 1 = k /\ k + 1 \in 1..N /\ k <= N
      BY <1>1
    <3>2. F[k + 1] = F[k] \o EscapeCharacter(text[k + 1])
      BY <1>10, <3>1
    <3>3. F[k] \in X
      BY <2>2, <3>1
    <3> QED
      BY <1>2, <3>1, <3>2, <3>3
  <2> HIDE DEF P
  <2>3. Nat \subseteq P
    BY <2>1, <2>2, SetInduction
  <2> QED
    BY <2>3 DEF P
<1>13. F \in [0..N -> X]
  <2>1. \A n \in 0..N : F[n] \in X
    BY <1>1, <1>12
  <2>2. F = [n \in 0..N |-> F[n]]
    BY <1>9
  <2> QED
    BY <2>1, <2>2
<1>14. F[0] = <<>> /\ \A n \in 1..N : F[n] = F[n - 1] \o EscapeCharacter(text[n])
  <2>1. ASSUME NEW n \in 1..N PROVE n \in 0..N /\ n # 0
    BY <1>1
  <2>2. 0 \in 0..N
    BY <1>1
  <2> QED
    BY <1>10, <2>1, <2>2
<1> QED
  BY <1>5, <1>13, <1>14 DEF N, X

(* What Json::parse has read after n characters of a string that needs no  *)
(* character outside the grammar.                                          *)
LEMMA ReadLoop ==
    ASSUME NEW raw \in Seq(Escaped)
    PROVE  \E r : /\ r[0] = [text |-> <<>>, escape |-> FALSE, valid |-> TRUE]
                  /\ \A n \in 1..Len(raw) : r[n] = NextCharacter(r[n - 1], raw[n])
                  /\ JsonText(raw) =
                        IF r[Len(raw)].valid /\ ~r[Len(raw)].escape
                        THEN {r[Len(raw)].text} ELSE {}
<1> DEFINE N == Len(raw)
           start == [text |-> <<>>, escape |-> FALSE, valid |-> TRUE]
           Steps(g) == g = [n \in 0..N |-> IF n = 0 THEN start
                                           ELSE NextCharacter(g[n - 1], raw[n])]
           F == CHOOSE g : Steps(g)
           X == [text : Seq(Escaped), escape : BOOLEAN, valid : BOOLEAN]
           body == [n \in 1..N |-> [x \in X |-> NextCharacter(x, raw[n])]]
<1>1. N \in Nat /\ start \in X
  OBVIOUS
<1>2. ASSUME NEW n \in 1..N, NEW x \in X PROVE NextCharacter(x, raw[n]) \in X
  <2>1. Append(x.text, raw[n]) \in Seq(Escaped)
    OBVIOUS
  <2> QED
    BY <2>1 DEF NextCharacter
<1>3. body \in [1..N -> [X -> X]]
  BY <1>2
<1>4. \A n \in 1..N, x \in X : body[n][x] = NextCharacter(x, raw[n])
  OBVIOUS
<1>5. JsonText(raw) = IF F[N].valid /\ ~F[N].escape THEN {F[N].text} ELSE {}
  BY DEF JsonText
<1> HIDE DEF body, X, N, start
<1>6. PICK g \in [0..N -> X] : g[0] = start /\ \A n \in 1..N : g[n] = body[n][g[n - 1]]
  BY <1>1, <1>3, Iteration
<1>7. Steps(g)
  <2>1. ASSUME NEW n \in 0..N
        PROVE  g[n] = IF n = 0 THEN start ELSE NextCharacter(g[n - 1], raw[n])
    <3>1. CASE n = 0
      BY <1>6, <3>1
    <3>2. CASE n # 0
      <4>1. n \in 1..N /\ n - 1 \in 0..N
        BY <1>1, <3>2
      <4>2. g[n - 1] \in X
        BY <4>1
      <4> QED
        BY <1>4, <1>6, <3>2, <4>1, <4>2
    <3> QED
      BY <3>1, <3>2
  <2> QED
    BY <2>1
<1>8. Steps(F)
  BY <1>7
<1> HIDE DEF F
<1>9. \A n \in 0..N : F[n] = IF n = 0 THEN start ELSE NextCharacter(F[n - 1], raw[n])
  BY <1>8
<1>10. F[0] = start /\ \A n \in 1..N : F[n] = NextCharacter(F[n - 1], raw[n])
  <2>1. ASSUME NEW n \in 1..N PROVE n \in 0..N /\ n # 0
    BY <1>1
  <2>2. 0 \in 0..N
    BY <1>1
  <2> QED
    BY <1>9, <2>1, <2>2
<1> QED
  BY <1>5, <1>10 DEF N, start

(* The three ways in which the parser takes a character of a string that   *)
(* EscapeJson wrote.                                                       *)
LEMMA NextCharacterFacts ==
    ASSUME NEW t
    PROVE  /\ NextCharacter([text |-> t, escape |-> FALSE, valid |-> TRUE], "\\")
                = [text |-> t, escape |-> TRUE, valid |-> TRUE]
           /\ \A c \in Special :
                 NextCharacter([text |-> t, escape |-> TRUE, valid |-> TRUE], c)
                    = [text |-> Append(t, c), escape |-> FALSE, valid |-> TRUE]
           /\ \A c : c # "\\" /\ c # "control" /\ c \notin Special =>
                 NextCharacter([text |-> t, escape |-> FALSE, valid |-> TRUE], c)
                    = [text |-> Append(t, c), escape |-> FALSE, valid |-> TRUE]
<1>1. NextCharacter([text |-> t, escape |-> FALSE, valid |-> TRUE], "\\")
         = [text |-> t, escape |-> TRUE, valid |-> TRUE]
  BY DEF NextCharacter
<1>2. ASSUME NEW c \in Special
      PROVE  NextCharacter([text |-> t, escape |-> TRUE, valid |-> TRUE], c)
                = [text |-> Append(t, c), escape |-> FALSE, valid |-> TRUE]
  BY <1>2 DEF NextCharacter
<1>3. ASSUME NEW c, c # "\\", c # "control", c \notin Special
      PROVE  NextCharacter([text |-> t, escape |-> FALSE, valid |-> TRUE], c)
                = [text |-> Append(t, c), escape |-> FALSE, valid |-> TRUE]
  BY <1>3 DEF NextCharacter
<1> QED
  BY <1>1, <1>2, <1>3

(* What is escaped is read as it was, whatever the text, unless it has a   *)
(* control character without an escape.                                    *)
LEMMA RoundTrip ==
    ASSUME NEW text \in Seq(Plain)
    PROVE  JsonText(EscapeJson(text)) = {text}
<1> DEFINE N == Len(text)
           raw == EscapeJson(text)
<1>1. PICK g \in [0..N -> Seq(Escaped)] :
          /\ g[0] = <<>>
          /\ \A n \in 1..N : g[n] = g[n - 1] \o EscapeCharacter(text[n])
          /\ raw = g[N]
  BY EscapeLoop
<1>2. N \in Nat /\ \A n \in 1..N : text[n] \in Plain
  OBVIOUS
<1> HIDE DEF raw, N
<1>3. raw \in Seq(Escaped) /\ Len(raw) \in Nat
  BY <1>1, <1>2
<1>4. PICK r : /\ r[0] = [text |-> <<>>, escape |-> FALSE, valid |-> TRUE]
               /\ \A n \in 1..Len(raw) : r[n] = NextCharacter(r[n - 1], raw[n])
               /\ JsonText(raw) = IF r[Len(raw)].valid /\ ~r[Len(raw)].escape
                                  THEN {r[Len(raw)].text} ELSE {}
  BY <1>3, ReadLoop
<1>5. ASSUME NEW n \in 1..N
      PROVE  LET e == EscapeCharacter(text[n])
                 m == Len(g[n - 1])
             IN  /\ m \in Nat
                 /\ text[n] \in Special =>
                       Len(g[n]) = m + 2 /\ g[n][m + 1] = "\\" /\ g[n][m + 2] = text[n]
                 /\ text[n] \notin Special =>
                       Len(g[n]) = m + 1 /\ g[n][m + 1] = text[n]
                 /\ \A i \in 1..m : g[n][i] = g[n - 1][i]
  <2>1. n - 1 \in 0..N
    BY <1>2
  <2>2. g[n - 1] \in Seq(Escaped)
    BY <2>1
  <2>3. g[n] = g[n - 1] \o EscapeCharacter(text[n])
    BY <1>1
  <2> DEFINE h == g[n - 1]
             c == text[n]
  <2>4. c \in Escaped /\ "\\" \in Escaped
    BY <1>2 DEF Escaped
  <2>5. h \in Seq(Escaped) /\ Len(h) \in Nat
    BY <2>2
  <2> HIDE DEF h, c
  <2>6. CASE c \in Special
    <3>1. g[n] = h \o <<"\\", c>>
      BY <2>3, <2>6 DEF EscapeCharacter, h, c
    <3> QED
      BY <2>4, <2>5, <2>6, <3>1 DEF h, c
  <2>7. CASE c \notin Special
    <3>1. g[n] = h \o <<c>>
      BY <2>3, <2>7 DEF EscapeCharacter, h, c
    <3> QED
      BY <2>4, <2>5, <2>7, <3>1 DEF h, c
  <2> QED
    BY <2>6, <2>7
<1>6. ASSUME NEW n \in 0..N
      PROVE  Len(g[n]) \in Nat /\ Len(g[n]) <= Len(raw) /\ \A i \in 1..Len(g[n]) : raw[i] = g[n][i]
  <2> DEFINE Prefix(m) == Len(g[m]) <= Len(raw) /\ \A i \in 1..Len(g[m]) : raw[i] = g[m][i]
             P == {k \in Nat : k <= N => Prefix(N - k)}
  <2>0. \A m \in 0..N : Len(g[m]) \in Nat
    OBVIOUS
  <2>1. 0 \in P
    BY <1>1, <1>2, <1>3
  <2>2. ASSUME NEW k \in Nat, k \in P PROVE k + 1 \in P
    <3> SUFFICES ASSUME k + 1 <= N PROVE Prefix(N - (k + 1))
      OBVIOUS
    <3> DEFINE m == N - k
    <3>1. m \in 1..N /\ N - (k + 1) = m - 1 /\ k <= N /\ m - 1 \in 0..N /\ m \in 0..N
      BY <1>2
    <3>2. Prefix(m)
      BY <2>2, <3>1
    <3> HIDE DEF m
    <3>3. /\ Len(g[m - 1]) <= Len(g[m]) /\ Len(g[m - 1]) \in Nat /\ Len(g[m]) \in Nat
          /\ \A i \in 1..Len(g[m - 1]) : g[m][i] = g[m - 1][i]
      <4>1. Len(g[m - 1]) \in Nat /\ Len(g[m]) \in Nat
        BY <2>0, <3>1
      <4>2. Len(g[m]) = Len(g[m - 1]) + 2 \/ Len(g[m]) = Len(g[m - 1]) + 1
        BY <1>5, <3>1
      <4>3. \A i \in 1..Len(g[m - 1]) : g[m][i] = g[m - 1][i]
        BY <1>5, <3>1
      <4> QED
        BY <4>1, <4>2, <4>3
    <3>4. Prefix(m - 1)
      <4>1. Len(g[m - 1]) <= Len(raw)
        BY <1>3, <3>2, <3>3
      <4>2. ASSUME NEW i \in 1..Len(g[m - 1]) PROVE raw[i] = g[m - 1][i]
        <5>1. i \in 1..Len(g[m])
          BY <3>3
        <5> QED
          BY <3>2, <3>3, <5>1
      <4> QED
        BY <4>1, <4>2
    <3> QED
      BY <3>1, <3>4
  <2> HIDE DEF P
  <2>3. Nat \subseteq P
    BY <2>1, <2>2, SetInduction
  <2>4. N - n \in Nat /\ N - n <= N /\ N - (N - n) = n
    BY <1>2
  <2>5. Prefix(N - (N - n))
    BY <2>3, <2>4 DEF P
  <2> QED
    BY <2>0, <2>4, <2>5
<1>7. ASSUME NEW n \in Nat
      PROVE  n \in {k \in Nat : k <= N => r[Len(g[k])] =
                       [text |-> SubSeq(text, 1, k), escape |-> FALSE, valid |-> TRUE]}
  <2> DEFINE State(k) == [text |-> SubSeq(text, 1, k), escape |-> FALSE, valid |-> TRUE]
             P == {k \in Nat : k <= N => r[Len(g[k])] = State(k)}
  <2>1. 0 \in P
    <3>1. Len(g[0]) = 0 /\ SubSeq(text, 1, 0) = <<>>
      BY <1>1
    <3> QED
      BY <1>4, <3>1
  <2>2. ASSUME NEW k \in Nat, k \in P PROVE k + 1 \in P
    <3> SUFFICES ASSUME k + 1 <= N PROVE r[Len(g[k + 1])] = State(k + 1)
      OBVIOUS
    <3> DEFINE m == Len(g[k])
               c == text[k + 1]
    <3>1. k + 1 \in 1..N /\ (k + 1) - 1 = k /\ k <= N /\ k \in 0..N /\ k + 1 \in 0..N
      BY <1>2
    <3>2. r[m] = State(k)
      BY <2>2, <3>1
    <3>3. /\ m \in Nat
          /\ c \in Special =>
                Len(g[k + 1]) = m + 2 /\ g[k + 1][m + 1] = "\\" /\ g[k + 1][m + 2] = c
          /\ c \notin Special =>
                Len(g[k + 1]) = m + 1 /\ g[k + 1][m + 1] = c
      BY <1>5, <3>1
    <3>4. /\ Len(g[k + 1]) <= Len(raw)
          /\ \A i \in 1..Len(g[k + 1]) : raw[i] = g[k + 1][i]
      BY <1>6, <3>1
    <3>5. c \in Plain /\ c # "\\" /\ c # "control"
      BY <1>2, <3>1 DEF Plain, Characters, Special
    <3>6. Append(SubSeq(text, 1, k), c) = SubSeq(text, 1, k + 1)
      BY <3>1 DEF N
    <3> HIDE DEF m, c
    <3>7. CASE c \in Special
      <4>1. m + 1 \in 1..Len(raw) /\ m + 2 \in 1..Len(raw) /\ (m + 1) - 1 = m /\ (m + 2) - 1 = m + 1
        BY <1>3, <3>3, <3>4, <3>7
      <4>2. raw[m + 1] = "\\" /\ raw[m + 2] = c
        BY <3>3, <3>4, <3>7
      <4>3. r[m + 1] = NextCharacter(r[m], "\\")
        BY <1>4, <4>1, <4>2
      <4>4. r[m + 2] = NextCharacter(r[m + 1], c)
        BY <1>4, <4>1, <4>2
      <4>5. r[m + 1] = [text |-> SubSeq(text, 1, k), escape |-> TRUE, valid |-> TRUE]
        BY <3>2, <4>3, NextCharacterFacts
      <4>6. r[m + 2] = [text |-> Append(SubSeq(text, 1, k), c), escape |-> FALSE, valid |-> TRUE]
        BY <3>7, <4>4, <4>5, NextCharacterFacts
      <4> QED
        BY <3>3, <3>6, <3>7, <4>6
    <3>8. CASE c \notin Special
      <4>1. m + 1 \in 1..Len(raw) /\ (m + 1) - 1 = m
        BY <1>3, <3>3, <3>4, <3>8
      <4>2. raw[m + 1] = c
        BY <3>3, <3>4, <3>8
      <4>3. r[m + 1] = NextCharacter(r[m], c)
        BY <1>4, <4>1, <4>2
      <4>4. r[m + 1] = [text |-> Append(SubSeq(text, 1, k), c), escape |-> FALSE, valid |-> TRUE]
        BY <3>2, <3>5, <3>8, <4>3, NextCharacterFacts
      <4> QED
        BY <3>3, <3>6, <3>8, <4>4
    <3> QED
      BY <3>7, <3>8
  <2> HIDE DEF P
  <2>3. Nat \subseteq P
    BY <2>1, <2>2, SetInduction
  <2> QED
    BY <2>3 DEF P
<1>8. r[Len(raw)] = [text |-> SubSeq(text, 1, N), escape |-> FALSE, valid |-> TRUE]
  <2>1. N \in {k \in Nat : k <= N => r[Len(g[k])] =
                  [text |-> SubSeq(text, 1, k), escape |-> FALSE, valid |-> TRUE]}
    BY <1>2, <1>7
  <2> QED
    BY <1>1, <1>2, <2>1
<1>9. SubSeq(text, 1, N) = text
  BY DEF N
<1>10. r[Len(raw)].text = text /\ r[Len(raw)].valid /\ ~r[Len(raw)].escape
  BY <1>8, <1>9
<1>11. JsonText(raw) = {text}
  BY <1>4, <1>10
<1> QED
  BY <1>11 DEF raw

(* ParseRequest of what SerializeRequest writes for a form that has a      *)
(* valid client ID and no control character.                               *)
LEMMA ParsedAsSent ==
    ASSUME NEW form \in Forms,
           IsValidClientId(form.clientId),
           \A f \in OptionalFields : \A k \in DOMAIN form.fields[f] :
              form.fields[f][k] # "control"
    PROVE  LET parsed == ParseRequest(SerializeRequest(Request(form)))
           IN  /\ parsed.accepted
               /\ parsed.request.type = form.type
               /\ parsed.request.source_client_id = form.clientId
               /\ parsed.request.fields = form.fields
<1> DEFINE request == Request(form)
           object == SerializeRequest(request)
           id == form.clientId \o <<"word", "word">>
           time == <<"space">>
           Written(name, text) == object[name] = StringValue(EscapeJson(text))
<1>1. /\ form.type \in MessageTypes
      /\ form.clientId \in Seq(Characters)
      /\ form.fields \in [OptionalFields -> Seq(Characters)]
  BY DEF Forms
<1>2. "word" \in Plain /\ "space" \in Plain
  BY DEF Plain, Characters, Special
<1>3. form.clientId \in Seq(Plain)
  <2>1. \A k \in 1..Len(form.clientId) : form.clientId[k] \in Plain
    BY <1>1, <1>2 DEF IsValidClientId
  <2> QED
    BY <1>1, <2>1
<1>4. id \in Seq(Plain) /\ id # <<>> /\ time \in Seq(Plain) /\ time # <<>>
  <2>1. <<"word", "word">> \in Seq(Plain) /\ Len(<<"word", "word">>) = 2
    BY <1>2
  <2>2. Len(id) = Len(form.clientId) + 2
    BY <1>3, <2>1
  <2>3. id # <<>>
    BY <1>3, <2>2
  <2>4. time \in Seq(Plain) /\ time # <<>>
    BY <1>2
  <2> QED
    BY <1>3, <2>1, <2>3, <2>4
<1>5. \A f \in OptionalFields : form.fields[f] \in Seq(Plain)
  <2> TAKE f \in OptionalFields
  <2>1. form.fields[f] \in Seq(Characters)
    BY <1>1
  <2>2. \A k \in 1..Len(form.fields[f]) : form.fields[f][k] \in Plain
    BY <2>1 DEF Plain
  <2> QED
    BY <2>1, <2>2
<1>6. /\ request.id = id /\ request.type = form.type /\ request.created_utc = time
      /\ request.source_client_id = form.clientId /\ request.fields = form.fields
  BY DEF Request
<1> HIDE DEF request
<1>7. Envelope \cap OptionalFields = {}
  BY DEF Envelope, OptionalFields
<1>8. DOMAIN object = Envelope \cup OptionalFields
  BY <1>1, <1>6 DEF SerializeRequest
<1>9. /\ Written("id", id) /\ Written("created_utc", time)
      /\ Written("source_client_id", form.clientId)
      /\ object["type"] = StringValue(<<MessageTypeToString(form.type)>>)
  BY <1>6 DEF SerializeRequest, Envelope
<1>10. \A f \in OptionalFields : Written(f, form.fields[f])
  <2> TAKE f \in OptionalFields
  <2>1. f # "id" /\ f # "type" /\ f # "created_utc" /\ f # "source_client_id"
    BY <1>7 DEF Envelope
  <2>2. f \in Envelope \cup DOMAIN request.fields
    BY <1>1, <1>6
  <2> QED
    BY <1>6, <2>1, <2>2 DEF SerializeRequest
<1> HIDE DEF object, id, time
<1>11. ASSUME NEW name \in DOMAIN object, NEW text \in Seq(Plain), Written(name, text)
       PROVE  /\ object[name].string
              /\ JsonText(object[name].raw) = {text}
              /\ JsonStringValue(object, name) = text
  <2>1. object[name].string /\ object[name].raw = EscapeJson(text)
    BY <1>11 DEF StringValue
  <2>2. JsonText(object[name].raw) = {text}
    BY <2>1, RoundTrip
  <2> QED
    BY <2>1, <2>2 DEF JsonStringValue
<1>12. /\ "id" \in DOMAIN object /\ "created_utc" \in DOMAIN object
       /\ "source_client_id" \in DOMAIN object /\ "type" \in DOMAIN object
       /\ \A f \in OptionalFields : f \in DOMAIN object
  BY <1>8 DEF Envelope
<1>13. Readable(object) /\ ~NonStringEnvelopeField(object)
  <2>1. \A name \in {"id", "created_utc", "source_client_id"} :
           object[name].string /\ JsonText(object[name].raw) # {}
    <3>1. object["id"].string /\ JsonText(object["id"].raw) = {id}
      BY <1>4, <1>9, <1>11, <1>12
    <3>2. object["created_utc"].string /\ JsonText(object["created_utc"].raw) = {time}
      BY <1>4, <1>9, <1>11, <1>12
    <3>3. /\ object["source_client_id"].string
          /\ JsonText(object["source_client_id"].raw) = {form.clientId}
      BY <1>3, <1>9, <1>11, <1>12
    <3> QED
      BY <3>1, <3>2, <3>3
  <2>2. \A f \in OptionalFields :
           object[f].string /\ JsonText(object[f].raw) # {}
    BY <1>5, <1>10, <1>11, <1>12
  <2>3. object["type"].string
    BY <1>9 DEF StringValue
  <2>4. \A name \in DOMAIN object :
           name \in {"id", "created_utc", "source_client_id"} \cup OptionalFields \cup {"type"}
    BY <1>8 DEF Envelope
  <2>5. Readable(object)
    BY <2>1, <2>2, <2>4 DEF Readable
  <2>6. ~NonStringEnvelopeField(object)
    BY <2>1, <2>2, <2>3, <2>4 DEF NonStringEnvelopeField
  <2> QED
    BY <2>5, <2>6
<1>14. MessageTypeFromString(object["type"].raw[1]) = {form.type}
  <2>1. object["type"].raw[1] = MessageTypeToString(form.type)
    BY <1>9 DEF StringValue
  <2>2. \A t \in MessageTypes :
           MessageTypeToString(t) = MessageTypeToString(form.type) => t = form.type
    BY <1>1 DEF MessageTypes, MessageTypeToString, TypeNames
  <2> QED
    BY <1>1, <2>1, <2>2 DEF MessageTypeFromString
<1> DEFINE read == [id |-> JsonStringValue(object, "id"),
                    type |-> CHOOSE t \in MessageTypeFromString(object["type"].raw[1]) : TRUE,
                    created_utc |-> JsonStringValue(object, "created_utc"),
                    source_client_id |-> JsonStringValue(object, "source_client_id"),
                    fields |-> [name \in DOMAIN object \cap OptionalFields |->
                                   JsonStringValue(object, name)]]
<1>15. /\ read.id = id /\ read.created_utc = time /\ read.source_client_id = form.clientId
  BY <1>3, <1>4, <1>9, <1>11, <1>12
<1>16. read.type = form.type
  BY <1>14
<1>17. read.fields = form.fields
  <2>1. DOMAIN object \cap OptionalFields = OptionalFields
    BY <1>8
  <2>2. \A f \in OptionalFields : JsonStringValue(object, f) = form.fields[f]
    BY <1>5, <1>10, <1>11, <1>12
  <2>3. read.fields = [f \in OptionalFields |-> form.fields[f]]
    BY <2>1, <2>2
  <2> QED
    BY <1>1, <2>3
<1>18. ParseRequest(object) =
          IF MissingRequiredField(read) THEN Refused
          ELSE [accepted |-> TRUE, request |-> read]
  BY <1>12, <1>13, <1>14 DEF ParseRequest
<1> HIDE DEF read
<1>19. ~MissingRequiredField(read)
  <2>1. RequiredFields(form.type) \subseteq OptionalFields
    BY <1>1 DEF RequiredFields, OptionalFields, MessageTypes
  <2>2. DOMAIN read.fields = OptionalFields
    BY <1>1, <1>17
  <2> QED
    BY <1>4, <1>15, <1>16, <2>1, <2>2 DEF MissingRequiredField
<1>20. ParseRequest(object) = [accepted |-> TRUE, request |-> read]
  BY <1>18, <1>19
<1> QED
  BY <1>15, <1>16, <1>17, <1>20 DEF object, request

(* Whatever the user types and however the frames and the transport        *)
(* interleave, the server parses the request that was typed, when the      *)
(* client ID can be answered, no control character was pasted and no       *)
(* status change has undone an edit.                                       *)
THEOREM RequestsArrive == ApplicationSpec => []RequestArrivesAsTyped
<1>1. ConsoleInv => RequestArrivesAsTyped
  <2> SUFFICES ASSUME ConsoleInv, sent # Nothing, ~sent.lost,
                      IsValidClientId(sent.typed.clientId),
                      \A f \in OptionalFields : \A k \in DOMAIN sent.typed.fields[f] :
                         sent.typed.fields[f][k] # "control"
               PROVE  LET parsed == ParseRequest(SerializeRequest(
                                            Request(sent.form)))
                      IN  /\ parsed.accepted
                          /\ MessageTypeToString(parsed.request.type)
                                = messageTypeLabels[sent.typed.type + 1]
                          /\ parsed.request.source_client_id = sent.typed.clientId
                          /\ parsed.request.fields = sent.typed.fields
    BY DEF RequestArrivesAsTyped
  <2>1. sent.form = sent.typed /\ sent.form \in Forms
    BY DEF ConsoleInv, ConsoleTypeOK, Mirror
  <2> DEFINE parsed == ParseRequest(SerializeRequest(Request(sent.form)))
  <2>2. /\ parsed.accepted /\ parsed.request.type = sent.form.type
        /\ parsed.request.source_client_id = sent.form.clientId
        /\ parsed.request.fields = sent.form.fields
    BY <2>1, ParsedAsSent
  <2> HIDE DEF parsed
  <2>3. MessageTypeToString(parsed.request.type) = messageTypeLabels[sent.typed.type + 1]
    BY <2>1, <2>2 DEF MessageTypeToString, TypeNames, messageTypeLabels
  <2> QED
    BY <2>1, <2>2, <2>3 DEF parsed
<1> QED
  BY <1>1, ConsoleInvariant, PTL
=============================================================================
