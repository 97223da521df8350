---------------------------- MODULE MqttService ----------------------------
(***************************************************************************)
(* Watchlist/Messaging/MqttService.cpp: the connection lifecycle of the    *)
(* MQTT transport, its topic handlers and its outstanding operations.      *)
(*                                                                         *)
(* Three threads meet here: the service thread inside Run, a thread that   *)
(* uses the public interface, and the thread on which the Paho client      *)
(* delivers its callbacks one after the other.  The Paho client and the    *)
(* broker are external: they are modelled by the callbacks the code        *)
(* registers and the results of the calls the code makes.                  *)
(*                                                                         *)
(* Granularity.  A section under mutex_ is one step together with the      *)
(* notify_all that follows it: what a waiter tests changes under mutex_,   *)
(* so a waiter either sees the change or is blocked already.  The stop     *)
(* flag of Run is the exception.  It is set and notified without mutex_,   *)
(* so Run keeps mutex_ from the evaluation of a wait's predicate to the    *)
(* moment it blocks, in two steps.  Delays are not measured: a timed wait  *)
(* may time out whenever it is blocked.                                    *)
(***************************************************************************)
EXTENDS Naturals, Sequences, FiniteSets

CONSTANTS
    Topics,         \* topics the interface is used with
    Clients,        \* identities of Paho clients, used again once destroyed
    Ops,            \* identities of operation listeners, used again likewise
    MaxDisconnects, \* bound: calls of Disconnect from outside Run
    None

Threads == {"run", "caller", "callback"}

ASSUME BoundsAssumption ==
    /\ IsFiniteSet(Clients) /\ Clients # {}
    /\ IsFiniteSet(Ops) /\ Cardinality(Ops) > Cardinality(Topics)
    /\ None \notin Topics \cup Clients \cup Ops \cup Threads
    /\ MaxDisconnects \in Nat

VARIABLES
    status, shuttingDown, client,  \* status_, shuttingDown_, client_
    subscriptions,  \* the topics of subscriptions_
    pending,        \* pendingOperations_
    operationMutex, \* the thread that holds operationMutex_
    valid,          \* whether Run was given a host, a port and a client ID
    stop,           \* "no", "requested", "notified": the stop_token of Run
    disconnects,    \* calls of Disconnect from outside Run so far
    thread,         \* each thread: its place, its copy of client_, the call it
                    \* is making, the topics that needs, its tracked listener
    source,         \* the client making a callback; whether one more follows
    link,           \* external: each client's connection, the requests it has
                    \* to answer, the topics the broker delivers to it
    reported,       \* history: topics whose latest subscription failed loudly
    stale,          \* history: a released client's callback set the status
    missed          \* history: Run was told to stop while about to block

serviceVars == <<status, shuttingDown, client, subscriptions, pending>>
usage == <<valid, stop, disconnects>>
history == <<reported, stale, missed>>
vars == <<serviceVars, operationMutex, usage, thread, source, link, history>>

Idle(pc) == [at |-> pc, copy |-> None, call |-> None, todo |-> {}, op |-> None]
NoSource == [client |-> None, again |-> FALSE]
NoLink == [net |-> "closed", requests |-> <<>>, broker |-> {}]

Attached == {"Connected", "Reconnecting"}
Open == {c \in Clients : link[c].net # "closed"}

Init ==
    /\ status = "Offline" /\ shuttingDown = FALSE /\ client = None
    /\ subscriptions = {} /\ pending = {}
    /\ operationMutex = None
    /\ valid \in BOOLEAN /\ stop = "no" /\ disconnects = 0
    /\ thread = [a \in Threads |-> Idle(IF a = "run" THEN "loop" ELSE "idle")]
    /\ source = NoSource
    /\ link = [c \in Clients |-> NoLink]
    /\ reported = {} /\ stale = FALSE /\ missed = FALSE

At(a) == thread[a].at

(* mutex_ is held across steps only by Run, about to block. *)
MutexFree == At("run") \notin {"block1", "block2", "block3"}

(* stateChanged_.notify_all() *)
Notified == CASE At("run") = "wait1" -> "test1"
              [] At("run") = "wait2" -> "test2"
              [] At("run") = "wait3" -> "test3"
              [] OTHER -> At("run")

(* A thread moves on, in the second form after notify_all. *)
Become(a, next) == thread' = [thread EXCEPT ![a] = next]
BecomeNotifying(a, next) ==
    thread' = [thread EXCEPT !["run"].at = Notified, ![a] = next]
Go(a, pc) == Become(a, [thread[a] EXCEPT !.at = pc])
-----------------------------------------------------------------------------
(* ReleaseClient, called by Connect and by Disconnect under                *)
(* operationMutex_.                                                        *)

NotSerialised == TRUE   \* mutant: no operationMutex_
OperationMutexFree == operationMutex = None

AfterRelease(a) == IF thread[a].call = "connect" THEN "connecting" ELSE "offline"

ReleaseTake(a) ==
    /\ At(a) = "release" /\ MutexFree
    /\ client' = None
    /\ Become(a, [thread[a] EXCEPT !.copy = client,
                    !.at = IF client = None THEN AfterRelease(a) ELSE "drop"])
    /\ UNCHANGED <<status, shuttingDown, subscriptions, pending, operationMutex,
                   usage, source, link, history>>

OnlyForgotten(c) == link[c]   \* mutant: the client is not disconnected
AfterDrop(c) == NoLink

(* disconnect with a bounded wait, whose failure is only reported; then    *)
(* disable_callbacks, which does not wait for a callback that is running,  *)
(* and the end of this reference to the client.  A thread in the middle of *)
(* a call has another one: if disconnect failed the connection lasts until *)
(* that call ends, but as no callback is made for it any more the service  *)
(* cannot tell, and it counts as closed here.                              *)
ReleaseDrop(a) ==
    /\ At(a) = "drop"
    /\ link' = [link EXCEPT ![thread[a].copy] = AfterDrop(thread[a].copy)]
    /\ Become(a, [thread[a] EXCEPT !.copy = None, !.at = "clear"])
    /\ UNCHANGED <<serviceVars, operationMutex, usage, source, history>>

ReleaseClear(a) ==
    /\ At(a) = "clear" /\ MutexFree
    /\ pending' = {}
    /\ Go(a, AfterRelease(a))
    /\ UNCHANGED <<status, shuttingDown, client, subscriptions, operationMutex,
                   usage, source, link, history>>
-----------------------------------------------------------------------------
(* Connect, called by Run *)

(* ReportError(..., true) *)
LifecycleError == status' = IF shuttingDown THEN status ELSE "Error"

(* Invalid arguments are an error and nothing else happens.  Otherwise the *)
(* call goes on only if there is no connection or attempt already.         *)
Connect ==
    /\ At("run") = "connect"
    /\ \/ /\ ~valid
          /\ LifecycleError
          /\ Go("run", "test1")
          /\ UNCHANGED <<shuttingDown, operationMutex>>
       \/ /\ valid /\ OperationMutexFree
          /\ status \in Attached \cup {"Connecting"}
          /\ Go("run", "test1")
          /\ UNCHANGED <<status, shuttingDown, operationMutex>>
       \/ /\ valid /\ OperationMutexFree
          /\ status \notin Attached \cup {"Connecting"}
          /\ shuttingDown' = FALSE
          /\ operationMutex' = "run"
          /\ Become("run", [Idle("release") EXCEPT !.call = "connect"])
          /\ UNCHANGED status
    /\ UNCHANGED <<client, subscriptions, pending, usage, source, link, history>>

ConnectAnnounce ==
    /\ At("run") = "connecting"
    /\ status' = "Connecting"
    /\ Go("run", "create")
    /\ UNCHANGED <<shuttingDown, client, subscriptions, pending, operationMutex,
                   usage, source, link, history>>

FreeClients ==
    {c \in Clients \ Open : \A a \in Threads : c \notin {thread[a].copy, source.client}}

ConnectCreate ==
    /\ At("run") = "create"
    /\ FreeClients # {}
    /\ LET c == CHOOSE c \in FreeClients : TRUE
       IN  /\ client' = c
           /\ link' = [link EXCEPT ![c].net = "idle"]
    /\ Go("run", "dial")
    /\ UNCHANGED <<status, shuttingDown, subscriptions, pending, operationMutex,
                   usage, source, history>>

ConnectDial ==
    /\ At("run") = "dial"
    /\ link' = [link EXCEPT ![client].net = "connecting"]
    /\ operationMutex' = None
    /\ Become("run", Idle("test1"))
    /\ UNCHANGED <<serviceVars, usage, source, history>>

(* The construction of the client or the start of the attempt throws. *)
ConnectThrows ==
    /\ At("run") \in {"create", "dial"}
    /\ LifecycleError
    /\ operationMutex' = None
    /\ Become("run", Idle("test1"))
    /\ UNCHANGED <<shuttingDown, client, subscriptions, pending, usage, source,
                   link, history>>
-----------------------------------------------------------------------------
(* Disconnect, called at the end of Run and from outside *)

Disconnect(a) ==
    /\ \/ a = "run" /\ At(a) = "disconnect" /\ UNCHANGED disconnects
       \/ /\ a = "caller" /\ At(a) = "idle" /\ disconnects < MaxDisconnects
          /\ disconnects' = disconnects + 1
    /\ OperationMutexFree /\ MutexFree
    /\ operationMutex' = a
    /\ shuttingDown' = TRUE
    /\ Become(a, [Idle(IF client = None THEN "release" ELSE "disconnecting")
                    EXCEPT !.call = "disconnect"])
    /\ UNCHANGED <<status, client, subscriptions, pending, valid, stop, source,
                   link, history>>

DisconnectAnnounce(a) ==
    /\ At(a) = "disconnecting" /\ MutexFree
    /\ status' = "Disconnecting"
    /\ BecomeNotifying(a, [thread[a] EXCEPT !.at = "release"])
    /\ UNCHANGED <<shuttingDown, client, subscriptions, pending, operationMutex,
                   usage, source, link, history>>

DisconnectDone(a) ==
    /\ At(a) = "offline" /\ MutexFree
    /\ status' = "Offline"
    /\ operationMutex' = None
    /\ BecomeNotifying(a, Idle(IF a = "run" THEN "done" ELSE "idle"))
    /\ UNCHANGED <<shuttingDown, client, subscriptions, pending, usage, source,
                   link, history>>
-----------------------------------------------------------------------------
(* Run *)

Stopping == stop # "no"

(* What follows the two timed waits, still under mutex_: the untimed wait  *)
(* while there is a connection, and after an error a longer timed one.     *)
StopNotTested ==   \* mutant: the untimed wait tests only the status
    IF status \in Attached THEN "block3" ELSE "loop"
ThenWait3 == IF status \in Attached /\ ~Stopping THEN "block3" ELSE "loop"
ThenWait2 == IF status = "Error" /\ ~Stopping THEN "block2" ELSE ThenWait3

NeverTimesOut(n) == FALSE   \* mutant: the waits of Run have no time limit
TimesOut(n) == n \in {1, 2}

Timeout ==
    /\ \/ At("run") = "wait1" /\ TimesOut(1) /\ Go("run", ThenWait2)
       \/ At("run") = "wait2" /\ TimesOut(2) /\ Go("run", ThenWait3)
    /\ UNCHANGED <<serviceVars, operationMutex, usage, source, link, history>>

(* The top of the loop, the evaluation of each wait's predicate, and the   *)
(* moment the wait releases mutex_ and blocks.                             *)
RunStep ==
    /\ \/ /\ At("run") = "loop"
          /\ Go("run", CASE Stopping -> "disconnect"
                         [] ~Stopping /\ status \in {"Offline", "Error"} -> "connect"
                         [] OTHER -> "test1")
       \/ /\ At("run") = "test1"
          /\ Go("run", IF Stopping \/ status \in Attached \cup {"Error"}
                       THEN ThenWait2 ELSE "block1")
       \/ /\ At("run") = "test2"
          /\ Go("run", IF Stopping \/ status # "Error" THEN ThenWait3 ELSE "block2")
       \/ At("run") = "test3" /\ Go("run", ThenWait3)
       \/ At("run") = "block1" /\ Go("run", "wait1")
       \/ At("run") = "block2" /\ Go("run", "wait2")
       \/ At("run") = "block3" /\ Go("run", "wait3")
    /\ UNCHANGED <<serviceVars, operationMutex, usage, source, link, history>>

(* Also what a notify_all that changed no predicate amounts to. *)
SpuriousWakeup ==
    /\ Notified # At("run")
    /\ Go("run", Notified)
    /\ UNCHANGED <<serviceVars, operationMutex, usage, source, link, history>>

RequestStop ==
    /\ stop = "no"
    /\ stop' = "requested"
    /\ UNCHANGED <<serviceVars, operationMutex, valid, disconnects, thread, source,
                   link, history>>

(* The stop_callback of Run: notify_all without mutex_. *)
StopCallback ==
    /\ stop = "requested"
    /\ stop' = "notified"
    /\ missed' = (At("run") = "block3")
    /\ Go("run", Notified)
    /\ UNCHANGED <<serviceVars, operationMutex, valid, disconnects, source, link,
                   reported, stale>>
-----------------------------------------------------------------------------
(* Subscribe, Unsubscribe and Publish: a section under mutex_, then the    *)
(* call on the copied client with a listener tracked for it.               *)

FreeOps == {o \in Ops : /\ o \notin pending
                        /\ \A a \in Threads : thread[a].op # o
                        /\ \A c \in Clients : \A i \in DOMAIN link[c].requests :
                                link[c].requests[i].op # o}

(* Bounds: a call leaves enough listeners for the callback's own calls,    *)
(* and a publish is not queued behind another operation.                   *)
Ask(kind, t) ==
    /\ Cardinality(FreeOps) > Cardinality(Topics)
    /\ kind = "publish" => FreeOps = Ops
    /\ Become("caller", [Idle("track") EXCEPT !.copy = client, !.call = kind,
                                              !.todo = {t}])

LeftToReconnection == FALSE   \* mutant: Subscribe only registers the handler
SubscribesNow == status = "Connected" /\ client # None

Subscribe(t) ==
    /\ At("caller") = "idle" /\ MutexFree
    /\ subscriptions' = subscriptions \cup {t}
    /\ reported' = reported \ {t}
    /\ IF SubscribesNow THEN Ask("subscribe", t) ELSE UNCHANGED thread
    /\ UNCHANGED <<status, shuttingDown, client, pending, operationMutex, usage,
                   source, link, stale, missed>>

Unsubscribe(t) ==
    /\ At("caller") = "idle" /\ MutexFree
    /\ subscriptions' = subscriptions \ {t}
    /\ IF status = "Connected" /\ client # None
       THEN Ask("unsubscribe", t) ELSE UNCHANGED thread
    /\ UNCHANGED <<status, shuttingDown, client, pending, operationMutex, usage,
                   source, link, history>>

Publish(t) ==
    /\ At("caller") = "idle" /\ MutexFree
    /\ client # None
    /\ Ask("publish", t)
    /\ UNCHANGED <<serviceVars, operationMutex, usage, source, link, history>>

TrackOperation(a) ==
    /\ At(a) = "track" /\ MutexFree
    /\ FreeOps # {}
    /\ LET o == CHOOSE o \in FreeOps : TRUE
       IN  /\ pending' = pending \cup {o}
           /\ Become(a, [thread[a] EXCEPT !.op = o, !.at = "send"])
    /\ UNCHANGED <<status, shuttingDown, client, subscriptions, operationMutex,
                   usage, source, link, history>>

(* A callback returns.  connected follows on_success, unless the client's  *)
(* callbacks have been disabled in between.                                *)
Second == source.again /\ source.client \in Open
Returned == Idle(IF Second THEN "enter" ELSE "idle")
SourceAfter == IF Second THEN [source EXCEPT !.again = FALSE] ELSE NoSource

(* The client call.  It may throw, always so for a subscription without a  *)
(* connection, and then CancelOperation and ReportError follow.  A publish *)
(* is buffered without a connection; a closed client forgets it.           *)
Send(a) ==
    /\ At(a) = "send" /\ MutexFree
    /\ LET me == thread[a] IN \E t \in me.todo :
        /\ \/ /\ me.call = "publish" \/ link[me.copy].net = "up"
              /\ link' = IF me.copy \notin Open THEN link
                         ELSE [link EXCEPT ![me.copy].requests = Append(@,
                                [kind |-> me.call, topic |-> t, op |-> me.op])]
              /\ UNCHANGED <<pending, reported>>
           \/ /\ pending' = pending \ {me.op}
              /\ reported' = IF me.call = "subscribe" /\ me.copy = client
                             THEN reported \cup {t} ELSE reported
              /\ UNCHANGED link
        /\ IF me.todo # {t}
           THEN /\ Become(a, [me EXCEPT !.at = "track", !.todo = @ \ {t}, !.op = None])
                /\ UNCHANGED source
           ELSE IF a = "caller"
           THEN Become(a, Idle("idle")) /\ UNCHANGED source
           ELSE Become(a, Returned) /\ source' = SourceAfter
    /\ UNCHANGED <<status, shuttingDown, client, subscriptions, operationMutex,
                   usage, stale, missed>>
-----------------------------------------------------------------------------
(* Callbacks *)

ShutdownNotTested == status = "Connected"   \* mutant: shuttingDown_ is not read
IgnoresConnection == shuttingDown \/ status = "Connected"

(* HandleConnected, entered by on_success and by connected.  The second of *)
(* them finds the status that the first has set.                           *)
HandleConnected ==
    /\ At("callback") = "enter" /\ MutexFree
    /\ IF IgnoresConnection
       THEN /\ Become("callback", Returned) /\ source' = SourceAfter
            /\ UNCHANGED <<status, reported, stale>>
       ELSE /\ status' = "Connected"
            /\ stale' = (stale \/ source.client # client)
            /\ reported' = {}
            /\ IF client = None \/ subscriptions = {}
               THEN BecomeNotifying("callback", Returned) /\ source' = SourceAfter
               ELSE /\ BecomeNotifying("callback",
                            [Idle("track") EXCEPT !.copy = client,
                                !.call = "subscribe", !.todo = subscriptions])
                    /\ UNCHANGED source
    /\ UNCHANGED <<shuttingDown, client, subscriptions, pending, operationMutex,
                   usage, link, missed>>

(* connection_lost reads shuttingDown_ and sets the status in two sections. *)
ConnectionLost ==
    /\ At("callback") = "lost" /\ MutexFree
    /\ IF shuttingDown
       THEN Become("callback", Returned) /\ source' = SourceAfter
       ELSE Go("callback", "losing") /\ UNCHANGED source
    /\ UNCHANGED <<serviceVars, operationMutex, usage, link, history>>

ConnectionLostStatus ==
    /\ At("callback") = "losing" /\ MutexFree
    /\ status' = "Reconnecting"
    /\ stale' = (stale \/ source.client # client)
    /\ BecomeNotifying("callback", Returned) /\ source' = SourceAfter
    /\ UNCHANGED <<shuttingDown, client, subscriptions, pending, operationMutex,
                   usage, link, reported, missed>>

(* on_failure of the connection attempt. *)
ConnectFailed ==
    /\ At("callback") = "refused" /\ MutexFree
    /\ LifecycleError
    /\ stale' = (stale \/ (~shuttingDown /\ source.client # client))
    /\ BecomeNotifying("callback", Returned) /\ source' = SourceAfter
    /\ UNCHANGED <<shuttingDown, client, subscriptions, pending, operationMutex,
                   usage, link, reported, missed>>

(* on_success and on_failure of an operation, with CompleteOperation: the  *)
(* listener leaves pendingOperations_, and a failure is reported if it was *)
(* still there.  Without a connection every answer is a failure.           *)
Answer(c) ==
    /\ At("callback") = "idle" /\ MutexFree
    /\ link[c].requests # <<>>
    /\ LET r == Head(link[c].requests)
           answered == [link EXCEPT ![c].requests = Tail(@)]
       IN  /\ pending' = pending \ {r.op}
           /\ \/ /\ link[c].net = "up"
                 /\ link' = [answered EXCEPT ![c].broker =
                       CASE r.kind = "subscribe" -> @ \cup {r.topic}
                         [] r.kind = "unsubscribe" -> @ \ {r.topic}
                         [] OTHER -> @]
                 /\ UNCHANGED reported
              \/ /\ link[c].net \in {"up", "down"}
                 /\ link' = answered
                 /\ reported' =
                       IF r.kind = "subscribe" /\ r.op \in pending /\ c = client
                       THEN reported \cup {r.topic} ELSE reported
    /\ UNCHANGED <<status, shuttingDown, client, subscriptions, operationMutex,
                   usage, thread, source, stale, missed>>
-----------------------------------------------------------------------------
(* External: the network, seen by the thread that makes the callbacks.     *)

Deliver(c, pc, again, to) ==
    /\ At("callback") = "idle"
    /\ Go("callback", pc)
    /\ source' = [client |-> c, again |-> again]
    /\ link' = [link EXCEPT ![c] = to]
    /\ UNCHANGED <<serviceVars, operationMutex, usage, history>>

(* The session is clean, so the broker forgets a lost client's topics; the *)
(* automatic reconnection comes after what was lost has been answered.     *)
Network(c) ==
    \/ /\ link[c].net = "connecting"
       /\ \/ Deliver(c, "enter", TRUE, [link[c] EXCEPT !.net = "up"])
          \/ Deliver(c, "refused", FALSE, [link[c] EXCEPT !.net = "idle"])
    \/ /\ link[c].net = "up"
       /\ Deliver(c, "lost", FALSE, [link[c] EXCEPT !.net = "down", !.broker = {}])
    \/ /\ link[c].net = "down"
       /\ \A i \in DOMAIN link[c].requests : link[c].requests[i].kind = "publish"
       /\ Deliver(c, "enter", FALSE, [link[c] EXCEPT !.net = "up"])
-----------------------------------------------------------------------------
Release(a) == ReleaseTake(a) \/ ReleaseDrop(a) \/ ReleaseClear(a)

Run ==
    \/ RunStep \/ Timeout
    \/ Connect \/ ConnectAnnounce \/ ConnectCreate \/ ConnectDial \/ ConnectThrows
    \/ Release("run")
    \/ Disconnect("run") \/ DisconnectAnnounce("run") \/ DisconnectDone("run")

Interface ==
    \/ \E t \in Topics : Subscribe(t) \/ Unsubscribe(t) \/ Publish(t)
    \/ Disconnect("caller")

CallerContinues ==
    \/ TrackOperation("caller") \/ Send("caller")
    \/ Release("caller") \/ DisconnectAnnounce("caller") \/ DisconnectDone("caller")

CallbackContinues ==
    \/ HandleConnected \/ ConnectionLost \/ ConnectionLostStatus \/ ConnectFailed
    \/ TrackOperation("callback") \/ Send("callback")

Next ==
    \/ Run \/ SpuriousWakeup
    \/ RequestStop \/ StopCallback
    \/ Interface \/ CallerContinues
    \/ CallbackContinues
    \/ \E c \in Clients : Answer(c) \/ Network(c)

Spec == Init /\ [][Next]_vars

(* Threads that can run do run.  A timed wait ends even if it is woken     *)
(* again and again: wait_for has one deadline for all its wake-ups.        *)
(* Nothing is assumed of the network, of the interface being used, or of a *)
(* request to stop.                                                        *)
Fairness ==
    /\ WF_vars(Run)
    /\ SF_vars(Timeout)
    /\ WF_vars(StopCallback)
    /\ WF_vars(CallerContinues)
    /\ WF_vars(CallbackContinues)

FairSpec == Spec /\ Fairness
-----------------------------------------------------------------------------
(* Properties *)

(* What the broker will deliver to c once it has answered everything. *)
Delivers(c, t) ==
    LET mine == {i \in DOMAIN link[c].requests :
                    /\ link[c].requests[i].topic = t
                    /\ link[c].requests[i].kind # "publish"}
    IN  IF mine = {} THEN t \in link[c].broker
        ELSE \E i \in mine : /\ link[c].requests[i].kind = "subscribe"
                             /\ \A j \in mine : j <= i

AboutToSubscribe(t) ==
    \E a \in Threads : /\ thread[a].call = "subscribe"
                       /\ thread[a].copy = client /\ t \in thread[a].todo

Subscribed(t) == Delivers(client, t) \/ AboutToSubscribe(t) \/ t \in reported

ConnectedUp ==
    status = "Connected" /\ ~shuttingDown /\ client # None /\ link[client].net = "up"

(* While the service is connected, a topic with a handler is subscribed at *)
(* the broker or is about to be, or its failure was reported: neither a    *)
(* reconnection nor a Subscribe that races HandleConnected loses one in    *)
(* silence.  Except after a released client's callback set the status.     *)
HandlersSubscribed ==
    ConnectedUp /\ ~stale => \A t \in subscriptions : Subscribed(t)

(* There is at most one connection: a client that is open is client_, or   *)
(* a thread is just closing it; none is left when Run has returned.        *)
OneConnection ==
    /\ \A c \in Open : c = client \/ \E a \in Threads : At(a) = "drop"
                                                       /\ thread[a].copy = c
    /\ At("run") = "done" => client = None

(* The listener of a request that the current client has yet to answer is  *)
(* owned by pendingOperations_, so WaitForPendingOperations counts it and  *)
(* a failure is reported.                                                  *)
TrackedInFlight ==
    client # None => \A i \in DOMAIN link[client].requests :
                        link[client].requests[i].op \in pending

(* When Run has returned, no callback that comes late brings the service   *)
(* back: a connection that is made, or an attempt that fails, while or     *)
(* after Disconnect releases the client changes no status any more.  A     *)
(* connection_lost that read shuttingDown_ before Disconnect set it is the *)
(* only one that may, and leaves Reconnecting behind.                      *)
StaysClosed ==
    At("run") = "done" /\ At("caller") = "idle" =>
        status \in {"Offline", "Reconnecting"}

(* Run retries: with valid arguments the service does not stay in Error.   *)
RetriesAfterError ==
    (status = "Error" /\ valid) ~> (status # "Error" \/ Stopping)

(* A request to stop ends Run, except if its notification came between     *)
(* the evaluation of the untimed wait's predicate and the wait.            *)
StopsUnlessMissed == Stopping ~> (At("run") = "done" \/ missed)

=============================================================================
