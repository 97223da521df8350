---------------------------- MODULE TaskExecutor ----------------------------
(***************************************************************************)
(* What Concurrency::ThreadPoolManager promises to its clients, without    *)
(* threads, locks or condition variables: a submission is either accepted  *)
(* or explicitly rejected, accepted tasks start in submission order and    *)
(* settle exactly once, and the executor is not gone before every accepted *)
(* task has settled.  Components that only use a pool are composed with    *)
(* this module instead of with ThreadPoolManager.                          *)
(***************************************************************************)
EXTENDS Sequences

CONSTANT Tasks

VARIABLES
    phase,    \* "open": accepts work; "closed": rejects it; "gone": destroyed
    backlog,  \* accepted tasks that have not started, in submission order
    future    \* what the future of each task holds

vars == <<phase, backlog, future>>

Settled == {"value", "exception"}

Init ==
    /\ phase = "open"
    /\ backlog = <<>>
    /\ future = [t \in Tasks |-> "unsubmitted"]

Accept(t) ==
    /\ phase = "open"
    /\ future[t] = "unsubmitted"
    /\ backlog' = Append(backlog, t)
    /\ future' = [future EXCEPT ![t] = "queued"]
    /\ UNCHANGED phase

Reject(t) ==
    /\ phase = "closed"
    /\ future[t] = "unsubmitted"
    /\ future' = [future EXCEPT ![t] = "rejected"]
    /\ UNCHANGED <<phase, backlog>>

Start ==
    /\ backlog # <<>>
    /\ backlog' = Tail(backlog)
    /\ future' = [future EXCEPT ![Head(backlog)] = "running"]
    /\ UNCHANGED phase

Settle(t) ==
    /\ future[t] = "running"
    /\ \E result \in Settled : future' = [future EXCEPT ![t] = result]
    /\ UNCHANGED <<phase, backlog>>

Close ==
    /\ phase = "open"
    /\ phase' = "closed"
    /\ UNCHANGED <<backlog, future>>

Vanish ==
    /\ phase = "closed"
    /\ \A t \in Tasks : future[t] \notin {"queued", "running"}
    /\ phase' = "gone"
    /\ UNCHANGED <<backlog, future>>

Next ==
    \/ \E t \in Tasks : Accept(t) \/ Reject(t) \/ Settle(t)
    \/ Start
    \/ Close
    \/ Vanish

Spec == Init /\ [][Next]_vars
=============================================================================
