--------------------------- MODULE GenerationGate ---------------------------
(***************************************************************************)
(* The gate that lets one generation at a time use the model               *)
(* (src/server/GenerationGate.cpp).  Callers are the server's handler      *)
(* threads.  Everything a caller does between taking mutex_ and giving it  *)
(* up, in a return or in changed_.wait_for, is one step; the calls made    *)
(* without the mutex (the notify_all of release) are steps of their own.   *)
(***************************************************************************)
EXTENDS Naturals, Sequences, SequencesExt

CONSTANTS Callers,     \* the handler threads
          Controlled,  \* those that pass a RequestControl to acquire
          MaxTickets   \* bound of the model: tickets handed out

ASSUME GateAssumption == Controlled \subseteq Callers /\ MaxTickets \in Nat

VARIABLES
    nextTicket,  \* nextTicket_
    pending,     \* pending_, the tickets that wait, oldest first
    active,      \* active_
    pc,          \* where each caller is
    ticket,      \* the ticket of each caller's last acquire
    blocked,     \* the callers asleep in changed_.wait_for
    cancelled,   \* the callers whose client has cancelled
    expired      \* the callers whose deadline has passed

gateVars == <<nextTicket, pending, active, pc, ticket, blocked>>
controlVars == <<cancelled, expired>>
vars == <<gateVars, controlVars>>

\* "notifying" is a release between its unlock and its notify_all.
Places == {"idle", "waiting", "holding", "notifying", "stopped"}

Init == /\ nextTicket = 0
        /\ pending = <<>>
        /\ active = FALSE
        /\ pc = [c \in Callers |-> "idle"]
        /\ ticket = [c \in Callers |-> 0]
        /\ blocked = {}
        /\ cancelled = {}
        /\ expired = {}

StopReason(c) == CASE c \in cancelled -> "ClientCancelled"
                   [] c \in expired \ cancelled -> "DeadlineExceeded"
                   [] OTHER -> "None"

\* The three ways out of one turn of acquire's loop.  t is the caller's
\* ticket and queue is pending_ with t in it.  (A definition whose name ends
\* in _ and a word is a faulty variant of the one that follows it; PROJECT.json
\* says which property each of them breaks.)
StopWaiting(c, t, queue) ==
    /\ StopReason(c) # "None"
    /\ \E i \in DOMAIN queue : queue[i] = t /\ pending' = RemoveAt(queue, i)
    /\ blocked' = {}
    /\ pc' = [pc EXCEPT ![c] = "stopped"]
    /\ UNCHANGED active

Grant_AnyTicket(c, t, queue) ==
    /\ StopReason(c) = "None"
    /\ ~active
    /\ \E i \in DOMAIN queue : queue[i] = t /\ pending' = RemoveAt(queue, i)
    /\ active' = TRUE
    /\ pc' = [pc EXCEPT ![c] = "holding"]
    /\ UNCHANGED blocked

Grant_WhileActive(c, t, queue) ==
    /\ StopReason(c) = "None"
    /\ queue # <<>> /\ Head(queue) = t
    /\ pending' = Tail(queue)
    /\ active' = TRUE
    /\ pc' = [pc EXCEPT ![c] = "holding"]
    /\ UNCHANGED blocked

Grant(c, t, queue) ==
    /\ StopReason(c) = "None"
    /\ ~active
    /\ queue # <<>> /\ Head(queue) = t
    /\ pending' = Tail(queue)
    /\ active' = TRUE
    /\ pc' = [pc EXCEPT ![c] = "holding"]
    /\ UNCHANGED blocked

Sleep(c, t, queue) ==
    /\ StopReason(c) = "None"
    /\ active \/ queue = <<>> \/ Head(queue) # t
    /\ pending' = queue
    /\ blocked' = blocked \cup {c}
    /\ pc' = [pc EXCEPT ![c] = "waiting"]
    /\ UNCHANGED active

Turn(c, t, queue) == StopWaiting(c, t, queue) \/ Grant(c, t, queue) \/ Sleep(c, t, queue)

\* acquire, up to the end of its first turn.
Acquire(c) ==
    /\ pc[c] = "idle"
    /\ nextTicket < MaxTickets
    /\ nextTicket' = nextTicket + 1
    /\ ticket' = [ticket EXCEPT ![c] = nextTicket]
    /\ Turn(c, nextTicket, Append(pending, nextTicket))
    /\ UNCHANGED controlVars

\* The 20 ms of changed_.wait_for are over (or the wakeup is spurious).
Timeout_Never(c) == FALSE

Timeout(c) ==
    /\ c \in blocked
    /\ blocked' = blocked \ {c}
    /\ UNCHANGED <<nextTicket, pending, active, pc, ticket, controlVars>>

\* A caller that woke up takes the mutex again and goes round the loop.
Recheck(c) ==
    /\ pc[c] = "waiting" /\ c \notin blocked
    /\ Turn(c, ticket[c], pending)
    /\ UNCHANGED <<nextTicket, ticket, controlVars>>

\* ~Lease: release clears active_ under the mutex ...
Release_KeepsActive(c) ==
    /\ pc[c] = "holding"
    /\ pc' = [pc EXCEPT ![c] = "notifying"]
    /\ UNCHANGED <<nextTicket, pending, active, ticket, blocked, controlVars>>

Release(c) ==
    /\ pc[c] = "holding"
    /\ active' = FALSE
    /\ pc' = [pc EXCEPT ![c] = "notifying"]
    /\ UNCHANGED <<nextTicket, pending, ticket, blocked, controlVars>>

\* ... and notifies after giving it up.
NotifyAll(c) ==
    /\ pc[c] = "notifying"
    /\ blocked' = {}
    /\ pc' = [pc EXCEPT ![c] = "idle"]
    /\ cancelled' = cancelled \ {c}
    /\ expired' = expired \ {c}
    /\ UNCHANGED <<nextTicket, pending, active, ticket>>

\* The handler of a request that was stopped returns; the thread may serve
\* another request, which has a RequestControl of its own.
ReturnError(c) ==
    /\ pc[c] = "stopped"
    /\ pc' = [pc EXCEPT ![c] = "idle"]
    /\ cancelled' = cancelled \ {c}
    /\ expired' = expired \ {c}
    /\ UNCHANGED <<nextTicket, pending, active, ticket, blocked>>

\* The client and the clock.
Cancel(c) == /\ cancelled' = cancelled \cup {c}
             /\ UNCHANGED <<gateVars, expired>>

Expire(c) == /\ expired' = expired \cup {c}
             /\ UNCHANGED <<gateVars, cancelled>>

Next == \/ \E c \in Callers : \/ Acquire(c) \/ Timeout(c) \/ Recheck(c)
                              \/ Release(c) \/ NotifyAll(c) \/ ReturnError(c)
        \/ \E c \in Controlled : Cancel(c) \/ Expire(c)

Spec == Init /\ [][Next]_vars

\* A waiting thread's timer fires, a runnable thread gets the mutex.
WaiterFairness == \A c \in Callers : /\ WF_vars(Timeout(c))
                                     /\ WF_vars(Recheck(c))

\* A generation ends (every loop of Session::generate is bounded) and its
\* lease is destroyed.
HolderFairness == \A c \in Callers : WF_vars(Release(c)) /\ WF_vars(NotifyAll(c))

WaiterSpec == Spec /\ WaiterFairness
-----------------------------------------------------------------------------
Waiting == {c \in Callers : pc[c] = "waiting"}
Holding == {c \in Callers : pc[c] = "holding"}
Granted(c) == pc[c] # "holding" /\ pc'[c] = "holding"

TypeOK == /\ nextTicket \in Nat
          /\ pending \in Seq(Nat)
          /\ active \in BOOLEAN
          /\ pc \in [Callers -> Places]
          /\ ticket \in [Callers -> Nat]
          /\ blocked \subseteq Waiting
          /\ cancelled \subseteq Controlled
          /\ expired \subseteq Controlled

\* At most one caller holds a lease, and active_ is set exactly while one
\* does: a lease is neither shared nor lost with the gate left closed.
MutualExclusion == /\ \A c, d \in Holding : c = d
                   /\ active <=> Holding # {}

\* pending_ holds the tickets of the waiting callers and no other, oldest
\* first.  A ticket left behind by a caller that gave up would reach the
\* front and close the gate for good; a lost one would strand its caller.
QueueIsWaiters ==
    /\ \A i, j \in DOMAIN pending : i < j => pending[i] < pending[j]
    /\ \A i \in DOMAIN pending : pending[i] < nextTicket
    /\ \A i \in DOMAIN pending : \E c \in Waiting : ticket[c] = pending[i]
    /\ \A c \in Waiting : \E i \in DOMAIN pending : ticket[c] = pending[i]
    /\ \A c, d \in Waiting : ticket[c] = ticket[d] => c = d

\* The gate is first come, first served: no caller is granted the lease
\* while one that asked before it still waits.
NoOvertaking ==
    [][\A c, d \in Callers : Granted(c) /\ d \in Waiting /\ d # c
                                => ticket'[c] < ticket[d]]_vars

\* A waiter notices its own cancellation or deadline even if the request
\* that holds the gate never ends (only the timed wait makes it look), and
\* it never runs (GenerationGateTest.cpp, CancelledPendingRequestNeverAcquiresGate).
StoppedWaiterLeaves ==
    \A c \in Callers : (c \in Waiting /\ c \in cancelled \cup expired)
                            ~> pc[c] = "stopped"

\* If generations end, every caller that waits is admitted or told to stop.
EveryWaiterAnswered ==
    HolderFairness =>
      \A c \in Callers : pc[c] = "waiting" ~> pc[c] \in {"holding", "stopped"}

\* The gate is a first-come-first-served lock.
WaiterWith(t) == CHOOSE c \in Waiting : ticket[c] = t
Lock == INSTANCE FifoLock WITH
            queue <- [i \in DOMAIN pending |-> WaiterWith(pending[i])],
            holders <- Holding
ImplementsFifoLock == Lock!Spec
=============================================================================
