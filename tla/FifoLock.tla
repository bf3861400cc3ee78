------------------------------ MODULE FifoLock ------------------------------
(***************************************************************************)
(* What the generation gate promises: callers join one queue, the lock is  *)
(* given to the head of the queue and to nobody else, a caller may give up *)
(* while it waits, and at most one caller holds the lock.                  *)
(***************************************************************************)
EXTENDS Sequences, SequencesExt

CONSTANT Callers

VARIABLES queue,    \* the callers that wait, oldest first
          holders   \* the callers that hold the lock

vars == <<queue, holders>>

Init == queue = <<>> /\ holders = {}

Idle(c) == c \notin holders /\ \A i \in DOMAIN queue : queue[i] # c

Join(c) == /\ Idle(c)
           /\ queue' = Append(queue, c)
           /\ UNCHANGED holders

\* A caller that finds the lock free and nobody before it does not wait.
TakeFree(c) == /\ Idle(c)
               /\ queue = <<>> /\ holders = {}
               /\ holders' = {c}
               /\ UNCHANGED queue

TakeFirst == /\ queue # <<>> /\ holders = {}
             /\ holders' = {Head(queue)}
             /\ queue' = Tail(queue)

GiveUp(i) == /\ queue' = RemoveAt(queue, i)
             /\ UNCHANGED holders

Release(c) == /\ c \in holders
              /\ holders' = holders \ {c}
              /\ UNCHANGED queue

Next == \/ \E c \in Callers : Join(c) \/ TakeFree(c) \/ Release(c)
        \/ TakeFirst
        \/ \E i \in DOMAIN queue : GiveUp(i)

Spec == Init /\ [][Next]_vars
=============================================================================
