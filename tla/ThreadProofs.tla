---------------------------- MODULE ThreadProofs ----------------------------
(***************************************************************************)
(* Threads that wait for each other, in any order they may run.            *)
(*                                                                         *)
(* The handlers at the generation gate, for any set of callers and any     *)
(* bound on the tickets: the invariants its runs check hold, no caller is  *)
(* overtaken and the gate implements the first-come-first-served lock of   *)
(* FifoLock.                                                               *)
(*                                                                         *)
(* The threads of a CUDA block that reduces a row (CudaRows), for any      *)
(* number of rows and columns and blocks of 1 to 1024 threads: the last    *)
(* result of every thread is everything that its block published.  That is *)
(* not inductive: a thread adds a neighbour's slot to its own, so the      *)
(* invariant says what each slot holds at each level of the tree, and how  *)
(* far apart the barriers let the threads of a block get, which is why the *)
(* neighbour has come as far and has not gone on to write.  The first of   *)
(* two results is not known to be whole: the first thread may have         *)
(* published for the second already.  The invariant allows for both.       *)
(***************************************************************************)
EXTENDS GenerationGate, CudaKernels, SequenceTheorems, FiniteSetTheorems, TLAPS

\* What std::deque::erase leaves: the elements after the i-th move up.
LEMMA RemoveAtProperties ==
    ASSUME NEW S, NEW s \in Seq(S), NEW i \in 1 .. Len(s)
    PROVE  /\ RemoveAt(s, i) \in Seq(S)
           /\ Len(RemoveAt(s, i)) = Len(s) - 1
           /\ \A j \in 1 .. Len(s) - 1 :
                 RemoveAt(s, i)[j] = IF j < i THEN s[j] ELSE s[j + 1]
<1> DEFINE a == SubSeq(s, 1, i - 1)
           b == SubSeq(s, i + 1, Len(s))
<1>1. /\ a \in Seq(S) /\ Len(a) = i - 1
      /\ \A j \in 1 .. i - 1 : a[j] = s[j]
  BY SubSeqProperties
<1>2. /\ b \in Seq(S) /\ Len(b) = Len(s) - i
      /\ \A j \in 1 .. Len(s) - i : b[j] = s[i + j]
  BY SubSeqProperties
<1>3. /\ a \o b \in Seq(S) /\ Len(a \o b) = Len(a) + Len(b)
      /\ \A j \in 1 .. Len(a) + Len(b) :
            (a \o b)[j] = IF j <= Len(a) THEN a[j] ELSE b[j - Len(a)]
  <2> HIDE DEF a, b
  <2> QED BY <1>1, <1>2, ConcatProperties
<1>4. RemoveAt(s, i) = a \o b
  BY DEF RemoveAt
<1>5. \A j \in 1 .. Len(s) - 1 :
          (a \o b)[j] = IF j < i THEN s[j] ELSE s[j + 1]
  <2> HIDE DEF a, b
  <2> QED BY <1>1, <1>2, <1>3
<1>6. Len(a) + Len(b) = Len(s) - 1
  <2> HIDE DEF a, b
  <2> QED BY <1>1, <1>2
<1> QED BY <1>3, <1>4, <1>5, <1>6

-----------------------------------------------------------------------------
\* q holds the tickets tk of the callers W, oldest first, all below n.
QueueOf(q, W, tk, n) ==
    /\ q \in Seq(Nat)
    /\ \A i, j \in 1 .. Len(q) : i < j => q[i] < q[j]
    /\ \A i \in 1 .. Len(q) : q[i] < n
    /\ \A i \in 1 .. Len(q) : \E c \in W : tk[c] = q[i]
    /\ \A c \in W : \E i \in 1 .. Len(q) : tk[c] = q[i]
    /\ \A c, d \in W : tk[c] = tk[d] => c = d

\* The inductive invariant: the conjunction of what the runs check.
IInv == TypeOK /\ MutualExclusion /\ QueueIsWaiters

\* QueueIsWaiters, said with QueueOf ...
LEMMA QueueOfPending ==
    ASSUME TypeOK
    PROVE  QueueIsWaiters <=> QueueOf(pending, Waiting, ticket, nextTicket)
<1>1. pending \in Seq(Nat) /\ DOMAIN pending = 1 .. Len(pending)
  BY LenProperties DEF TypeOK
<1> QED BY <1>1 DEF QueueIsWaiters, QueueOf

\* ... and of the state after a step.
LEMMA QueueOfNext ==
    ASSUME QueueOf(pending', Waiting', ticket', nextTicket')
    PROVE  QueueIsWaiters'
<1>1. DOMAIN pending' = 1 .. Len(pending')
  BY LenProperties DEF QueueOf
<1> QED BY <1>1 DEF QueueIsWaiters, QueueOf

\* A caller that leaves takes its ticket, and only its ticket, with it.
LEMMA QueueOfLeave ==
    ASSUME NEW q, NEW W, NEW tk, NEW n \in Nat, QueueOf(q, W, tk, n),
           NEW i \in 1 .. Len(q), NEW c \in W, q[i] = tk[c]
    PROVE  QueueOf(RemoveAt(q, i), W \ {c}, tk, n)
<1> DEFINE r == RemoveAt(q, i)
<1>1. /\ q \in Seq(Nat) /\ Len(q) \in Nat
      /\ r \in Seq(Nat) /\ Len(r) = Len(q) - 1
      /\ \A j \in 1 .. Len(q) - 1 : r[j] = IF j < i THEN q[j] ELSE q[j + 1]
  BY RemoveAtProperties, LenProperties DEF QueueOf
<1> HIDE DEF r
<1>2. \A j \in 1 .. Len(q) : q[j] \in Nat
  BY <1>1, ElementOfSeq
<1> DEFINE src(j) == IF j < i THEN j ELSE j + 1
<1>3. \A j \in 1 .. Len(r) : src(j) \in 1 .. Len(q) /\ src(j) # i /\ r[j] = q[src(j)]
  BY <1>1, SMTT(60)
<1>4. \A j, k \in 1 .. Len(r) : j < k => src(j) < src(k)
  BY <1>1, SMTT(60)
<1> HIDE DEF src
<1>5. \A j, k \in 1 .. Len(r) : j < k => r[j] < r[k]
  <2> SUFFICES ASSUME NEW j \in 1 .. Len(r), NEW k \in 1 .. Len(r), j < k
               PROVE  r[j] < r[k]
    OBVIOUS
  <2>1. q[src(j)] < q[src(k)]
    BY <1>3, <1>4 DEF QueueOf
  <2> QED BY <1>3, <2>1
<1>6. \A j \in 1 .. Len(r) : r[j] < n
  BY <1>3 DEF QueueOf
<1>7. \A j \in 1 .. Len(q) : j # i => q[j] # q[i]
  BY <1>1, <1>2 DEF QueueOf
<1>8. \A j \in 1 .. Len(r) : \E d \in W \ {c} : tk[d] = r[j]
  <2> TAKE j \in 1 .. Len(r)
  <2>1. PICK d \in W : tk[d] = q[src(j)]
    BY <1>3 DEF QueueOf
  <2>2. d # c
    BY <1>3, <1>7, <2>1
  <2> QED BY <1>3, <2>1, <2>2
<1>9. \A d \in W \ {c} : \E j \in 1 .. Len(r) : tk[d] = r[j]
  <2> TAKE d \in W \ {c}
  <2>1. PICK k \in 1 .. Len(q) : tk[d] = q[k]
    BY DEF QueueOf
  <2>2. k # i
    BY <2>1 DEF QueueOf
  <2>3. CASE k < i
    <3>1. k \in 1 .. Len(r) /\ src(k) = k
      BY <1>1, <2>3 DEF src
    <3> QED BY <1>3, <2>1, <3>1
  <2>4. CASE k > i
    <3>1. k - 1 \in 1 .. Len(r) /\ src(k - 1) = k
      BY <1>1, <2>4 DEF src
    <3> QED BY <1>3, <2>1, <3>1
  <2> QED BY <1>1, <2>2, <2>3, <2>4
<1>10. \A d, e \in W \ {c} : tk[d] = tk[e] => d = e
  BY DEF QueueOf
<1> QED BY <1>1, <1>5, <1>6, <1>8, <1>9, <1>10 DEF QueueOf, r

\* pop_front is the removal of the first element.
LEMMA TailIsRemoveAt ==
    ASSUME NEW S, NEW q \in Seq(S), q # <<>>
    PROVE  Tail(q) = RemoveAt(q, 1) /\ 1 \in 1 .. Len(q) /\ Head(q) = q[1]
<1>1. Len(q) \in Nat \ {0}
  BY EmptySeq
<1>2. 1 \in 1 .. Len(q)
  BY <1>1
<1>3. RemoveAt(q, 1) \in Seq(S) /\ Len(RemoveAt(q, 1)) = Len(q) - 1
      /\ \A j \in 1 .. Len(q) - 1 : RemoveAt(q, 1)[j] = q[j + 1]
  BY <1>2, RemoveAtProperties
<1>4. Tail(q) \in Seq(S) /\ Len(Tail(q)) = Len(q) - 1
      /\ \A j \in 1 .. Len(q) - 1 : Tail(q)[j] = q[j + 1]
  BY HeadTailProperties
<1> QED BY <1>2, <1>3, <1>4, SeqEqual, SMTT(60)

\* A new ticket is larger than every other and goes to the back.
LEMMA QueueOfJoin ==
    ASSUME NEW q, NEW W \in SUBSET Callers, NEW tk \in [Callers -> Nat],
           NEW n \in Nat, QueueOf(q, W, tk, n), NEW c \in Callers \ W
    PROVE  QueueOf(Append(q, n), W \cup {c}, [tk EXCEPT ![c] = n], n + 1)
<1> DEFINE r == Append(q, n)
           u == [tk EXCEPT ![c] = n]
<1>1. /\ q \in Seq(Nat) /\ Len(q) \in Nat
      /\ r \in Seq(Nat) /\ Len(r) = Len(q) + 1
      /\ \A j \in 1 .. Len(q) : r[j] = q[j]
      /\ r[Len(q) + 1] = n
  BY AppendProperties, LenProperties DEF QueueOf
<1>2. \A j \in 1 .. Len(q) : q[j] \in Nat
  BY <1>1, ElementOfSeq
<1>3. u[c] = n /\ \A d \in W : u[d] = tk[d] /\ d # c
  OBVIOUS
<1> HIDE DEF r, u
<1>4. \A j \in 1 .. Len(r) :
          \/ j \in 1 .. Len(q) /\ r[j] = q[j]
          \/ j = Len(q) + 1 /\ r[j] = n
  BY <1>1, SMTT(30)
<1>5. \A j, k \in 1 .. Len(r) : j < k => r[j] < r[k]
  <2> SUFFICES ASSUME NEW j \in 1 .. Len(r), NEW k \in 1 .. Len(r), j < k
               PROVE  r[j] < r[k]
    OBVIOUS
  <2>1. j \in 1 .. Len(q) /\ r[j] = q[j]
    BY <1>1, <1>4, SMTT(30)
  <2>2. CASE k \in 1 .. Len(q) /\ r[k] = q[k]
    BY <2>1, <2>2 DEF QueueOf
  <2>3. CASE r[k] = n
    BY <2>1, <2>3 DEF QueueOf
  <2> QED BY <1>4, <2>2, <2>3
<1>6. \A j \in 1 .. Len(r) : r[j] < n + 1
  <2> TAKE j \in 1 .. Len(r)
  <2>1. CASE j \in 1 .. Len(q) /\ r[j] = q[j]
    <3>1. q[j] < n /\ q[j] \in Nat
      BY <1>2, <2>1 DEF QueueOf
    <3> QED BY <2>1, <3>1
  <2>2. CASE r[j] = n
    BY <2>2
  <2> QED BY <1>4, <2>1, <2>2
<1>10. \A j \in 1 .. Len(r) : \E d \in W \cup {c} : u[d] = r[j]
  BY <1>3, <1>4 DEF QueueOf
<1>7. \A d \in W \cup {c} : \E j \in 1 .. Len(r) : u[d] = r[j]
  <2>1. \A d \in W : \E j \in 1 .. Len(q) : u[d] = q[j]
    BY <1>3 DEF QueueOf
  <2>2. Len(q) + 1 \in 1 .. Len(r)
    BY <1>1
  <2> QED BY <1>1, <1>3, <2>1, <2>2
<1>8. \A d \in W : u[d] < n
  BY <1>1, <1>2, <1>3, SMTT(60) DEF QueueOf
<1>9. \A d, e \in W \cup {c} : u[d] = u[e] => d = e
  BY <1>3, <1>8 DEF QueueOf
<1> QED BY <1>1, <1>5, <1>6, <1>7, <1>9, <1>10 DEF QueueOf, r, u

-----------------------------------------------------------------------------
\* One turn of acquire's loop keeps the invariant, for the first turn of a
\* caller that has just joined the queue as for those after a wakeup.
LEMMA TurnKeepsIInv ==
    ASSUME TypeOK, MutualExclusion,
           NEW c \in Callers, pc[c] \in {"idle", "waiting"}, c \notin blocked,
           NEW t \in Nat, NEW queue,
           ticket' \in [Callers -> Nat], nextTicket' \in Nat, ticket'[c] = t,
           QueueOf(queue, Waiting \cup {c}, ticket', nextTicket'),
           Turn(c, t, queue), UNCHANGED controlVars
    PROVE  IInv'
<1>1. queue \in Seq(Nat) /\ DOMAIN queue = 1 .. Len(queue)
  BY LenProperties DEF QueueOf
<1>2. pc \in [Callers -> Places] /\ blocked \subseteq Waiting
  BY DEF TypeOK
<1>3. CASE StopWaiting(c, t, queue)
  <2>1. PICK i \in 1 .. Len(queue) : queue[i] = t /\ pending' = RemoveAt(queue, i)
    BY <1>1, <1>3 DEF StopWaiting
  <2>2. Waiting' = (Waiting \cup {c}) \ {c}
    BY <1>2, <1>3 DEF StopWaiting, Waiting, Places
  <2>3. QueueOf(pending', Waiting', ticket', nextTicket')
    BY <2>1, <2>2, QueueOfLeave
  <2>4. MutualExclusion'
    BY <1>2, <1>3 DEF MutualExclusion, Holding, StopWaiting, Places
  <2>5. TypeOK'
    BY <1>2, <1>3, <2>3 DEF TypeOK, QueueOf, StopWaiting, Waiting, Places, controlVars
  <2> QED BY <2>3, <2>4, <2>5, QueueOfNext DEF IInv
<1>4. CASE Grant(c, t, queue)
  <2>1. pending' = RemoveAt(queue, 1) /\ 1 \in 1 .. Len(queue) /\ queue[1] = t
    BY <1>1, <1>4, TailIsRemoveAt DEF Grant
  <2>2. Waiting' = (Waiting \cup {c}) \ {c}
    BY <1>2, <1>4 DEF Grant, Waiting, Places
  <2>3. QueueOf(pending', Waiting', ticket', nextTicket')
    BY <2>1, <2>2, QueueOfLeave
  <2>4. MutualExclusion'
    <3>1. Holding = {} /\ Holding' = {c}
      BY <1>2, <1>4 DEF MutualExclusion, Holding, Grant, Places
    <3> QED BY <1>4, <3>1 DEF MutualExclusion, Grant
  <2>5. TypeOK'
    BY <1>2, <1>4, <2>3 DEF TypeOK, QueueOf, Grant, Waiting, Places, controlVars
  <2> QED BY <2>3, <2>4, <2>5, QueueOfNext DEF IInv
<1>5. CASE Sleep(c, t, queue)
  <2>1. Waiting' = Waiting \cup {c}
    BY <1>2, <1>5 DEF Sleep, Waiting, Places
  <2>2. QueueOf(pending', Waiting', ticket', nextTicket')
    BY <1>5, <2>1 DEF Sleep
  <2>3. MutualExclusion'
    BY <1>2, <1>5 DEF MutualExclusion, Holding, Sleep, Places
  <2>4. TypeOK'
    BY <1>2, <1>5, <2>1, <2>2 DEF TypeOK, QueueOf, Sleep, Places, controlVars
  <2> QED BY <2>2, <2>3, <2>4, QueueOfNext DEF IInv
<1> QED BY <1>3, <1>4, <1>5 DEF Turn

\* The queue as acquire hands it to its first turn, and as Recheck does.
LEMMA AcquireQueue ==
    ASSUME IInv, NEW c \in Callers, Acquire(c)
    PROVE  /\ QueueOf(Append(pending, nextTicket), Waiting \cup {c}, ticket', nextTicket')
           /\ ticket' \in [Callers -> Nat] /\ nextTicket' \in Nat
           /\ ticket'[c] = nextTicket
<1>1. QueueOf(pending, Waiting, ticket, nextTicket)
  BY QueueOfPending DEF IInv
<1>2. /\ ticket \in [Callers -> Nat] /\ nextTicket \in Nat
      /\ Waiting \in SUBSET Callers /\ c \notin Waiting
  BY DEF IInv, TypeOK, Acquire, Waiting
<1>3. ticket' = [ticket EXCEPT ![c] = nextTicket] /\ nextTicket' = nextTicket + 1
  BY DEF Acquire
<1>4. QueueOf(Append(pending, nextTicket), Waiting \cup {c}, ticket', nextTicket')
  BY <1>1, <1>2, <1>3, QueueOfJoin
<1> QED BY <1>2, <1>3, <1>4

\* Recheck hands its turn the queue as it is, the caller already in it.
LEMMA RecheckQueue ==
    ASSUME IInv, NEW c \in Callers, Recheck(c)
    PROVE  /\ QueueOf(pending, Waiting \cup {c}, ticket', nextTicket')
           /\ ticket' \in [Callers -> Nat] /\ nextTicket' \in Nat
           /\ ticket'[c] = ticket[c] /\ ticket[c] \in Nat
<1>1. QueueOf(pending, Waiting, ticket, nextTicket)
  BY QueueOfPending DEF IInv
<1>2. Waiting \cup {c} = Waiting
  BY DEF Recheck, Waiting
<1> QED BY <1>1, <1>2 DEF IInv, TypeOK, Recheck

\* The invariant holds of a new gate ...
THEOREM InitIInv == Init => IInv
<1> SUFFICES ASSUME Init PROVE IInv
  OBVIOUS
<1>1. pending \in Seq(Nat) /\ DOMAIN pending = {}
  BY DEF Init
<1>2. Waiting = {} /\ Holding = {}
  BY DEF Init, Waiting, Holding
<1> QED BY <1>1, <1>2 DEF Init, IInv, TypeOK, MutualExclusion, QueueIsWaiters, Places

\* ... and every step of the gate keeps it.
THEOREM NextIInv == IInv /\ [Next]_vars => IInv'
<1> SUFFICES ASSUME IInv, [Next]_vars PROVE IInv'
  OBVIOUS
<1> USE GateAssumption
<1>1. ASSUME NEW c \in Callers, Acquire(c) PROVE IInv'
  <2>1. pc[c] = "idle" /\ c \notin blocked
    BY <1>1 DEF Acquire, IInv, TypeOK, Waiting
  <2> QED BY <1>1, <2>1, AcquireQueue, TurnKeepsIInv DEF Acquire, IInv, TypeOK
<1>2. ASSUME NEW c \in Callers, Timeout(c) PROVE IInv'
  BY <1>2 DEF Timeout, IInv, TypeOK, MutualExclusion, QueueIsWaiters, Waiting,
     Holding, controlVars
<1>3. ASSUME NEW c \in Callers, Recheck(c) PROVE IInv'
  BY <1>3, RecheckQueue, TurnKeepsIInv DEF Recheck, IInv
<1>4. ASSUME NEW c \in Callers, Release(c) PROVE IInv'
  <2>1. Waiting' = Waiting /\ Holding' = {}
    BY <1>4 DEF Release, IInv, TypeOK, MutualExclusion, Waiting, Holding, Places
  <2> QED BY <1>4, <2>1 DEF Release, IInv, TypeOK, MutualExclusion, QueueIsWaiters,
             Places, controlVars
<1>5. ASSUME NEW c \in Callers, NotifyAll(c) PROVE IInv'
  <2>1. Waiting' = Waiting /\ Holding' = Holding
    BY <1>5 DEF NotifyAll, IInv, TypeOK, Waiting, Holding, Places
  <2> QED BY <1>5, <2>1 DEF NotifyAll, IInv, TypeOK, MutualExclusion,
             QueueIsWaiters, Places
<1>6. ASSUME NEW c \in Callers, ReturnError(c) PROVE IInv'
  <2>1. Waiting' = Waiting /\ Holding' = Holding
    BY <1>6 DEF ReturnError, IInv, TypeOK, Waiting, Holding, Places
  <2> QED BY <1>6, <2>1 DEF ReturnError, IInv, TypeOK, MutualExclusion,
             QueueIsWaiters, Places
<1>7. ASSUME NEW c \in Controlled, Cancel(c) \/ Expire(c) PROVE IInv'
  BY <1>7 DEF Cancel, Expire, IInv, TypeOK, MutualExclusion, QueueIsWaiters,
     Waiting, Holding, gateVars
<1>8. CASE UNCHANGED vars
  BY <1>8 DEF vars, gateVars, controlVars, IInv, TypeOK, MutualExclusion,
     QueueIsWaiters, Waiting, Holding
<1> QED BY <1>1, <1>2, <1>3, <1>4, <1>5, <1>6, <1>7, <1>8 DEF Next

\* The gate admits one generation at a time and its queue is exactly the
\* waiting callers, whatever their number, cancellations and deadlines.
THEOREM GateInvariant == Spec => [](TypeOK /\ MutualExclusion /\ QueueIsWaiters)
<1>1. IInv => TypeOK /\ MutualExclusion /\ QueueIsWaiters
  BY DEF IInv
<1> QED BY InitIInv, NextIInv, <1>1, PTL DEF Spec

\* No caller is granted the lease before one with an older ticket.
THEOREM GateOrder == Spec => NoOvertaking
<1>1. IInv /\ [Next]_vars =>
        [\A c, d \in Callers : Granted(c) /\ d \in Waiting /\ d # c
                                 => ticket'[c] < ticket[d]]_vars
  <2> SUFFICES ASSUME IInv, Next, NEW c \in Callers, NEW d \in Callers,
                      Granted(c), d \in Waiting, d # c
               PROVE  ticket'[c] < ticket[d]
    OBVIOUS
  <2>1. PICK b \in Callers : Acquire(b) \/ Recheck(b)
    BY DEF Granted, Next, Timeout, Release, NotifyAll, ReturnError, Cancel,
       Expire, gateVars, IInv, TypeOK, Places
  <2>2. PICK t, queue : /\ Turn(b, t, queue) /\ ticket'[b] = t
                        /\ QueueOf(queue, Waiting \cup {b}, ticket', nextTicket')
                        /\ \A e \in Callers \ {b} : ticket'[e] = ticket[e]
    BY <2>1, AcquireQueue, RecheckQueue DEF Acquire, Recheck, IInv, TypeOK
  <2>3. b = c /\ Grant(b, t, queue)
    BY <2>2 DEF Granted, Turn, StopWaiting, Grant, Sleep, IInv, TypeOK, Places
  <2>4. queue \in Seq(Nat) /\ 1 \in 1 .. Len(queue) /\ queue[1] = t
    BY <2>2, <2>3, TailIsRemoveAt DEF Grant, QueueOf
  <2>5. PICK i \in 1 .. Len(queue) : queue[i] = ticket[d]
    BY <2>2, <2>3 DEF QueueOf
  <2>6. i # 1
    BY <2>2, <2>3, <2>4, <2>5 DEF QueueOf
  <2>7. \A k, l \in 1 .. Len(queue) : k < l => queue[k] < queue[l]
    BY <2>2 DEF QueueOf
  <2>8. queue[1] < queue[i]
    BY <2>4, <2>5, <2>6, <2>7
  <2>9. ticket'[c] = queue[1]
    BY <2>2, <2>3, <2>4
  <2> QED BY <2>5, <2>8, <2>9
<1> QED BY <1>1, InitIInv, NextIInv, PTL DEF Spec, NoOvertaking

-----------------------------------------------------------------------------
(* The refinement: the tickets of the gate stand for the callers that drew   *)
(* them, and every step of the gate is a step of FifoLock or changes nothing *)
(* in it.                                                                    *)

\* The callers that drew the tickets of q, and what such a sequence is.
DrawnBy(q, W, tk) == [i \in DOMAIN q |-> CHOOSE c \in W : tk[c] = q[i]]

Drew(f, q, W, tk) == /\ f \in Seq(Callers)
                     /\ Len(f) = Len(q)
                     /\ \A i \in 1 .. Len(q) : f[i] \in W /\ tk[f[i]] = q[i]

\* That sequence exists: every ticket of the queue was drawn by a waiter.
LEMMA DrawnByDrew ==
    ASSUME NEW q, NEW W \in SUBSET Callers, NEW tk, NEW n, QueueOf(q, W, tk, n)
    PROVE  Drew(DrawnBy(q, W, tk), q, W, tk)
<1>1. q \in Seq(Nat) /\ Len(q) \in Nat /\ DOMAIN q = 1 .. Len(q)
  BY LenProperties DEF QueueOf
<1>2. \A i \in 1 .. Len(q) : \E c \in W : tk[c] = q[i]
  BY DEF QueueOf
<1>3. DrawnBy(q, W, tk) = [i \in 1 .. Len(q) |-> CHOOSE c \in W : tk[c] = q[i]]
  BY <1>1 DEF DrawnBy
<1>4. \A i \in 1 .. Len(q) : /\ DrawnBy(q, W, tk)[i] \in W
                             /\ tk[DrawnBy(q, W, tk)[i]] = q[i]
  BY <1>2, <1>3
<1>5. DrawnBy(q, W, tk) \in [1 .. Len(q) -> Callers]
  BY <1>3, <1>4
<1>6. DrawnBy(q, W, tk) \in Seq(Callers) /\ Len(DrawnBy(q, W, tk)) = Len(q)
  BY <1>1, <1>5
<1> QED BY <1>4, <1>6 DEF Drew

\* No other sequence of callers has these tickets.
LEMMA DrewUnique ==
    ASSUME NEW q, NEW W, NEW tk, NEW n, QueueOf(q, W, tk, n),
           NEW f, NEW g, Drew(f, q, W, tk), Drew(g, q, W, tk)
    PROVE  f = g
<1>1. \A c, d \in W : tk[c] = tk[d] => c = d
  BY DEF QueueOf
<1>2. \A i \in 1 .. Len(q) : f[i] = g[i]
  BY <1>1 DEF Drew
<1>3. f \in Seq(Callers) /\ g \in Seq(Callers) /\ Len(f) = Len(q) /\ Len(g) = Len(q)
  BY DEF Drew
<1> QED BY <1>2, <1>3, SeqEqual

\* A caller that leaves takes its own place out of the sequence.
LEMMA DrewLeave ==
    ASSUME NEW q, NEW W, NEW tk, NEW n \in Nat, QueueOf(q, W, tk, n),
           NEW f, Drew(f, q, W, tk),
           NEW i \in 1 .. Len(q), NEW c \in W, q[i] = tk[c]
    PROVE  Drew(RemoveAt(f, i), RemoveAt(q, i), W \ {c}, tk) /\ f[i] = c
<1> DEFINE g == RemoveAt(f, i)
           r == RemoveAt(q, i)
<1>1. /\ q \in Seq(Nat) /\ Len(q) \in Nat
      /\ f \in Seq(Callers) /\ Len(f) = Len(q)
      /\ \A j \in 1 .. Len(q) : f[j] \in W /\ tk[f[j]] = q[j]
  BY LenProperties DEF QueueOf, Drew
<1>2. /\ g \in Seq(Callers) /\ Len(g) = Len(q) - 1
      /\ \A j \in 1 .. Len(q) - 1 : g[j] = IF j < i THEN f[j] ELSE f[j + 1]
  BY <1>1, RemoveAtProperties
<1>3. /\ Len(r) = Len(q) - 1
      /\ \A j \in 1 .. Len(q) - 1 : r[j] = IF j < i THEN q[j] ELSE q[j + 1]
  BY <1>1, RemoveAtProperties
<1> HIDE DEF g, r
<1>4. f[i] = c
  BY <1>1 DEF QueueOf
<1>5. \A j \in 1 .. Len(q) : j # i => f[j] # c
  <2>1. \A j \in 1 .. Len(q) : j # i => q[j] # q[i]
    BY <1>1, ElementOfSeq, SMTT(30) DEF QueueOf
  <2> QED BY <1>1, <2>1
<1>6. \A j \in 1 .. Len(r) : g[j] \in W \ {c} /\ tk[g[j]] = r[j]
  <2> TAKE j \in 1 .. Len(r)
  <2> DEFINE k == IF j < i THEN j ELSE j + 1
  <2>1. k \in 1 .. Len(q) /\ k # i /\ g[j] = f[k] /\ r[j] = q[k]
    BY <1>1, <1>2, <1>3, SMTT(30)
  <2> HIDE DEF k
  <2> QED BY <1>1, <1>5, <2>1
<1>7. Drew(g, r, W \ {c}, tk)
  BY <1>2, <1>3, <1>6 DEF Drew
<1> QED BY <1>4, <1>7 DEF g, r

\* A caller that joins is the last of the sequence.
LEMMA DrewJoin ==
    ASSUME NEW q, NEW W \in SUBSET Callers, NEW tk \in [Callers -> Nat],
           NEW n \in Nat, QueueOf(q, W, tk, n), NEW f, Drew(f, q, W, tk),
           NEW c \in Callers \ W, NEW u, u = [tk EXCEPT ![c] = n]
    PROVE  Drew(Append(f, c), Append(q, n), W \cup {c}, u)
<1> DEFINE g == Append(f, c)
           r == Append(q, n)
<1>1. /\ q \in Seq(Nat) /\ Len(q) \in Nat
      /\ f \in Seq(Callers) /\ Len(f) = Len(q)
      /\ \A j \in 1 .. Len(q) : f[j] \in W /\ tk[f[j]] = q[j]
  BY LenProperties DEF QueueOf, Drew
<1>2. /\ g \in Seq(Callers) /\ Len(g) = Len(q) + 1
      /\ \A j \in 1 .. Len(q) : g[j] = f[j]
      /\ g[Len(q) + 1] = c
  BY <1>1, AppendProperties
<1>3. /\ Len(r) = Len(q) + 1
      /\ \A j \in 1 .. Len(q) : r[j] = q[j]
      /\ r[Len(q) + 1] = n
  BY <1>1, AppendProperties
<1>4. u[c] = n /\ \A d \in W : u[d] = tk[d]
  OBVIOUS
<1> HIDE DEF g, r
<1>5. \A j \in 1 .. Len(r) : g[j] \in W \cup {c} /\ u[g[j]] = r[j]
  <2> TAKE j \in 1 .. Len(r)
  <2>1. CASE j \in 1 .. Len(q)
    <3>1. g[j] = f[j] /\ r[j] = q[j] /\ f[j] \in W /\ tk[f[j]] = q[j]
      BY <1>1, <1>2, <1>3, <2>1
    <3> QED BY <1>4, <3>1
  <2>2. CASE j = Len(q) + 1
    BY <1>2, <1>3, <1>4, <2>2
  <2> QED BY <1>1, <1>3, <2>1, <2>2
<1>6. Drew(g, r, W \cup {c}, u)
  BY <1>2, <1>3, <1>5 DEF Drew
<1> QED BY <1>6 DEF g, r

-----------------------------------------------------------------------------
\* The queue of the lock, as ImplementsFifoLock maps it.
LockQueue == [i \in DOMAIN pending |-> WaiterWith(pending[i])]

\* In a state of the invariant the mapped queue is the sequence of waiters.
LEMMA LockQueueDrew ==
    ASSUME IInv
    PROVE  Drew(LockQueue, pending, Waiting, ticket)
<1>1. QueueOf(pending, Waiting, ticket, nextTicket)
  BY QueueOfPending DEF IInv
<1>2. LockQueue = DrawnBy(pending, Waiting, ticket)
  BY DEF LockQueue, DrawnBy, WaiterWith
<1>3. Waiting \in SUBSET Callers
  BY DEF Waiting
<1> QED BY <1>1, <1>2, <1>3, DrawnByDrew

\* The same of the state after a step.
LEMMA LockQueueDrewNext ==
    ASSUME QueueOf(pending', Waiting', ticket', nextTicket'), Waiting' \in SUBSET Callers
    PROVE  Drew(LockQueue', pending', Waiting', ticket')
<1>1. LockQueue' = DrawnBy(pending', Waiting', ticket')
  BY DEF LockQueue, DrawnBy, WaiterWith
<1> QED BY <1>1, DrawnByDrew

\* What one turn of acquire's loop does to the lock.  f is the lock's queue
\* with the caller in it.
LEMMA TurnImplements ==
    ASSUME TypeOK, MutualExclusion, IInv',
           NEW c \in Callers, pc[c] \in {"idle", "waiting"},
           NEW t \in Nat, NEW queue, NEW f, ticket'[c] = t, nextTicket' \in Nat,
           QueueOf(queue, Waiting \cup {c}, ticket', nextTicket'),
           Drew(f, queue, Waiting \cup {c}, ticket'),
           Turn(c, t, queue)
    PROVE  \/ /\ \E i \in 1 .. Len(f) : f[i] = c /\ LockQueue' = RemoveAt(f, i)
              /\ Holding' = Holding
           \/ /\ f # <<>> /\ Head(f) = c /\ LockQueue' = Tail(f)
              /\ Holding = {} /\ Holding' = {c}
           \/ LockQueue' = f /\ Holding' = Holding
<1>1. /\ queue \in Seq(Nat) /\ DOMAIN queue = 1 .. Len(queue)
      /\ f \in Seq(Callers) /\ Len(f) = Len(queue)
  BY LenProperties DEF QueueOf, Drew
<1>2. pc \in [Callers -> Places]
  BY DEF TypeOK
<1>3. QueueOf(pending', Waiting', ticket', nextTicket') /\ Waiting' \in SUBSET Callers
  <2>1. DOMAIN pending' = 1 .. Len(pending') /\ pending' \in Seq(Nat)
    BY LenProperties DEF IInv, TypeOK
  <2> QED BY <2>1 DEF IInv, QueueIsWaiters, QueueOf, Waiting
<1>4. Drew(LockQueue', pending', Waiting', ticket')
  BY <1>3, LockQueueDrewNext
<1>5. CASE StopWaiting(c, t, queue)
  <2>1. PICK i \in 1 .. Len(queue) : queue[i] = t /\ pending' = RemoveAt(queue, i)
    BY <1>1, <1>5 DEF StopWaiting
  <2>2. Waiting' = (Waiting \cup {c}) \ {c} /\ Holding' = Holding
    BY <1>2, <1>5 DEF StopWaiting, Waiting, Holding, Places
  <2>3. Drew(RemoveAt(f, i), pending', Waiting', ticket') /\ f[i] = c
    <3>1. c \in Waiting \cup {c} /\ queue[i] = ticket'[c]
      BY <2>1
    <3>2. /\ Drew(RemoveAt(f, i), RemoveAt(queue, i), (Waiting \cup {c}) \ {c}, ticket')
          /\ f[i] = c
      BY <3>1, DrewLeave
    <3> QED BY <2>1, <2>2, <3>2
  <2>4. LockQueue' = RemoveAt(f, i)
    BY <1>3, <1>4, <2>3, DrewUnique
  <2> QED BY <1>1, <2>2, <2>3, <2>4
<1>6. CASE Grant(c, t, queue)
  <2>1. pending' = RemoveAt(queue, 1) /\ 1 \in 1 .. Len(queue) /\ queue[1] = t
    BY <1>1, <1>6, TailIsRemoveAt DEF Grant
  <2>2. Waiting' = (Waiting \cup {c}) \ {c}
    BY <1>2, <1>6 DEF Grant, Waiting, Places
  <2>3. Drew(RemoveAt(f, 1), pending', Waiting', ticket') /\ f[1] = c
    BY <2>1, <2>2, DrewLeave
  <2>4. LockQueue' = RemoveAt(f, 1)
    BY <1>3, <1>4, <2>3, DrewUnique
  <2>5. f # <<>> /\ Tail(f) = RemoveAt(f, 1) /\ Head(f) = f[1]
    <3>1. f # <<>>
      BY <1>1, <2>1, EmptySeq
    <3> QED BY <1>1, <3>1, TailIsRemoveAt
  <2>6. Holding = {} /\ Holding' = {c}
    BY <1>2, <1>6 DEF MutualExclusion, Holding, Grant, Places
  <2> QED BY <2>3, <2>4, <2>5, <2>6
<1>7. CASE Sleep(c, t, queue)
  <2>1. Waiting' = Waiting \cup {c} /\ Holding' = Holding /\ pending' = queue
    BY <1>2, <1>7 DEF Sleep, Waiting, Holding, Places
  <2>2. LockQueue' = f
    BY <1>3, <1>4, <2>1, DrewUnique
  <2> QED BY <2>1, <2>2
<1> QED BY <1>5, <1>6, <1>7 DEF Turn

-----------------------------------------------------------------------------
\* The lock's steps, over LockQueue and Holding.
LEMMA LockSteps ==
    ASSUME NEW c \in Callers,
           \/ /\ c \notin Holding /\ \A i \in DOMAIN LockQueue : LockQueue[i] # c
              /\ \/ LockQueue' = Append(LockQueue, c) /\ Holding' = Holding
                 \/ /\ LockQueue = <<>> /\ Holding = {}
                    /\ Holding' = {c} /\ LockQueue' = LockQueue
           \/ /\ LockQueue # <<>> /\ Holding = {}
              /\ Holding' = {Head(LockQueue)} /\ LockQueue' = Tail(LockQueue)
           \/ /\ \E i \in DOMAIN LockQueue : LockQueue' = RemoveAt(LockQueue, i)
              /\ Holding' = Holding
           \/ /\ c \in Holding /\ Holding' = Holding \ {c} /\ LockQueue' = LockQueue
           \/ LockQueue' = LockQueue /\ Holding' = Holding
    PROVE  [Lock!Next]_(Lock!vars)
  BY DEF Lock!Next, Lock!Join, Lock!TakeFree, Lock!TakeFirst, Lock!GiveUp,
     Lock!Release, Lock!Idle, Lock!vars, Lock!RemoveAt, RemoveAt, LockQueue

\* A first turn of acquire joins the queue, takes the free lock or does nothing.
LEMMA AcquireImplements ==
    ASSUME IInv, IInv', NEW c \in Callers, Acquire(c)
    PROVE  [Lock!Next]_(Lock!vars)
<1> DEFINE q == LockQueue
           f == Append(LockQueue, c)
<1>1. Drew(q, pending, Waiting, ticket)
  BY LockQueueDrew
<1>2. QueueOf(pending, Waiting, ticket, nextTicket)
  BY QueueOfPending DEF IInv
<1>3. /\ ticket \in [Callers -> Nat] /\ nextTicket \in Nat /\ c \in Callers \ Waiting
      /\ Waiting \in SUBSET Callers /\ ticket' = [ticket EXCEPT ![c] = nextTicket]
      /\ pc[c] = "idle" /\ c \notin Holding
  BY DEF Acquire, IInv, TypeOK, Waiting, Holding
<1>4. Drew(f, Append(pending, nextTicket), Waiting \cup {c}, ticket')
  BY <1>1, <1>2, <1>3, DrewJoin
<1>5. /\ q \in Seq(Callers) /\ Len(q) \in Nat /\ DOMAIN q = 1 .. Len(q)
      /\ \A i \in 1 .. Len(q) : q[i] # c
  BY <1>1, <1>3, LenProperties DEF Drew
<1>6. /\ f \in Seq(Callers) /\ Len(f) = Len(q) + 1 /\ f[Len(q) + 1] = c
      /\ \A i \in 1 .. Len(q) : f[i] = q[i]
  BY <1>5, AppendProperties
<1>7. /\ Turn(c, nextTicket, Append(pending, nextTicket))
      /\ ticket'[c] = nextTicket /\ nextTicket' \in Nat
      /\ QueueOf(Append(pending, nextTicket), Waiting \cup {c}, ticket', nextTicket')
  BY AcquireQueue DEF Acquire
<1> HIDE DEF f
<1>8. \/ /\ \E i \in 1 .. Len(f) : f[i] = c /\ LockQueue' = RemoveAt(f, i)
         /\ Holding' = Holding
      \/ /\ f # <<>> /\ Head(f) = c /\ LockQueue' = Tail(f)
         /\ Holding = {} /\ Holding' = {c}
      \/ LockQueue' = f /\ Holding' = Holding
  BY <1>3, <1>4, <1>7, TurnImplements DEF IInv
<1>9. ASSUME NEW i \in 1 .. Len(f), f[i] = c PROVE RemoveAt(f, i) = q
  <2> HIDE DEF q
  <2>1. i = Len(q) + 1
    BY <1>5, <1>6, <1>9
  <2>2. /\ RemoveAt(f, i) \in Seq(Callers) /\ Len(RemoveAt(f, i)) = Len(f) - 1
        /\ \A j \in 1 .. Len(f) - 1 :
              RemoveAt(f, i)[j] = IF j < i THEN f[j] ELSE f[j + 1]
    BY <1>6, RemoveAtProperties
  <2>3. \A j \in 1 .. Len(q) : RemoveAt(f, i)[j] = q[j]
    BY <1>5, <1>6, <2>1, <2>2
  <2>4. Len(RemoveAt(f, i)) = Len(q)
    BY <1>5, <1>6, <2>2
  <2> QED BY <1>5, <2>2, <2>3, <2>4, SeqEqual
<1>10. ASSUME f # <<>>, Head(f) = c PROVE q = <<>> /\ Tail(f) = q
  <2>1. 1 \in 1 .. Len(f) /\ f[1] = c /\ Tail(f) = RemoveAt(f, 1)
    BY <1>6, <1>10, TailIsRemoveAt
  <2>2. Tail(f) = q
    BY <1>9, <2>1
  <2>3. 1 \notin 1 .. Len(q)
    BY <1>5, <1>6, <2>1
  <2> QED BY <1>5, <2>2, <2>3, EmptySeq
<1>11. \/ LockQueue' = LockQueue /\ Holding' = Holding
       \/ /\ LockQueue = <<>> /\ Holding = {}
          /\ Holding' = {c} /\ LockQueue' = LockQueue
       \/ LockQueue' = Append(LockQueue, c) /\ Holding' = Holding
  BY <1>8, <1>9, <1>10 DEF f
<1> QED BY <1>3, <1>5, <1>11, LockSteps

\* A later turn gives up, takes the lock as the first of the queue or waits on.
LEMMA RecheckImplements ==
    ASSUME IInv, IInv', NEW c \in Callers, Recheck(c)
    PROVE  [Lock!Next]_(Lock!vars)
<1>1. Drew(LockQueue, pending, Waiting, ticket)
  BY LockQueueDrew
<1>2. /\ Waiting \cup {c} = Waiting /\ ticket' = ticket /\ pc[c] = "waiting"
      /\ Turn(c, ticket[c], pending)
  BY DEF Recheck, Waiting
<1>3. Drew(LockQueue, pending, Waiting \cup {c}, ticket')
  BY <1>1, <1>2
<1>4. /\ QueueOf(pending, Waiting \cup {c}, ticket', nextTicket')
      /\ ticket'[c] = ticket[c] /\ ticket[c] \in Nat /\ nextTicket' \in Nat
  BY RecheckQueue
<1>5. \/ /\ \E i \in 1 .. Len(LockQueue) :
               LockQueue[i] = c /\ LockQueue' = RemoveAt(LockQueue, i)
         /\ Holding' = Holding
      \/ /\ LockQueue # <<>> /\ Head(LockQueue) = c /\ LockQueue' = Tail(LockQueue)
         /\ Holding = {} /\ Holding' = {c}
      \/ LockQueue' = LockQueue /\ Holding' = Holding
  BY <1>2, <1>3, <1>4, TurnImplements DEF IInv
<1>6. DOMAIN LockQueue = 1 .. Len(LockQueue)
  BY <1>1, LenProperties DEF Drew
<1>7. \/ /\ LockQueue # <<>> /\ Holding = {}
         /\ Holding' = {Head(LockQueue)} /\ LockQueue' = Tail(LockQueue)
      \/ /\ \E i \in DOMAIN LockQueue : LockQueue' = RemoveAt(LockQueue, i)
         /\ Holding' = Holding
      \/ LockQueue' = LockQueue /\ Holding' = Holding
  BY <1>5, <1>6
<1> QED BY <1>7, LockSteps

\* The other steps leave the queue alone, and only Release empties the lock.
LEMMA OtherStepsImplement ==
    ASSUME IInv, UNCHANGED <<pending, ticket>>, Waiting' = Waiting, Holding' = Holding
    PROVE  UNCHANGED Lock!vars
  BY DEF Lock!vars, WaiterWith

\* The gate is a first-come-first-served lock with cancellation, for any
\* number of callers: acquire joins, takes or gives up, ~Lease releases, and
\* nothing else the gate does is visible in the lock.
THEOREM GateImplementsFifoLock == Spec => ImplementsFifoLock
<1>1. Init => Lock!Init
  BY DEF Init, Lock!Init, Waiting, Holding
<1>2. IInv /\ IInv' /\ [Next]_vars => [Lock!Next]_(Lock!vars)
  <2> SUFFICES ASSUME IInv, IInv', [Next]_vars PROVE [Lock!Next]_(Lock!vars)
    OBVIOUS
  <2> USE GateAssumption
  <2>1. ASSUME NEW c \in Callers, Acquire(c) PROVE [Lock!Next]_(Lock!vars)
    BY <2>1, AcquireImplements
  <2>2. ASSUME NEW c \in Callers, Recheck(c) PROVE [Lock!Next]_(Lock!vars)
    BY <2>2, RecheckImplements
  <2>3. ASSUME NEW c \in Callers, Release(c) PROVE [Lock!Next]_(Lock!vars)
    <3>1. /\ c \in Holding /\ Holding' = Holding \ {c}
          /\ Waiting' = Waiting /\ UNCHANGED <<pending, ticket>>
      BY <2>3 DEF Release, IInv, TypeOK, Waiting, Holding, Places
    <3>2. LockQueue' = LockQueue
      BY <3>1 DEF LockQueue, WaiterWith
    <3> QED BY <3>1, <3>2, LockSteps
  <2>4. ASSUME NEW c \in Callers, Timeout(c) \/ NotifyAll(c) \/ ReturnError(c)
        PROVE  [Lock!Next]_(Lock!vars)
    <3>1. /\ Holding' = Holding /\ Waiting' = Waiting
          /\ UNCHANGED <<pending, ticket>>
      BY <2>4 DEF Timeout, NotifyAll, ReturnError, IInv, TypeOK, Waiting,
         Holding, Places
    <3> QED BY <3>1, OtherStepsImplement
  <2>5. ASSUME NEW c \in Controlled, Cancel(c) \/ Expire(c)
        PROVE  [Lock!Next]_(Lock!vars)
    <3>1. /\ Holding' = Holding /\ Waiting' = Waiting
          /\ UNCHANGED <<pending, ticket>>
      BY <2>5 DEF Cancel, Expire, gateVars, Waiting, Holding
    <3> QED BY <3>1, OtherStepsImplement
  <2>6. CASE UNCHANGED vars
    <3>1. /\ Holding' = Holding /\ Waiting' = Waiting
          /\ UNCHANGED <<pending, ticket>>
      BY <2>6 DEF vars, gateVars, Waiting, Holding
    <3> QED BY <3>1, OtherStepsImplement
  <2> QED BY <2>1, <2>2, <2>3, <2>4, <2>5, <2>6 DEF Next
<1> QED BY <1>1, <1>2, InitIInv, NextIInv, PTL DEF Spec, ImplementsFifoLock, Lock!Spec

-----------------------------------------------------------------------------
(***************************************************************************)
(* Arithmetic of the tree: strides are powers of two.                      *)
(***************************************************************************)
Power == [n \in 0..10 |-> 2 ^ n]

\* The powers that a block of at most 1024 threads needs.
LEMMA PowersAre ==
    \A n \in 0..10 : Power[n] = <<1, 2, 4, 8, 16, 32, 64, 128, 256, 512, 1024>>[n + 1]
<1> SUFFICES ASSUME NEW n \in 0..10
             PROVE  Power[n] = <<1, 2, 4, 8, 16, 32, 64, 128, 256, 512, 1024>>[n + 1]
  OBVIOUS
<1>1. CASE n = 0
  BY <1>1 DEF Power
<1>2. CASE n = 1
  BY <1>2 DEF Power
<1>3. CASE n = 2
  BY <1>3 DEF Power
<1>4. CASE n = 3
  BY <1>4 DEF Power
<1>5. CASE n = 4
  BY <1>5 DEF Power
<1>6. CASE n = 5
  BY <1>6 DEF Power
<1>7. CASE n = 6
  BY <1>7 DEF Power
<1>8. CASE n = 7
  BY <1>8 DEF Power
<1>9. CASE n = 8
  BY <1>9 DEF Power
<1>10. CASE n = 9
  BY <1>10 DEF Power
<1>11. CASE n = 10
  BY <1>11 DEF Power
<1> QED BY <1>1, <1>2, <1>3, <1>4, <1>5, <1>6, <1>7, <1>8, <1>9, <1>10, <1>11

\* Each is twice the one before, and they grow.
LEMMA PowerFacts ==
    /\ Power[0] = 1
    /\ \A n \in 0..10 : Power[n] \in Nat \ {0}
    /\ \A m, n \in 0..10 : n < m => 2 * Power[n] <= Power[m]
    /\ \A m, n \in 0..10 : m = n + 1 => Power[m] = 2 * Power[n]
<1>1. Power[0] = 1
  BY PowersAre
<1>2. \A n \in 0..10 : Power[n] \in Nat \ {0}
  BY PowersAre
<1>3. \A m, n \in 0..10 : n < m => 2 * Power[n] <= Power[m]
  BY PowersAre
<1>4. \A m, n \in 0..10 : m = n + 1 => Power[m] = 2 * Power[n]
  BY PowersAre
<1> QED BY <1>1, <1>2, <1>3, <1>4

\* Division with a remainder undoes a sum of a multiple and a rest.
LEMMA DivSum ==
    ASSUME NEW a \in Nat, NEW b \in Nat \ {0}, NEW c \in 0..(b - 1)
    PROVE  (a * b + c) \div b = a /\ (a * b + c) % b = c
<1>1. (b * a + c) \div b = a /\ (b * a + c) % b = c
  BY SMTT(60)
<1>2. a * b = b * a
  OBVIOUS
<1> QED BY <1>1, <1>2

\* A number is a multiple of a divisor and a rest.
LEMMA DivSplit ==
    ASSUME NEW n \in Nat, NEW b \in Nat \ {0}
    PROVE  n \div b \in Nat /\ n % b \in 0..(b - 1) /\ n = (n \div b) * b + (n % b)
<1>1. PICK q \in Nat : q = n \div b
  BY SMTT(30)
<1>2. PICK r \in 0..(b - 1) : r = n % b
  BY SMTT(30)
<1>3. n = b * q + r
  BY <1>1, <1>2, SMTT(60)
<1>4. b * q = q * b /\ q * b \in Nat
  OBVIOUS
<1> DEFINE x == q * b
<1> HIDE DEF x
<1>5. n = x + r
  BY <1>3, <1>4 DEF x
<1>6. n = q * b + r
  BY <1>5 DEF x
<1> QED BY <1>1, <1>2, <1>6, Zenon

\* A remainder of half the divisor: the same, or less by the half.
LEMMA HalfRemainder ==
    ASSUME NEW v \in Nat, NEW s \in Nat \ {0}
    PROVE  /\ v % (2 * s) \in 0..(2 * s - 1)
           /\ v % s = IF v % (2 * s) < s THEN v % (2 * s) ELSE (v % (2 * s)) - s
<1> DEFINE d == 2 * s
<1>1. d \in Nat \ {0}
  OBVIOUS
<1>2. v \div d \in Nat /\ v % d \in 0..(d - 1) /\ v = (v \div d) * d + (v % d)
  <2> HIDE DEF d
  <2> QED BY <1>1, DivSplit
<1>2a. PICK q \in Nat, r \in 0..(d - 1) : v = q * d + r /\ r = v % d
  BY <1>2
<1>3. CASE r < s
  <2>1. v = (2 * q) * s + r /\ 2 * q \in Nat /\ r \in 0..(s - 1)
    BY <1>2a, <1>3
  <2>2. v % s = r
    BY <2>1, DivSum
  <2> QED BY <1>2a, <1>3, <2>2
<1>4. CASE ~(r < s)
  <2>1. v = (2 * q + 1) * s + (r - s) /\ 2 * q + 1 \in Nat /\ r - s \in 0..(s - 1)
    BY <1>2a, <1>4
  <2>2. v % s = r - s
    BY <2>1, DivSum
  <2> QED BY <1>2a, <1>4, <2>2
<1> QED BY <1>3, <1>4

-----------------------------------------------------------------------------
(***************************************************************************)
(* A row's block.  Stage(t) is how far the thread is in the reduction that *)
(* comes next: 0 to publish, 1..depth in the tree, depth + 1 to read.      *)
(***************************************************************************)
Threads == Numbers(job.rows) \X Numbers(RowThreads)
RowKernel == Kernel("rows", Threads, [results |-> <<>>, local |-> EmptyBag], Zeros(RowThreads, EmptyBag))

Got(t) == Len(reg[t].results)
Stage(t) == at[t][1] - First(Got(t) + 1)
Phase(t) == IF at[t] = Ended THEN First(Got(t) + 1) ELSE at[t][1]
AllMasked == job.norm = "softmax" /\ Numbers(job.hidden) \subseteq job.masked

Going(t) ==
  /\ Got(t) \in 0..(Reductions - 1) /\ (Got(t) = 1 => ~AllMasked)
  /\ \E k \in 0..(job.depth + 1) : at[t] = <<First(Got(t) + 1) + k, IF k = 0 THEN 1 ELSE 0>>
Gone(t) ==
  /\ at[t] = Ended
  /\ \/ Got(t) = Reductions /\ (Reductions = 2 => ~AllMasked)
     \/ Got(t) = 1 /\ Reductions = 2 /\ AllMasked

Registers(t) ==
  /\ reg[t] = [results |-> reg[t].results, local |-> reg[t].local]
  /\ \/ reg[t].results = <<>>
     \/ reg[t].results = <<reg[t].results[1]>>
     \/ reg[t].results = <<reg[t].results[1], reg[t].results[2]>>

\* The barrier: threads of a block are in one phase or in two that follow each
\* other, and none has read a result before all have ended the tree.
Together(t, u) == Phase(u) <= Phase(t) + 1 /\ First(Got(t) + 1) <= Phase(u)

\* The last reduction t has published for, and the levels of its tree it has done.
Round(t) == IF at[t] # Ended /\ Stage(t) > 0 THEN Got(t) + 1 ELSE Got(t)
Level(t) == IF at[t] # Ended /\ Stage(t) > 0 THEN Stage(t) - 1 ELSE job.depth

\* What columns give to reduction r of block b: n threads with registers regs.
Part(n, regs, b, r, c) == <<c, IF r = 1 THEN <<>> ELSE <<regs[<<b, c % n>>].results[1]>>>>
Parts(n, regs, b, r, columns) == {Part(n, regs, b, r, c) : c \in columns}
Content(b, r, columns) == SetToBag(Parts(RowThreads, reg, b, r, columns))
Under(i, n) == {c \in Numbers(job.hidden) : (c % RowThreads) % n = i}

Published(t) == Round(t) > 0 => reg[t].local = Content(t[1], Round(t), Columns(t))
\* A slot holds what is under it, at the last level where it is in the tree.
SlotHolds(t) ==
  Round(t) > 0 => \A l \in 0..Level(t) :
    t[2] < Power[job.depth - l] /\ (l < Level(t) => t[2] >= Power[job.depth - l - 1]) =>
      shared[t[1]][t[2]] = Content(t[1], Round(t), Under(t[2], Power[job.depth - l]))
Result(t) ==
  Got(t) = Reductions => reg[t].results[Reductions] = Content(t[1], Reductions, Numbers(job.hidden))

BlockInv ==
  /\ DOMAIN at = Threads /\ DOMAIN reg = Threads
  /\ DOMAIN shared = Numbers(job.rows)
  /\ \A b \in Numbers(job.rows) : DOMAIN shared[b] = Numbers(RowThreads)
  /\ \A t \in Threads : /\ Registers(t) /\ (Going(t) \/ Gone(t))
                        /\ Published(t) /\ SlotHolds(t) /\ Result(t)
  /\ \A t, u \in Threads : t[1] = u[1] => Together(t, u)

RowsInv ==
  /\ todo \in {<<"rows">>, <<>>}
  /\ stream \in {<<>>, <<RowKernel>>}
  /\ todo # <<>> => stream = <<>>
  /\ \/ at = <<>> /\ reg = <<>>
     \/ stream = <<RowKernel>> /\ BlockInv

KernelsInv == job \in Jobs /\ (job.kind = "rows" => RowsInv)

IsRows == job \in Jobs /\ job.kind = "rows"

-----------------------------------------------------------------------------
(***************************************************************************)
(* What the numbers of a job are, and what a step of one thread leaves.    *)
(***************************************************************************)
\* A block has a power of two threads, and does one or two reductions.
LEMMA JobFacts ==
    ASSUME IsRows
    PROVE  /\ job.rows \in Nat /\ job.hidden \in Nat /\ job.depth \in 0..10
           /\ RowThreads = Power[job.depth] /\ RowThreads \in Nat \ {0}
           /\ Reductions \in {1, 2}
           /\ job.norm = "softmax" => Reductions = 2
<1>1. job.rows \in Nat /\ job.hidden \in Nat /\ job.depth \in 0..10
  BY JobsAssumption DEF IsRows
<1>2. RowThreads = Power[job.depth]
  BY <1>1 DEF RowThreads, Power
<1>3. RowThreads \in Nat \ {0}
  BY <1>1, <1>2, PowerFacts
<1> QED BY <1>1, <1>2, <1>3 DEF Reductions

\* Where the reductions begin: one after the other, depth + 1 phases each.
LEMMA PhaseFacts ==
    ASSUME IsRows
    PROVE  /\ \A g \in 0..2 : First(g + 1) \in 1..23
           /\ First(1) = 1 /\ First(2) = job.depth + 2 /\ First(3) = 2 * job.depth + 3
           /\ \A g \in 0..1 : First(g + 1 + 1) = First(g + 1) + job.depth + 1
<1>1. job.depth \in 0..10
  BY JobFacts
<1>2. First(1) = 1 /\ First(2) = job.depth + 2 /\ First(3) = 2 * job.depth + 3
  BY <1>1 DEF First
<1>3. \A g \in 0..2 : g = 0 \/ g = 1 \/ g = 2
  OBVIOUS
<1> QED BY <1>1, <1>2, <1>3

\* Of the registers, only first results tell the parts of a second reduction.
LEMMA PartsSame ==
    ASSUME NEW n, NEW f, NEW g, NEW b, NEW r, NEW C,
           r # 1 => \A c \in C : g[<<b, c % n>>].results[1] = f[<<b, c % n>>].results[1]
    PROVE  Parts(n, g, b, r, C) = Parts(n, f, b, r, C)
  BY DEF Parts, Part

\* A thread that has not moved is as far as it was.
LEMMA Untouched ==
    ASSUME NEW u, job' = job, reg'[u] = reg[u], at'[u] = at[u]
    PROVE  /\ Got(u)' = Got(u) /\ Stage(u)' = Stage(u) /\ Phase(u)' = Phase(u)
           /\ Round(u)' = Round(u) /\ Level(u)' = Level(u) /\ Columns(u)' = Columns(u)
           /\ (Going(u) => Going(u)') /\ (Gone(u) => Gone(u)') /\ (Registers(u) => Registers(u)')
<1>1. Got(u)' = Got(u)
  BY DEF Got
<1>2. First(Got(u) + 1)' = First(Got(u) + 1)
  BY <1>1 DEF First
<1>3. Stage(u)' = Stage(u) /\ Phase(u)' = Phase(u)
  BY <1>1, <1>2 DEF Stage, Phase
<1>4. Round(u)' = Round(u) /\ Level(u)' = Level(u)
  BY <1>1, <1>3 DEF Round, Level
<1>5. Columns(u)' = Columns(u)
  BY DEF Columns, Numbers, RowThreads
<1>6. Going(u) => Going(u)'
  BY <1>1, <1>2 DEF Going, AllMasked, Reductions, Numbers
<1>7. Gone(u) => Gone(u)'
  BY <1>1 DEF Gone, AllMasked, Reductions, Numbers
<1>8. Registers(u) => Registers(u)'
  BY DEF Registers
<1> QED BY <1>1, <1>3, <1>4, <1>5, <1>6, <1>7, <1>8

\* A thread in a reduction: how far it is, and in which phase.
LEMMA GoingStage ==
    ASSUME IsRows, NEW t, Going(t)
    PROVE  /\ Got(t) \in 0..1 /\ Got(t) < Reductions /\ First(Got(t) + 1) \in 1..23
           /\ Stage(t) \in 0..(job.depth + 1)
           /\ at[t] = <<First(Got(t) + 1) + Stage(t), IF Stage(t) = 0 THEN 1 ELSE 0>>
           /\ at[t] # Ended /\ Phase(t) = First(Got(t) + 1) + Stage(t)
<1>1. Got(t) \in 0..1 /\ Got(t) < Reductions /\ First(Got(t) + 1) \in 1..23 /\ job.depth \in 0..10
  BY JobFacts, PhaseFacts DEF Going
<1>2. PICK f \in 1..23 : f = First(Got(t) + 1)
  BY <1>1
<1>3. PICK k \in 0..(job.depth + 1) : at[t] = <<f + k, IF k = 0 THEN 1 ELSE 0>>
  BY <1>2 DEF Going
<1>4. at[t][1] = f + k /\ k \in 0..11
  BY <1>1, <1>3
<1>5. Stage(t) = k
  BY <1>2, <1>4 DEF Stage
<1>6. at[t] # Ended
  BY <1>3, <1>4 DEF Ended
<1>7. Phase(t) = f + k
  BY <1>4, <1>6 DEF Phase
<1> QED BY <1>1, <1>2, <1>3, <1>5, <1>6, <1>7

\* A thread that has ended has its last result, or a row that is masked.
LEMMA GonePhase ==
    ASSUME IsRows, NEW t, Gone(t)
    PROVE  /\ Got(t) \in 1..2 /\ Phase(t) = First(Got(t) + 1) /\ Phase(t) \in 1..23
           /\ Got(t) = Reductions \/ (Got(t) = 1 /\ Reductions = 2 /\ AllMasked)
           /\ Got(t) = 2 => ~AllMasked
<1>1. Got(t) \in 1..2 /\ Phase(t) = First(Got(t) + 1)
  BY JobFacts DEF Gone, Phase
<1>2. First(Got(t) + 1) \in 1..23
  BY <1>1, PhaseFacts
<1> QED BY <1>1, <1>2, JobFacts DEF Gone

\* Who runs has begun nothing else, and no thread of its block is behind it.
LEMMA Waited ==
    ASSUME IsRows, BlockInv, NEW t \in Threads, Runs("rows", t)
    PROVE  /\ Going(t) /\ at[t] # Ended
           /\ Phase(t) = at[t][1] /\ Phase(t) = First(Got(t) + 1) + Stage(t)
           /\ \A u \in Threads : u[1] = t[1] => Phase(t) <= Phase(u)
<1>1. at[t] # Ended /\ \A u \in Threads : u[1] = t[1] => at[t][1] <= at[u][1]
  BY DEF Runs, BlockInv
<1>2. Going(t)
  BY <1>1 DEF BlockInv, Gone
<1>3. Phase(t) = at[t][1] /\ Phase(t) = First(Got(t) + 1) + Stage(t)
  BY <1>1, <1>2, GoingStage DEF Phase
<1>4. ASSUME NEW u \in Threads, u[1] = t[1]
      PROVE  Phase(t) <= Phase(u)
  <2>1. CASE Going(u)
    <3>1. Phase(u) = at[u][1]
      BY <2>1, GoingStage DEF Phase
    <3> QED BY <1>1, <1>3, <1>4, <3>1
  <2>2. CASE Gone(u)
    <3>1. Phase(t) <= First(Got(t) + 1) + job.depth + 1
      BY <1>2, <1>3, GoingStage, JobFacts
    <3>2. Got(t) <= Got(u) - 1
      BY <1>2, <2>2, GoingStage, GonePhase, JobFacts DEF Going
    <3>3. Got(t) \in 0..1 /\ Got(u) \in 1..2
      BY <1>2, <2>2, GoingStage, GonePhase
    <3>4. First(Got(t) + 1) + job.depth + 1 <= First(Got(u) + 1)
      BY <3>2, <3>3, PhaseFacts, JobFacts
    <3> QED BY <2>2, <3>1, <3>3, <3>4, GonePhase, PhaseFacts, JobFacts, GoingStage, <1>2, <1>3
  <2> QED BY <2>1, <2>2 DEF BlockInv
<1> QED BY <1>1, <1>2, <1>3, <1>4

\* A thread has its row and its place in the block; every column is of one.
LEMMA ThreadFacts ==
    ASSUME IsRows, NEW t \in Threads
    PROVE  /\ t = <<t[1], t[2]>> /\ t[1] \in Numbers(job.rows) /\ t[2] \in Numbers(RowThreads)
           /\ t[2] \in Nat /\ t[2] < RowThreads
           /\ \A c \in Numbers(job.hidden) : c \in Nat /\ c % RowThreads \in Numbers(RowThreads)
           /\ Under(t[2], RowThreads) = Columns(t)
<1>1. t = <<t[1], t[2]>> /\ t[1] \in Numbers(job.rows) /\ t[2] \in Numbers(RowThreads)
  BY DEF Threads
<1>2. t[2] \in Nat /\ t[2] < RowThreads
  BY <1>1, JobFacts DEF Numbers
<1>3. ASSUME NEW c \in Numbers(job.hidden)
      PROVE  c \in Nat /\ c % RowThreads \in 0..(RowThreads - 1) /\ (c % RowThreads) % RowThreads = c % RowThreads
  <2>1. c \in Nat
    BY JobFacts DEF Numbers
  <2>2. c % RowThreads \in 0..(RowThreads - 1)
    BY <2>1, JobFacts, DivSplit
  <2>3. PICK m \in 0..(RowThreads - 1) : m = c % RowThreads
    BY <2>2
  <2>4. (0 * RowThreads + m) % RowThreads = m /\ 0 * RowThreads + m = m
    BY JobFacts, DivSum
  <2> QED BY <2>1, <2>3, <2>4
<1>4. Under(t[2], RowThreads) = Columns(t)
  BY <1>3 DEF Under, Columns
<1> QED BY <1>1, <1>2, <1>3, <1>4 DEF Numbers

\* Two reductions at most, and as many levels as the tree is deep.
LEMMA RoundFacts ==
    ASSUME IsRows, NEW t, Going(t) \/ Gone(t)
    PROVE  /\ Round(t) \in 0..2 /\ Round(t) <= Reductions /\ Level(t) \in 0..job.depth
           /\ Got(t) \in 0..2 /\ Phase(t) \in 1..34
<1>1. CASE Going(t)
  BY <1>1, GoingStage, JobFacts DEF Round, Level
<1>2. CASE Gone(t)
  BY <1>2, GonePhase, JobFacts DEF Round, Level, Gone
<1> QED BY <1>1, <1>2

\* What a step of another thread leaves: a slot it does not write, and what
\* it has not changed of the first results.
LEMMA OthersKeep ==
    ASSUME IsRows, BlockInv, job' = job, NEW u \in Threads,
           reg'[u] = reg[u], at'[u] = at[u], shared'[u[1]][u[2]] = shared[u[1]][u[2]],
           \A c \in Numbers(job.hidden) :
             \/ reg'[<<u[1], c % RowThreads>>].results[1] = reg[<<u[1], c % RowThreads>>].results[1]
             \/ Round(u) = 2 => Level(u) = 0 /\ Got(u) < 2 /\ c % RowThreads # u[2]
    PROVE  /\ Registers(u)' /\ (Going(u)' \/ Gone(u)')
           /\ Published(u)' /\ SlotHolds(u)' /\ Result(u)'
<1> DEFINE P(g, r, C) == Parts(RowThreads, g, u[1], r, C)
<1>1. /\ Registers(u) /\ (Going(u) \/ Gone(u))
      /\ Published(u) /\ SlotHolds(u) /\ Result(u)
  BY DEF BlockInv
<1>2. /\ Round(u)' = Round(u) /\ Level(u)' = Level(u) /\ Columns(u)' = Columns(u) /\ Got(u)' = Got(u)
      /\ Registers(u)' /\ (Going(u)' \/ Gone(u)')
  BY <1>1, Untouched
<1>3. RowThreads' = RowThreads /\ Reductions' = Reductions /\ \A i, n : Under(i, n)' = Under(i, n)
  BY DEF RowThreads, Reductions, Under, Numbers
<1>4. Round(u) \in 0..2 /\ Level(u) \in 0..job.depth
  BY <1>1, RoundFacts
<1>5. ASSUME Round(u) > 0, NEW C, C \subseteq Numbers(job.hidden),
             Got(u) = 2 \/ (Level(u) = 0 => C \subseteq Columns(u))
      PROVE  P(reg', Round(u), C) = P(reg, Round(u), C)
  <2>1. CASE Round(u) = 1
    BY <2>1, PartsSame
  <2>2. CASE Round(u) = 2
    <3>1. \A c \in C : reg'[<<u[1], c % RowThreads>>].results[1] = reg[<<u[1], c % RowThreads>>].results[1]
      BY <1>4, <1>5, <2>2 DEF Columns
    <3> QED BY <3>1, PartsSame
  <2> QED BY <1>4, <1>5, <2>1, <2>2
<1>6. Published(u)'
  <2> SUFFICES ASSUME Round(u) > 0
               PROVE  reg[u].local = SetToBag(P(reg', Round(u), Columns(u)))
    BY <1>2, <1>3 DEF Published, Content
  <2>1. Columns(u) \subseteq Numbers(job.hidden)
    BY DEF Columns
  <2>2. P(reg', Round(u), Columns(u)) = P(reg, Round(u), Columns(u))
    BY <1>5, <2>1
  <2> QED BY <1>1, <2>2 DEF Published, Content
<1>7. SlotHolds(u)'
  <2> SUFFICES ASSUME Round(u) > 0, NEW l \in 0..Level(u), u[2] < Power[job.depth - l],
                      l < Level(u) => u[2] >= Power[job.depth - l - 1]
               PROVE  shared[u[1]][u[2]] = SetToBag(P(reg', Round(u), Under(u[2], Power[job.depth - l])))
    BY <1>2, <1>3 DEF SlotHolds, Content, Power
  <2>1. Under(u[2], Power[job.depth - l]) \subseteq Numbers(job.hidden)
    BY DEF Under
  <2>2. ASSUME Level(u) = 0
        PROVE  Under(u[2], Power[job.depth - l]) = Columns(u)
    <3>1. l = 0
      BY <2>2
    <3>2. job.depth - l = job.depth
      BY <3>1, JobFacts
    <3> QED BY <3>2, ThreadFacts, JobFacts
  <2>3. P(reg', Round(u), Under(u[2], Power[job.depth - l])) = P(reg, Round(u), Under(u[2], Power[job.depth - l]))
    BY <1>5, <2>1, <2>2
  <2>4. shared[u[1]][u[2]] = SetToBag(P(reg, Round(u), Under(u[2], Power[job.depth - l])))
    BY <1>1 DEF SlotHolds, Content
  <2> QED BY <2>3, <2>4
<1>8. Result(u)'
  <2> SUFFICES ASSUME Got(u) = Reductions
               PROVE  reg[u].results[Reductions] = SetToBag(P(reg', Reductions, Numbers(job.hidden)))
    BY <1>2, <1>3 DEF Result, Content, Numbers
  <2>1. ~Going(u)
    BY GoingStage
  <2>2. Round(u) = Reductions
    BY <1>1, <2>1 DEF Round, Gone
  <2>3. Got(u) # 2 => Round(u) = 1
    BY <2>2, JobFacts
  <2>4. P(reg', Reductions, Numbers(job.hidden)) = P(reg, Reductions, Numbers(job.hidden))
    <3>1. CASE Got(u) = 2
      BY <1>5, <2>2, <3>1, JobFacts
    <3>2. CASE Got(u) # 2
      BY <2>2, <2>3, <3>2, PartsSame
    <3> QED BY <3>1, <3>2
  <2> QED BY <1>1, <2>4 DEF Result, Content
<1> QED BY <1>2, <1>6, <1>7, <1>8

\* A thread that ends a phase, or reads in one, stays together with the others.
LEMMA StayTogether ==
    ASSUME IsRows, BlockInv, job' = job, NEW t \in Threads, Runs("rows", t),
           \A u \in Threads \ {t} : reg'[u] = reg[u] /\ at'[u] = at[u],
           \/ Got(t)' = Got(t) /\ Phase(t)' = Phase(t) + 1
           \/ Got(t)' = Got(t) + 1 /\ Phase(t)' = Phase(t) /\ Phase(t) = First(Got(t) + 1 + 1)
    PROVE  \A u, w \in Threads : u[1] = w[1] => Together(u, w)'
<1> SUFFICES ASSUME NEW u \in Threads, NEW w \in Threads, u[1] = w[1]
             PROVE  Together(u, w)'
  OBVIOUS
<1>1. Together(u, w) /\ Together(w, u) /\ Together(t, t)
  BY DEF BlockInv
<1>2. \A v \in Threads : v[1] = t[1] => Phase(t) <= Phase(v)
  BY Waited
<1>3. \A v \in Threads : Got(v) \in 0..2 /\ Phase(v) \in 1..34
  BY RoundFacts DEF BlockInv
<1>4. \A g : First(g)' = First(g)
  BY DEF First
<1>5. \A v \in Threads \ {t} : Got(v)' = Got(v) /\ Phase(v)' = Phase(v)
  BY Untouched
<1>6. Got(t) \in 0..1 /\ \A g \in 0..2 : First(g + 1) \in 1..23
  BY Waited, GoingStage, PhaseFacts
<1>7. PICK g \in 0..2 : g = Got(u)'
  BY <1>3, <1>5, <1>6
<1>8. Together(u, w)' <=> Phase(w)' <= Phase(u)' + 1 /\ First(g + 1) <= Phase(w)'
  BY <1>4, <1>7 DEF Together
<1>9. CASE u # t /\ w # t
  BY <1>1, <1>5, <1>7, <1>8, <1>9 DEF Together
<1>10. CASE u = t /\ w # t
  <2>1. Phase(w)' = Phase(w) /\ Phase(t) <= Phase(w) /\ Phase(w) <= Phase(t) + 1
    BY <1>1, <1>2, <1>5, <1>10 DEF Together
  <2>2. First(g + 1) <= Phase(w)
    <3>1. CASE g = Got(t)
      BY <1>1, <1>10, <3>1 DEF Together
    <3>2. CASE g = Got(t) + 1
      BY <1>6, <1>7, <1>10, <2>1, <3>2
    <3> QED BY <1>7, <1>10, <3>1, <3>2
  <2> QED BY <1>3, <1>8, <1>10, <2>1, <2>2
<1>11. CASE u # t /\ w = t
  <2>1. g = Got(u) /\ Phase(u)' = Phase(u) /\ Phase(t) <= Phase(u) /\ First(Got(u) + 1) <= Phase(t)
    BY <1>1, <1>2, <1>5, <1>7, <1>11 DEF Together
  <2> QED BY <1>3, <1>6, <1>8, <1>11, <2>1
<1>12. CASE u = t /\ w = t
  <2>1. First(g + 1) <= Phase(t)'
    <3>1. CASE g = Got(t)
      BY <1>1, <1>3, <1>6, <3>1 DEF Together
    <3>2. CASE g = Got(t) + 1
      BY <1>3, <1>6, <1>7, <1>12, <3>2
    <3> QED BY <1>7, <1>12, <3>1, <3>2
  <2> QED BY <1>3, <1>8, <1>12, <2>1
<1> QED BY <1>9, <1>10, <1>11, <1>12

\* BlockInv is kept by a thread that writes its own registers and slot, if it
\* keeps its own part of it and the first results of the others.
LEMMA OneThread ==
    ASSUME IsRows, BlockInv, job' = job, NEW t \in Threads, Runs("rows", t), NEW v, NEW p, NEW s,
           reg' = reg \/ reg' = [reg EXCEPT ![t] = v],
           at' = [at EXCEPT ![t] = p],
           \/ shared' = shared
           \/ shared' = [shared EXCEPT ![t[1]][t[2]] = s],
           \/ reg'[t].results = reg[t].results
           \/ Got(t) = 1 /\ reg'[t].results[1] = reg[t].results[1]
           \/ Got(t) = 0 /\ Phase(t) = First(2),
           \/ Got(t)' = Got(t) /\ Phase(t)' = Phase(t) + 1
           \/ Got(t)' = Got(t) + 1 /\ Phase(t)' = Phase(t) /\ Phase(t) = First(Got(t) + 1 + 1),
           Registers(t)' /\ (Going(t)' \/ Gone(t)') /\ Published(t)' /\ SlotHolds(t)' /\ Result(t)'
    PROVE  BlockInv'
<1>1. /\ DOMAIN at = Threads /\ DOMAIN reg = Threads /\ DOMAIN shared = Numbers(job.rows)
      /\ \A b \in Numbers(job.rows) : DOMAIN shared[b] = Numbers(RowThreads)
  BY DEF BlockInv
<1>2. Threads' = Threads /\ Numbers(job.rows)' = Numbers(job.rows) /\ Numbers(RowThreads)' = Numbers(RowThreads)
  BY DEF Threads, Numbers, RowThreads
<1>3. t = <<t[1], t[2]>> /\ t[1] \in Numbers(job.rows) /\ t[2] \in Numbers(RowThreads)
  BY ThreadFacts
<1>4. DOMAIN at' = Threads /\ DOMAIN reg' = Threads /\ DOMAIN shared' = Numbers(job.rows)
  BY <1>1
<1>5. \A b \in Numbers(job.rows) : DOMAIN shared'[b] = Numbers(RowThreads)
  BY <1>1, <1>3
<1>6. \A u \in Threads \ {t} : reg'[u] = reg[u] /\ at'[u] = at[u]
  BY <1>1
<1>7. ASSUME NEW u \in Threads \ {t}
      PROVE  shared'[u[1]][u[2]] = shared[u[1]][u[2]]
  <2>1. u = <<u[1], u[2]>> /\ u[1] \in Numbers(job.rows) /\ u[2] \in Numbers(RowThreads)
    BY ThreadFacts
  <2>2. u[1] # t[1] \/ u[2] # t[2]
    BY <1>3, <2>1
  <2> QED BY <1>1, <1>3, <2>1, <2>2
<1>8. ASSUME NEW u \in Threads \ {t}, NEW c \in Numbers(job.hidden)
      PROVE  \/ reg'[<<u[1], c % RowThreads>>].results[1] = reg[<<u[1], c % RowThreads>>].results[1]
             \/ Round(u) = 2 => Level(u) = 0 /\ Got(u) < 2 /\ c % RowThreads # u[2]
  <2> DEFINE w == <<u[1], c % RowThreads>>
  <2>1. u = <<u[1], u[2]>> /\ w \in Threads
    BY ThreadFacts DEF Threads
  <2>2. CASE w # t
    BY <1>6, <2>1, <2>2
  <2>3. CASE w = t /\ ~(Got(t) = 0 /\ Phase(t) = First(2))
    BY <2>3
  <2>4. CASE w = t /\ Got(t) = 0 /\ Phase(t) = First(2) /\ Round(u) = 2
    <3>1. u[1] = t[1] /\ c % RowThreads = t[2] /\ u[2] # t[2]
      BY <1>3, <2>1, <2>4
    <3>2. Together(t, u) /\ Together(u, t) /\ (Going(u) \/ Gone(u))
      BY <2>4, <3>1 DEF BlockInv
    <3>3. First(2) = job.depth + 2 /\ First(3) = 2 * job.depth + 3 /\ job.depth \in 0..10
      BY PhaseFacts, JobFacts
    <3>4. Got(u) \in 0..2 /\ Got(u) # 2
      BY <2>4, <3>2, <3>3, RoundFacts DEF Together
    <3>5. Going(u) /\ Stage(u) > 0 /\ Got(u) = 1
      BY <2>4, <3>2, <3>4, GoingStage DEF Round, Gone
    <3>6. Phase(u) = First(2) + Stage(u) /\ Stage(u) \in 0..11
      BY <3>3, <3>5, GoingStage
    <3>7. Stage(u) = 1
      BY <2>4, <3>2, <3>3, <3>5, <3>6 DEF Together
    <3>8. Level(u) = 0
      BY <3>5, <3>7, GoingStage DEF Level
    <3> QED BY <3>1, <3>4, <3>8
  <2> QED BY <2>2, <2>3, <2>4
<1>9. \A u \in Threads \ {t} : /\ Registers(u)' /\ (Going(u)' \/ Gone(u)')
                               /\ Published(u)' /\ SlotHolds(u)' /\ Result(u)'
  BY <1>6, <1>7, <1>8, OthersKeep
<1>10. \A u, w \in Threads : u[1] = w[1] => Together(u, w)'
  BY <1>6, StayTogether
<1>11. \A u \in Threads : /\ Registers(u)' /\ (Going(u)' \/ Gone(u)')
                          /\ Published(u)' /\ SlotHolds(u)' /\ Result(u)'
  BY <1>9
<1> QED BY <1>2, <1>4, <1>5, <1>10, <1>11 DEF BlockInv

\* A thread that publishes: its slot holds its own columns.
LEMMA PublishKeeps ==
    ASSUME IsRows, BlockInv, NEW t \in Threads, Publish(t)
    PROVE  BlockInv'
<1> DEFINE local == SetToBag({<<c, reg[t].results>> : c \in Columns(t)})
           v == [results |-> reg[t].results, local |-> local]
<1>1. /\ Runs("rows", t) /\ at[t] = <<First(Got(t) + 1), 1>> /\ job' = job
      /\ reg' = [reg EXCEPT ![t].local = local]
      /\ shared' = [shared EXCEPT ![t[1]][t[2]] = local]
      /\ at' = [at EXCEPT ![t] = <<at[t][1] + 1, 0>>]
  BY DEF Publish, Next1, Got, Goto
<1>2. Registers(t) /\ t \in DOMAIN at /\ t \in DOMAIN reg
  BY DEF BlockInv
<1>3. reg' = [reg EXCEPT ![t] = v] /\ reg'[t] = v /\ v.local = local
  <2> HIDE DEF local
  <2>1. [reg[t] EXCEPT !.local = local] = v
    BY <1>2 DEF Registers
  <2>2. [reg EXCEPT ![t].local = local] = [reg EXCEPT ![t] = [reg[t] EXCEPT !.local = local]]
    OBVIOUS
  <2>3. reg' = [reg EXCEPT ![t] = v]
    BY <1>1, <2>1, <2>2
  <2> QED BY <1>2, <2>3
<1>4. /\ Going(t) /\ at[t] # Ended /\ Phase(t) = First(Got(t) + 1) /\ Got(t) \in 0..1 /\ Got(t) < Reductions
      /\ Stage(t) = 0 /\ First(Got(t) + 1) \in 1..23 /\ job.depth \in 0..10
  BY <1>1, Waited, GoingStage, JobFacts
<1>5. PICK f \in 1..23 : f = First(Got(t) + 1)
  BY <1>4
<1>6. Got(t)' = Got(t) /\ First(Got(t) + 1)' = f /\ at'[t] = <<f + 1, 0>>
  <2>1. Got(t)' = Got(t)
    BY <1>3 DEF Got
  <2> QED BY <1>1, <1>2, <1>5, <2>1 DEF First
<1>7. at'[t] # Ended /\ Stage(t)' = 1 /\ Phase(t)' = Phase(t) + 1
  <2>1. at'[t] # Ended
    BY <1>6 DEF Ended
  <2> QED BY <1>4, <1>5, <1>6, <2>1 DEF Stage, Phase, Ended
<1>8. Round(t)' = Got(t) + 1 /\ Level(t)' = 0
  BY <1>6, <1>7 DEF Round, Level, Ended
<1>9. Registers(t)'
  BY <1>2, <1>3 DEF Registers
<1>10. Going(t)'
  BY <1>1, <1>4, <1>5, <1>6 DEF Going, AllMasked, Reductions, Numbers
<1>11. local = SetToBag(Parts(RowThreads, reg', t[1], Got(t) + 1, Columns(t)))
  <2>1. ASSUME NEW c \in Columns(t)
        PROVE  Part(RowThreads, reg', t[1], Got(t) + 1, c) = <<c, reg[t].results>>
    <3>1. <<t[1], c % RowThreads>> = t
      BY ThreadFacts DEF Columns
    <3>2. CASE Got(t) = 0
      <4>1. reg[t].results = <<>>
        BY <1>2, <3>2 DEF Got, Registers
      <4> QED BY <3>2, <4>1 DEF Part
    <3>3. CASE Got(t) = 1
      <4>1. reg[t].results = <<reg[t].results[1]>>
        BY <1>2, <3>3 DEF Got, Registers
      <4> QED BY <1>3, <3>1, <3>3, <4>1 DEF Part
    <3> QED BY <1>4, <3>2, <3>3
  <2> QED BY <2>1 DEF Parts
<1>12. RowThreads' = RowThreads /\ Columns(t)' = Columns(t) /\ \A i, n : Under(i, n)' = Under(i, n)
  BY <1>1 DEF RowThreads, Columns, Under, Numbers
<1>13. Published(t)'
  <2>1. reg'[t].local = local
    BY <1>3
  <2> QED BY <1>8, <1>11, <1>12, <2>1 DEF Published, Content
<1>14. SlotHolds(t)'
  <2>1. shared'[t[1]][t[2]] = local
    BY <1>1, ThreadFacts DEF BlockInv
  <2>2. Under(t[2], Power[job.depth - 0]) = Columns(t)
    BY <1>4, ThreadFacts, JobFacts
  <2> QED BY <1>1, <1>8, <1>11, <1>12, <2>1, <2>2 DEF SlotHolds, Content, Power
<1>15. Result(t)'
  BY <1>1, <1>4, <1>6 DEF Result, Reductions
<1> HIDE DEF v, local
<1> QED
  <2>1. reg'[t].results = reg[t].results
    BY <1>3 DEF v
  <2> QED BY <1>1, <1>3, <1>6, <1>7, <1>9, <1>10, <1>13, <1>14, <1>15, <2>1, OneThread

\* Two slots with different columns under them, combined.
LEMMA PartsJoin ==
    ASSUME NEW n, NEW g, NEW b, NEW r, NEW C, NEW D, C \cap D = {}
    PROVE  SetToBag(Parts(n, g, b, r, C)) (+) SetToBag(Parts(n, g, b, r, D)) = SetToBag(Parts(n, g, b, r, C \cup D))
<1>1. ASSUME NEW S, NEW T, S \cap T = {}
      PROVE  SetToBag(S) (+) SetToBag(T) = SetToBag(S \cup T)
  BY <1>1 DEF SetToBag, (+)
<1>2. Parts(n, g, b, r, C) \cap Parts(n, g, b, r, D) = {}
  <2>1. \A c : Part(n, g, b, r, c)[1] = c
    BY DEF Part
  <2> QED BY <2>1 DEF Parts
<1>3. Parts(n, g, b, r, C) \cup Parts(n, g, b, r, D) = Parts(n, g, b, r, C \cup D)
  BY DEF Parts
<1> QED BY <1>1, <1>2, <1>3

\* What is under a slot at one level is what was under two at the level before.
LEMMA UnderTwo ==
    ASSUME IsRows, NEW s \in Nat \ {0}, NEW j \in Nat, j < s
    PROVE  /\ Under(j, 2 * s) \cap Under(j + s, 2 * s) = {}
           /\ Under(j, 2 * s) \cup Under(j + s, 2 * s) = Under(j, s)
<1>1. ASSUME NEW c \in Numbers(job.hidden)
      PROVE  (c % RowThreads) % s = j <=> (c % RowThreads) % (2 * s) = j \/ (c % RowThreads) % (2 * s) = j + s
  <2>1. c \in Nat
    BY JobFacts DEF Numbers
  <2>2. PICK m \in Nat : m = c % RowThreads
    BY <2>1, JobFacts, DivSplit
  <2>3. PICK h \in 0..(2 * s - 1) : h = m % (2 * s) /\ m % s = IF h < s THEN h ELSE h - s
    BY HalfRemainder
  <2> QED BY <2>2, <2>3
<1>2. j # j + s
  OBVIOUS
<1> QED BY <1>1, <1>2 DEF Under

\* The neighbour that a thread of the tree reads has come as far, and has not
\* gone on to write.
LEMMA Neighbour ==
    ASSUME IsRows, BlockInv, NEW t \in Threads, Runs("rows", t), Stage(t) \in 1..job.depth,
           t[2] < Power[job.depth - Stage(t)]
    PROVE  LET s == Power[job.depth - Stage(t)]
           IN /\ s \in Nat \ {0}
              /\ shared[t[1]][t[2]] = Content(t[1], Got(t) + 1, Under(t[2], 2 * s))
              /\ shared[t[1]][t[2] + s] = Content(t[1], Got(t) + 1, Under(t[2] + s, 2 * s))
<1>1. Going(t) /\ at[t] # Ended /\ Phase(t) = First(Got(t) + 1) + Stage(t) /\ Got(t) \in 0..1
  BY Waited, GoingStage
<1>2. job.depth \in 0..10 /\ RowThreads = Power[job.depth]
  BY JobFacts
<1>3. PICK k \in 1..job.depth : k = Stage(t)
  OBVIOUS
<1> DEFINE s == Power[job.depth - k]
           u == <<t[1], t[2] + s>>
<1>4. job.depth - k \in 0..10 /\ job.depth - (k - 1) \in 0..10 /\ job.depth - (k - 1) = (job.depth - k) + 1
  BY <1>2
<1>5. s \in Nat \ {0} /\ Power[job.depth - (k - 1)] = 2 * s
  BY <1>4, PowerFacts
<1>6. 2 * s <= RowThreads
  <2>1. job.depth - k < job.depth
    BY <1>2
  <2> QED BY <1>2, <1>4, <2>1, PowerFacts
<1> HIDE DEF s
<1>7. t = <<t[1], t[2]>> /\ t[1] \in Numbers(job.rows) /\ t[2] \in Nat /\ t[2] < s
  BY <1>3, ThreadFacts DEF s
<1>8. u \in Threads /\ u[1] = t[1] /\ u[2] = t[2] + s
  <2>1. t[2] + s \in Numbers(RowThreads)
    BY <1>5, <1>6, <1>7, JobFacts DEF Numbers
  <2> QED BY <1>7, <2>1 DEF Threads
<1>9. shared[t[1]][t[2]] = Content(t[1], Got(t) + 1, Under(t[2], 2 * s))
  <2>1. Round(t) = Got(t) + 1 /\ Level(t) = k - 1 /\ k - 1 \in 0..Level(t) /\ Round(t) > 0
    BY <1>1, <1>3, <1>2 DEF Round, Level
  <2>2. SlotHolds(t)
    BY DEF BlockInv
  <2>3. t[2] < Power[job.depth - (k - 1)] /\ ~(k - 1 < Level(t))
    BY <1>5, <1>7, <2>1
  <2> QED BY <1>5, <2>1, <2>2, <2>3 DEF SlotHolds
<1>10. Going(u) /\ Got(u) = Got(t) /\ Stage(u) \in {k, k + 1}
  <2>1. Phase(t) <= Phase(u) /\ Together(t, u) /\ Together(u, t) /\ (Going(u) \/ Gone(u))
    BY <1>8, Waited DEF BlockInv
  <2>2. /\ First(1) = 1 /\ First(2) = job.depth + 2 /\ First(3) = 2 * job.depth + 3
        /\ \A g \in 0..1 : First(g + 1 + 1) = First(g + 1) + job.depth + 1
    BY PhaseFacts
  <2>3. Got(u) \in 0..2 /\ Phase(u) \in 1..34
    BY <2>1, RoundFacts
  <2>4. Phase(t) < First(Got(t) + 1) + job.depth + 1 /\ Phase(t) > First(Got(t) + 1) /\ First(Got(t) + 1) \in 1..23
    BY <1>1, <1>2, <1>3, PhaseFacts
  <2>5. First(Got(u) + 1) <= Phase(t) /\ Phase(u) <= Phase(t) + 1
    BY <2>1 DEF Together
  <2>6. Got(u) <= Got(t)
    BY <1>1, <1>2, <2>2, <2>3, <2>4, <2>5
  <2>7. CASE Gone(u)
    <3>1. Got(u) = Reductions \/ (Got(u) = 1 /\ AllMasked)
      BY <2>7, GonePhase
    <3> QED BY <1>1, <2>3, <2>6, <3>1, GoingStage, JobFacts, <2>7, GonePhase DEF Going
  <2>8. CASE Going(u)
    <3>1. Phase(u) = First(Got(u) + 1) + Stage(u) /\ Stage(u) \in 0..(job.depth + 1) /\ Got(u) \in 0..1
      BY <2>8, GoingStage
    <3>2. Got(u) = Got(t)
      BY <1>1, <1>2, <2>1, <2>2, <2>4, <2>6, <3>1
    <3>3. Stage(u) \in {k, k + 1}
      <4>1. PICK f \in 1..23 : f = First(Got(t) + 1)
        BY <2>4
      <4> QED BY <1>1, <1>2, <1>3, <2>1, <2>5, <3>1, <3>2, <4>1
    <3> QED BY <2>8, <3>2, <3>3
  <2> QED BY <2>1, <2>7, <2>8
<1>11. shared[t[1]][t[2] + s] = Content(t[1], Got(t) + 1, Under(t[2] + s, 2 * s))
  <2>1. at[u] # Ended
    BY <1>10, GoingStage
  <2>2. Round(u) = Got(t) + 1 /\ Level(u) \in {k - 1, k} /\ k - 1 \in 0..Level(u) /\ Round(u) > 0
    BY <1>1, <1>2, <1>10, <2>1 DEF Round, Level
  <2>3. SlotHolds(u)
    BY <1>8 DEF BlockInv
  <2>4. u[2] < Power[job.depth - (k - 1)]
    BY <1>5, <1>7, <1>8
  <2>5. job.depth - (k - 1) - 1 = job.depth - k
    BY <1>2
  <2>6. u[2] >= Power[job.depth - (k - 1) - 1]
    BY <1>5, <1>7, <1>8, <2>5 DEF s
  <2> HIDE DEF u
  <2>7. shared[u[1]][u[2]] = Content(u[1], Round(u), Under(u[2], Power[job.depth - (k - 1)]))
    BY <2>2, <2>3, <2>4, <2>6 DEF SlotHolds
  <2> QED BY <1>5, <1>8, <2>2, <2>7
<1> QED BY <1>3, <1>5, <1>9, <1>11 DEF s

\* A thread that takes its turn in the tree: if it is in the lower half, its
\* slot holds what two did.
LEMMA CombineKeeps ==
    ASSUME IsRows, BlockInv, NEW t \in Threads, Combine(t)
    PROVE  BlockInv'
<1>1. Going(t) /\ at[t] # Ended /\ Got(t) \in 0..1 /\ Got(t) < Reductions
      /\ First(Got(t) + 1) \in 1..23 /\ job.depth \in 0..10 /\ RowThreads = Power[job.depth]
      /\ Runs("rows", t) /\ job' = job /\ reg' = reg
  BY Waited, GoingStage, JobFacts DEF Combine
<1>2. PICK k \in 1..job.depth : k = Stage(t)
  BY DEF Combine, Stage, Got, Next1
<1> DEFINE s == Power[job.depth - k]
<1>3. /\ at' = [at EXCEPT ![t] = <<at[t][1] + 1, 0>>]
      /\ \/ ~(t[2] < s) /\ shared' = shared
         \/ t[2] < s /\ shared' = [shared EXCEPT ![t[1]][t[2]] = shared[t[1]][t[2]] (+) shared[t[1]][t[2] + s]]
  <2>1. 2 ^ (job.depth - k) = s
    BY <1>1 DEF Power
  <2>2. at[t][1] - First(Next1(t)) = k
    BY <1>2 DEF Stage, Got, Next1
  <2> HIDE DEF s
  <2> QED BY <2>1, <2>2 DEF Combine, Goto, InTree
<1>4. Registers(t) /\ t \in DOMAIN at /\ t \in DOMAIN reg /\ Published(t) /\ SlotHolds(t) /\ Result(t)
  BY DEF BlockInv
<1>5. PICK f \in 1..23 : f = First(Got(t) + 1)
  BY <1>1
<1>6. at[t][1] = f + k /\ Phase(t) = f + k
  BY <1>1, <1>2, <1>5, GoingStage DEF Phase
<1>7. Got(t)' = Got(t) /\ First(Got(t) + 1)' = f /\ at'[t] = <<f + k + 1, 0>>
  <2>1. Got(t)' = Got(t)
    BY <1>1 DEF Got
  <2>2. at'[t] = <<f + k + 1, 0>>
    BY <1>3, <1>4, <1>6
  <2> QED BY <1>1, <1>5, <2>1, <2>2 DEF First
<1>8. at'[t] # Ended /\ Stage(t)' = k + 1 /\ Phase(t)' = Phase(t) + 1
  <2>1. at'[t] # Ended
    BY <1>7 DEF Ended
  <2>2. Ended' = Ended
    BY DEF Ended
  <2> QED BY <1>5, <1>6, <1>7, <2>1, <2>2 DEF Stage, Phase
<1>9. Round(t) = Got(t) + 1 /\ Level(t) = k - 1 /\ Round(t)' = Got(t) + 1 /\ Level(t)' = k
  BY <1>1, <1>2, <1>7, <1>8 DEF Round, Level, Ended
<1>10. Registers(t)'
  BY <1>1, <1>4 DEF Registers
<1>11. Going(t)'
  <2>1. at'[t] = <<f + (k + 1), IF k + 1 = 0 THEN 1 ELSE 0>> /\ k + 1 \in 0..(job.depth + 1)
    BY <1>1, <1>7
  <2> QED BY <1>1, <1>5, <1>7, <2>1 DEF Going, AllMasked, Reductions, Numbers
<1>12. RowThreads' = RowThreads /\ Columns(t)' = Columns(t) /\ (\A i, n : Under(i, n)' = Under(i, n))
       /\ \A b, r, C : Content(b, r, C)' = Content(b, r, C)
  BY <1>1 DEF RowThreads, Columns, Under, Numbers, Content
<1>13. Published(t)'
  BY <1>1, <1>4, <1>9, <1>12 DEF Published, Content
<1>14. t[2] < s => shared'[t[1]][t[2]] = Content(t[1], Got(t) + 1, Under(t[2], s))
  <2> SUFFICES ASSUME t[2] < s
               PROVE  shared'[t[1]][t[2]] = Content(t[1], Got(t) + 1, Under(t[2], s))
    OBVIOUS
  <2>1. /\ s \in Nat \ {0}
        /\ shared[t[1]][t[2]] = Content(t[1], Got(t) + 1, Under(t[2], 2 * s))
        /\ shared[t[1]][t[2] + s] = Content(t[1], Got(t) + 1, Under(t[2] + s, 2 * s))
    BY <1>1, <1>2, Neighbour
  <2> HIDE DEF s
  <2>2. shared'[t[1]][t[2]] = shared[t[1]][t[2]] (+) shared[t[1]][t[2] + s]
    BY <1>3, ThreadFacts DEF BlockInv
  <2>3. t[2] \in Nat
    BY ThreadFacts
  <2>4. /\ Under(t[2], 2 * s) \cap Under(t[2] + s, 2 * s) = {}
        /\ Under(t[2], 2 * s) \cup Under(t[2] + s, 2 * s) = Under(t[2], s)
    BY <2>1, <2>3, UnderTwo
  <2> QED BY <2>1, <2>2, <2>4, PartsJoin DEF Content
<1>15. SlotHolds(t)'
  <2> SUFFICES ASSUME NEW l \in 0..k, t[2] < Power[job.depth - l], l < k => t[2] >= Power[job.depth - l - 1]
               PROVE  shared'[t[1]][t[2]] = SetToBag(Parts(RowThreads, reg, t[1], Got(t) + 1, Under(t[2], Power[job.depth - l])))
    BY <1>1, <1>9, <1>12 DEF SlotHolds, Content, Power
  <2>1. CASE l = k
    BY <1>14, <2>1 DEF Content
  <2>2. CASE l < k
    <3>1. ~(t[2] < s)
      <4>1. CASE l = k - 1
        <5>1. job.depth - l - 1 = job.depth - k
          BY <1>1, <4>1
        <5>2. s \in Nat /\ t[2] \in Nat
          BY <1>1, PowerFacts, ThreadFacts
        <5> QED BY <2>2, <5>1, <5>2
      <4>2. CASE l < k - 1
        <5>1. job.depth - k \in 0..10 /\ job.depth - l - 1 \in 0..10 /\ job.depth - k < job.depth - l - 1
          BY <1>1, <4>2
        <5>2. 2 * s <= Power[job.depth - l - 1] /\ s \in Nat /\ Power[job.depth - l - 1] \in Nat /\ t[2] \in Nat
          BY <5>1, PowerFacts, ThreadFacts
        <5> QED BY <2>2, <5>2
      <4> QED BY <2>2, <4>1, <4>2
    <3>2. shared' = shared
      BY <1>3, <3>1
    <3>3. l \in 0..Level(t) /\ (l < Level(t) => t[2] >= Power[job.depth - l - 1]) /\ Round(t) > 0
      BY <1>1, <1>9, <2>2
    <3> QED BY <1>4, <1>9, <3>2, <3>3 DEF SlotHolds, Content
  <2> QED BY <2>1, <2>2
<1>16. Result(t)'
  BY <1>1, <1>7 DEF Result, Reductions
<1> QED
  <2>1. reg'[t].results = reg[t].results
    BY <1>1
  <2> HIDE DEF s
  <2> QED BY <1>1, <1>3, <1>7, <1>8, <1>10, <1>11, <1>13, <1>15, <1>16, <2>1, OneThread

\* What is read is what was published; or, of two reductions the first, what
\* the first thread has published for the second.
LEMMA ReadIs ==
    ASSUME IsRows, BlockInv, NEW t \in Threads, Runs("rows", t), Stage(t) = job.depth + 1
    PROVE  \/ shared[t[1]][0] = Content(t[1], Got(t) + 1, Numbers(job.hidden))
           \/ /\ Got(t) = 0 /\ Reductions = 2 /\ ~AllMasked
              /\ shared[t[1]][0] = Content(t[1], 2, Columns(<<t[1], 0>>))
<1> DEFINE z == <<t[1], 0>>
<1>1. /\ Going(t) /\ at[t] # Ended /\ Phase(t) = First(Got(t) + 1) + job.depth + 1 /\ Got(t) \in 0..1 /\ Got(t) < Reductions
      /\ First(Got(t) + 1) \in 1..23 /\ job.depth \in 0..10 /\ Reductions \in {1, 2}
  <2>1. Phase(t) = First(Got(t) + 1) + Stage(t) /\ First(Got(t) + 1) \in 1..23 /\ job.depth \in 0..10
    BY Waited, GoingStage, JobFacts
  <2> QED BY <2>1, Waited, GoingStage, JobFacts
<1>2. z \in Threads /\ z[1] = t[1] /\ z[2] = 0
  BY ThreadFacts, JobFacts DEF Threads, Numbers
<1>3. Phase(t) <= Phase(z) /\ Phase(z) <= Phase(t) + 1 /\ First(Got(z) + 1) <= Phase(t) /\ (Going(z) \/ Gone(z)) /\ SlotHolds(z)
  BY <1>2, Waited DEF BlockInv, Together
<1>4. /\ First(1) = 1 /\ First(2) = job.depth + 2 /\ First(3) = 2 * job.depth + 3
      /\ \A g \in 0..1 : First(g + 1 + 1) = First(g + 1) + job.depth + 1
  BY PhaseFacts
<1>5. Got(z) \in 0..2 /\ Round(z) \in 0..2 /\ Level(z) \in 0..job.depth /\ Phase(z) \in 1..34
  BY <1>3, RoundFacts
<1> HIDE DEF z
<1>6. Under(0, Power[job.depth - job.depth]) = Numbers(job.hidden)
  <2>1. job.depth - job.depth = 0 /\ Power[0] = 1
    BY <1>1, PowerFacts
  <2>2. ASSUME NEW c \in Numbers(job.hidden)
        PROVE  (c % RowThreads) % 1 = 0
    <3>1. PICK m \in Nat : m = c % RowThreads
      BY DivSplit, JobFacts DEF Numbers
    <3> QED BY <3>1
  <2> QED BY <2>1, <2>2 DEF Under
<1>7. CASE Round(z) = Got(t) + 1 /\ Level(z) = job.depth
  <2>1. 0 < Power[job.depth - job.depth]
    BY <1>1, PowerFacts
  <2>2. shared[z[1]][0] = Content(z[1], Round(z), Under(0, Power[job.depth - job.depth]))
    BY <1>1, <1>2, <1>3, <1>7, <2>1 DEF SlotHolds
  <2> QED BY <1>2, <1>6, <1>7, <2>2
<1>8. CASE Gone(z)
  <2>1. Round(z) = Got(z) /\ Level(z) = job.depth /\ Got(z) >= 1 /\ Phase(z) = First(Got(z) + 1)
    BY <1>5, <1>8, GonePhase DEF Round, Level, Gone
  <2>2. Got(z) = Got(t) + 1
    <3>1. Got(z) = Reductions \/ (Got(z) = 1 /\ AllMasked)
      BY <1>8, GonePhase
    <3>2. Got(t) = 1 => ~AllMasked
      BY <1>1 DEF Going
    <3>3. CASE Got(t) = 1
      <4>1. Reductions = 2 /\ ~AllMasked
        BY <1>1, <3>2, <3>3
      <4> QED BY <3>1, <3>3, <4>1
    <3>4. CASE Got(t) = 0
      <4>1. Phase(t) = job.depth + 2
        BY <1>1, <1>4, <3>4
      <4>2. Got(z) # 2
        BY <1>1, <1>3, <1>4, <2>1, <4>1
      <4> QED BY <1>5, <2>1, <3>4, <4>2
    <3> QED BY <1>1, <3>3, <3>4
  <2> QED BY <1>7, <2>1, <2>2
<1>9. CASE Going(z)
  <2>1. /\ at[z] # Ended /\ Phase(z) = First(Got(z) + 1) + Stage(z) /\ Stage(z) \in 0..(job.depth + 1)
        /\ Got(z) \in 0..1 /\ Got(z) < Reductions
    BY <1>9, GoingStage
  <2>2. CASE Got(z) = Got(t)
    <3>1. Stage(z) = job.depth + 1
      <4>1. PICK f \in 1..23 : f = First(Got(t) + 1)
        BY <1>1
      <4> QED BY <1>1, <1>3, <2>1, <2>2, <4>1
    <3>2. Round(z) = Got(t) + 1 /\ Level(z) = job.depth
      BY <1>1, <2>1, <2>2, <3>1 DEF Round, Level
    <3> QED BY <1>7, <3>2
  <2>3. CASE Got(z) # Got(t)
    <3>1. Got(z) = 1 /\ Got(t) = 0 /\ Stage(z) \in {0, 1}
      BY <1>1, <1>3, <1>4, <2>1, <2>3
    <3>2. CASE Stage(z) = 0
      <4>1. Round(z) = Got(t) + 1 /\ Level(z) = job.depth
        BY <1>1, <2>1, <3>1, <3>2 DEF Round, Level
      <4> QED BY <1>7, <4>1
    <3>3. CASE Stage(z) = 1
      <4>1. Round(z) = 2 /\ Level(z) = 0
        BY <2>1, <3>1, <3>3 DEF Round, Level
      <4>2. 0 < Power[job.depth - 0] /\ job.depth - 0 = job.depth /\ RowThreads = Power[job.depth]
        BY <1>1, PowerFacts, JobFacts
      <4>3. shared[z[1]][0] = Content(z[1], 2, Under(0, RowThreads))
        BY <1>2, <1>3, <4>1, <4>2 DEF SlotHolds
      <4>4. Under(0, RowThreads) = Columns(z)
        BY <1>2, ThreadFacts
      <4>5. ~AllMasked /\ Reductions = 2
        BY <1>9, <1>1, <2>1, <3>1 DEF Going
      <4> QED BY <1>2, <3>1, <4>3, <4>4, <4>5 DEF z
    <3> QED BY <3>1, <3>2, <3>3
  <2> QED BY <2>2, <2>3
<1> QED BY <1>3, <1>8, <1>9

\* A second value put after a first.
LEMMA AppendOne ==
    ASSUME NEW a, NEW x
    PROVE  Append(<<a>>, x) = <<a, x>>
<1> DEFINE s == Append(<<a>>, x)
<1>1. <<a>> \in Seq({a, x}) /\ x \in {a, x} /\ Len(<<a>>) = 1
  OBVIOUS
<1>2. s \in Seq({a, x}) /\ Len(s) = 2 /\ s[1] = a /\ s[2] = x
  BY <1>1
<1>3. <<a, x>> \in Seq({a, x}) /\ Len(<<a, x>>) = 2 /\ <<a, x>>[1] = a /\ <<a, x>>[2] = x
  OBVIOUS
<1> HIDE DEF s
<1>4. s = <<a, x>>
  <2> DEFINE q == <<a, x>>
  <2> HIDE DEF q
  <2>1. q \in Seq({a, x}) /\ Len(q) = 2 /\ q[1] = a /\ q[2] = x
    BY <1>3 DEF q
  <2>2. q = s
    BY <1>2, <2>1, SeqEqual
  <2> QED BY <2>2 DEF q
<1> QED BY <1>4 DEF s

\* A thread knows the row to be masked when all of it is, and otherwise not.
LEMMA MaskedRow ==
    ASSUME IsRows, BlockInv, NEW t \in Threads, Runs("rows", t), Stage(t) = job.depth + 1
    PROVE  IsMasked(Append(reg[t].results, shared[t[1]][0])) <=> Got(t) = 0 /\ AllMasked
<1> DEFINE x == shared[t[1]][0]
           results == Append(reg[t].results, x)
           z == <<t[1], 0>>
<1> SUFFICES IsMasked(results) <=> Got(t) = 0 /\ AllMasked
  OBVIOUS
<1>1. \/ x = Content(t[1], Got(t) + 1, Numbers(job.hidden))
      \/ Got(t) = 0 /\ ~AllMasked /\ x = Content(t[1], 2, Columns(z))
  BY ReadIs
<1>2. Going(t) /\ Got(t) \in 0..1 /\ Registers(t)
  BY Waited, GoingStage DEF BlockInv
<1> HIDE DEF x, z
<1>3. CASE Got(t) = 1
  <2>1. PICK a : reg[t].results = <<a>>
    BY <1>2, <1>3 DEF Got, Registers
  <2>2. Len(results) = 2
    BY <2>1
  <2> HIDE DEF results
  <2> QED BY <1>3, <2>2 DEF IsMasked
<1>4. CASE Got(t) = 0
  <2>1. results = <<x>>
    <3>1. reg[t].results = <<>>
      BY <1>2, <1>4 DEF Got, Registers
    <3> QED BY <3>1
  <2> HIDE DEF results
  <2>2. IsMasked(results) <=> job.norm = "softmax" /\ \A part \in DOMAIN x : part[2] = <<>> /\ part[1] \in job.masked
    BY <2>1 DEF IsMasked, BagToSet
  <2>3. \A C, r : DOMAIN Content(t[1], r, C) = {Part(RowThreads, reg, t[1], r, c) : c \in C}
    BY DEF Content, SetToBag, Parts
  <2>4. CASE x = Content(t[1], 1, Numbers(job.hidden))
    <3>1. \A c : Part(RowThreads, reg, t[1], 1, c) = <<c, <<>>>>
      BY DEF Part
    <3>2. DOMAIN x = {Part(RowThreads, reg, t[1], 1, c) : c \in Numbers(job.hidden)}
      BY <2>3, <2>4, Zenon
    <3>3. ASSUME \A part \in DOMAIN x : part[2] = <<>> /\ part[1] \in job.masked, NEW c \in Numbers(job.hidden)
          PROVE  c \in job.masked
      <4>1. <<c, <<>>>> \in DOMAIN x
        BY <3>1, <3>2
      <4> QED BY <3>3, <4>1
    <3>4. ASSUME Numbers(job.hidden) \subseteq job.masked, NEW part \in DOMAIN x
          PROVE  part[2] = <<>> /\ part[1] \in job.masked
      BY <3>1, <3>2, <3>4
    <3>5. (\A part \in DOMAIN x : part[2] = <<>> /\ part[1] \in job.masked) <=> Numbers(job.hidden) \subseteq job.masked
      BY <3>3, <3>4
    <3> QED BY <1>4, <2>2, <3>5 DEF AllMasked
  <2>5. CASE ~AllMasked /\ x = Content(t[1], 2, Columns(z))
    <3> SUFFICES ASSUME IsMasked(results)
                 PROVE  FALSE
      BY <2>5
    <3>1. PICK c \in Numbers(job.hidden) : TRUE
      BY <2>2, <2>5 DEF AllMasked
    <3>2. 0 \in Columns(z)
      <4>1. 0 \in Numbers(job.hidden)
        BY <3>1, JobFacts DEF Numbers
      <4>2. (0 * RowThreads + 0) % RowThreads = 0 /\ 0 * RowThreads + 0 = 0
        BY JobFacts, DivSum
      <4> QED BY <4>1, <4>2 DEF Columns, z
    <3>3. Part(RowThreads, reg, t[1], 2, 0) \in DOMAIN x
      BY <2>3, <2>5, <3>2
    <3>4. Part(RowThreads, reg, t[1], 2, 0)[2] # <<>>
      BY DEF Part
    <3> QED BY <2>2, <3>3, <3>4
  <2> QED BY <1>1, <1>4, <2>4, <2>5
<1> QED BY <1>2, <1>3, <1>4

\* A thread that reads the result: it goes on to the next, or ends.
LEMMA ReadKeeps ==
    ASSUME IsRows, BlockInv, NEW t \in Threads, Read(t)
    PROVE  BlockInv'
<1> DEFINE x == shared[t[1]][0]
           results == Append(reg[t].results, x)
           ended == Len(results) = Reductions \/ IsMasked(results)
           place == IF ended THEN Ended ELSE <<at[t][1], 1>>
           v == [results |-> results, local |-> reg[t].local]
<1>1. /\ Runs("rows", t) /\ at[t] = <<First(Got(t) + 1 + 1), 0>> /\ job' = job
      /\ reg' = [reg EXCEPT ![t].results = results]
      /\ at' = [at EXCEPT ![t] = place] /\ shared' = shared
  BY DEF Read, Next1, Got, Goto
<1>2. Registers(t) /\ t \in DOMAIN at /\ t \in DOMAIN reg /\ Published(t) /\ SlotHolds(t)
  BY DEF BlockInv
<1>3. /\ Going(t) /\ at[t] # Ended /\ Got(t) \in 0..1 /\ Got(t) < Reductions
      /\ First(Got(t) + 1) \in 1..23 /\ job.depth \in 0..10 /\ Reductions \in {1, 2}
      /\ Phase(t) = at[t][1]
  BY <1>1, Waited, GoingStage, JobFacts
<1>4. First(Got(t) + 1 + 1) = First(Got(t) + 1) + job.depth + 1
  BY <1>3, PhaseFacts
<1>5. PICK f \in 1..34 : f = First(Got(t) + 1 + 1)
  BY <1>3, <1>4
<1>6. at[t][1] = f /\ Stage(t) = job.depth + 1 /\ Phase(t) = f
  <2>1. at[t][1] = f
    BY <1>1, <1>5
  <2>2. Stage(t) = f - First(Got(t) + 1)
    BY <2>1 DEF Stage
  <2> QED BY <1>3, <1>4, <1>5, <2>1, <2>2
<1>7. IsMasked(results) <=> Got(t) = 0 /\ AllMasked
  BY <1>1, <1>6, MaskedRow
<1> HIDE DEF x
<1>8. Len(results) = Got(t) + 1 /\ (Got(t) = 1 => results = <<reg[t].results[1], x>>) /\ (Got(t) = 0 => results = <<x>>)
  <2>1. CASE Got(t) = 0
    <3>1. reg[t].results = <<>>
      BY <1>2, <2>1 DEF Got, Registers
    <3> QED BY <2>1, <3>1
  <2>2. CASE Got(t) = 1
    <3>1. PICK a : reg[t].results = <<a>>
      BY <1>2, <2>2 DEF Got, Registers
    <3>2. results = <<a, x>>
      <4>1. Append(<<a>>, x) = <<a, x>>
        BY AppendOne
      <4> QED BY <3>1, <4>1, Zenon
    <3>3. reg[t].results[1] = a
      BY <3>1
    <3> HIDE DEF results
    <3> QED BY <2>2, <3>2, <3>3
  <2> QED BY <1>3, <2>1, <2>2
<1> HIDE DEF results
<1>9. ended <=> Got(t) + 1 = Reductions \/ (Got(t) = 0 /\ AllMasked)
  <2>1. Len(results) = Got(t) + 1
    BY <1>8
  <2> QED BY <1>7, <2>1, Zenon
<1> HIDE DEF ended
<1>10. reg' = [reg EXCEPT ![t] = v] /\ reg'[t] = v /\ v.results = results /\ v.local = reg[t].local
  <2>1. [reg[t] EXCEPT !.results = results] = v
    BY <1>2 DEF Registers
  <2>2. [reg EXCEPT ![t].results = results] = [reg EXCEPT ![t] = [reg[t] EXCEPT !.results = results]]
    OBVIOUS
  <2>3. reg' = [reg EXCEPT ![t] = v]
    BY <1>1, <2>1, <2>2
  <2> QED BY <1>2, <2>3
<1>11. Got(t)' = Got(t) + 1 /\ First(Got(t) + 1)' = f /\ at'[t] = place
  <2>1. Got(t)' = Got(t) + 1
    BY <1>8, <1>10 DEF Got
  <2> QED BY <1>1, <1>2, <1>5, <2>1 DEF First
<1>12. AllMasked' = AllMasked /\ Reductions' = Reductions
  BY <1>1 DEF AllMasked, Reductions, Numbers
<1>13. Phase(t)' = f
  <2>1. CASE ended
    BY <1>11, <2>1 DEF Phase, Ended
  <2>2. CASE ~ended
    <3>1. at'[t] = <<f, 1>>
      BY <1>6, <1>11, <2>2
    <3>2. at'[t] # Ended
      BY <3>1 DEF Ended
    <3> QED BY <3>1, <3>2 DEF Phase, Ended
  <2> QED BY <2>1, <2>2
<1>14. Round(t) = Got(t) + 1 /\ Level(t) = job.depth
  BY <1>3, <1>6 DEF Round, Level
<1>15. Round(t)' = Got(t) + 1 /\ Level(t)' = job.depth
  <2>1. CASE ended
    BY <1>1, <1>11, <2>1 DEF Round, Level, Ended
  <2>2. CASE ~ended
    <3>1. at'[t][1] = f
      BY <1>6, <1>11, <2>2
    <3>2. Stage(t)' = 0
      BY <1>5, <1>11, <3>1 DEF Stage
    <3> QED BY <1>1, <1>11, <3>2 DEF Round, Level
  <2> QED BY <2>1, <2>2
<1>16. Registers(t)'
  BY <1>3, <1>8, <1>10 DEF Registers
<1>17. Going(t)' \/ Gone(t)'
  <2>1. CASE ended
    <3>1. at'[t] = Ended /\ Ended' = Ended
      BY <1>11, <2>1 DEF Ended
    <3>2. Got(t) = 1 => ~AllMasked
      BY <1>3 DEF Going
    <3>3. Gone(t)'
      BY <1>3, <1>9, <1>11, <1>12, <2>1, <3>1, <3>2 DEF Gone
    <3> QED BY <3>3
  <2>2. CASE ~ended
    <3>1. Got(t) = 0 /\ Reductions = 2 /\ ~AllMasked /\ at'[t] = <<f + 0, 1>>
      <4>1. Got(t) + 1 # Reductions /\ ~(Got(t) = 0 /\ AllMasked)
        BY <1>9, <2>2, Zenon
      <4>2. at'[t] = <<f, 1>>
        BY <1>6, <1>11, <2>2
      <4>3. f + 0 = f
        OBVIOUS
      <4>4. Got(t) = 0 /\ Reductions = 2
        BY <1>3, <4>1
      <4> QED BY <4>1, <4>2, <4>3, <4>4, Zenon
    <3>2. 0 \in 0..(job.depth + 1)' /\ Got(t)' \in 0..(Reductions - 1)'
      BY <1>1, <1>3, <1>11, <1>12, <3>1
    <3> QED BY <1>1, <1>11, <1>12, <3>1, <3>2 DEF Going
  <2> QED BY <2>1, <2>2
<1>18. \A C \in SUBSET Numbers(job.hidden) : \A r : r = Got(t) + 1 => Content(t[1], r, C)' = Content(t[1], r, C)
  <2> SUFFICES ASSUME NEW C \in SUBSET Numbers(job.hidden)
               PROVE  Parts(RowThreads, reg', t[1], Got(t) + 1, C) = Parts(RowThreads, reg, t[1], Got(t) + 1, C)
    BY <1>1 DEF Content, RowThreads
  <2>1. CASE Got(t) = 0
    BY <2>1, PartsSame
  <2>2. CASE Got(t) = 1
    <3>1. \A u \in Threads : reg'[u].results[1] = reg[u].results[1]
      <4>1. reg'[t].results[1] = reg[t].results[1]
        BY <1>8, <1>10, <2>2
      <4>2. \A u \in Threads \ {t} : reg'[u] = reg[u]
        BY <1>10 DEF BlockInv
      <4> QED BY <4>1, <4>2
    <3>2. \A c \in C : <<t[1], c % RowThreads>> \in Threads
      BY ThreadFacts DEF Threads
    <3> QED BY <3>1, <3>2, PartsSame
  <2> QED BY <1>3, <2>1, <2>2
<1>19. Columns(t)' = Columns(t) /\ (\A i, n : Under(i, n)' = Under(i, n)) /\ Numbers(job.hidden)' = Numbers(job.hidden)
  BY <1>1 DEF RowThreads, Columns, Under, Numbers
<1>20a. Columns(t) \subseteq Numbers(job.hidden) /\ \A i, n : Under(i, n) \subseteq Numbers(job.hidden)
  BY DEF Columns, Under
<1>20. Published(t)'
  BY <1>20a, <1>2, <1>10, <1>14, <1>15, <1>18, <1>19 DEF Published
<1>21. SlotHolds(t)'
  <2>1. SlotHolds(t)
    BY <1>2
  <2> QED BY <1>1, <1>14, <1>15, <1>18, <1>19, <1>20a, <2>1 DEF SlotHolds, Power
<1>22. Result(t)'
  <2> SUFFICES ASSUME Got(t) + 1 = Reductions
               PROVE  results[Reductions] = Content(t[1], Reductions, Numbers(job.hidden))
    BY <1>10, <1>11, <1>12, <1>18, <1>19 DEF Result
  <2>1. x = Content(t[1], Got(t) + 1, Numbers(job.hidden))
    <3>1. \/ x = Content(t[1], Got(t) + 1, Numbers(job.hidden))
          \/ Got(t) = 0 /\ Reductions = 2
      BY <1>1, <1>6, ReadIs DEF x
    <3> QED BY <3>1
  <2>2. results[Got(t) + 1] = x
    BY <1>3, <1>8
  <2> QED BY <2>1, <2>2
<1> HIDE DEF v, place
<1> QED
  <2>1. Got(t) = 1 => reg'[t].results[1] = reg[t].results[1]
    BY <1>8, <1>10
  <2>2. Got(t) = 0 => Phase(t) = First(2)
    BY <1>5, <1>6
  <2>3. Got(t)' = Got(t) + 1 /\ Phase(t)' = Phase(t) /\ Phase(t) = First(Got(t) + 1 + 1)
    BY <1>5, <1>6, <1>11, <1>13
  <2>4. \/ reg'[t].results = reg[t].results
        \/ Got(t) = 1 /\ reg'[t].results[1] = reg[t].results[1]
        \/ Got(t) = 0 /\ Phase(t) = First(2)
    BY <1>3, <2>1, <2>2
  <2>5. reg' = reg \/ reg' = [reg EXCEPT ![t] = v]
    BY <1>10
  <2>6. Registers(t)' /\ (Going(t)' \/ Gone(t)') /\ Published(t)' /\ SlotHolds(t)' /\ Result(t)'
    BY <1>16, <1>17, <1>20, <1>21, <1>22
  <2> QED BY ONLY IsRows, BlockInv, t \in Threads, <1>1, <2>3, <2>4, <2>5, <2>6, OneThread, Zenon

-----------------------------------------------------------------------------
(***************************************************************************)
(* The steps of a job of rows: no other kernel takes part.                 *)
(***************************************************************************)
\* No step changes the job.
LEMMA JobKept ==
    ASSUME KernelsNext \/ UNCHANGED deviceVars
    PROVE  job' = job
<1>1. CASE Host
  <2>1. LaunchRows => job' = job
    BY Zenon DEF LaunchRows
  <2>2. ExpertHost => job' = job
    BY Zenon DEF ExpertHost, LaunchGather, LaunchMatMul, LaunchScatter
  <2>3. LaunchTopK => job' = job
    BY Zenon DEF LaunchTopK
  <2>4. AttentionHost => job' = job
    BY Zenon DEF AttentionHost, LaunchAttention, FallBack, LaunchDecoder
  <2> QED BY <1>1, <2>1, <2>2, <2>3, <2>4, Zenon DEF Host
<1>2. CASE Memory \/ Begin \/ Finish \/ Multiply
  <2>1. CASE Multiply
    BY <2>1, Zenon DEF Multiply
  <2> QED BY <1>2, <2>1, Zenon DEF Memory, Begin, Finish
<1>3. ASSUME NEW t, RowStep(t)
      PROVE  job' = job
  BY <1>3, Zenon DEF RowStep, Publish, Combine, Read
<1>4. ASSUME NEW t, ExpertStep(t)
      PROVE  job' = job
  <2>1. ASSUME Count(t) \/ Prefix(t) \/ Assign(t) \/ CopyX(t) \/ Zero(t) \/ Scatter(t) \/ StoreSum(t)
        PROVE  job' = job
    BY <2>1, Zenon DEF Count, Prefix, Assign, CopyX, Zero, Scatter, StoreSum, GridThread
  <2>2. ASSUME PointRows(t) \/ PointExperts(t) \/ \E name : Surplus(name, t)
        PROVE  job' = job
    BY <2>2, Zenon DEF PointRows, PointExperts, Surplus
  <2> QED BY <1>4, <2>1, <2>2, Zenon DEF ExpertStep
<1>5. ASSUME NEW t, TopKStep(t)
      PROVE  job' = job
  BY <1>5, Zenon DEF TopKStep, SortTile, MergeLists, MergeRound, StoreList, Pick, Compare, Note
<1>6. ASSUME NEW t, AttentionStep(t)
      PROVE  job' = job
  BY <1>6, Zenon DEF AttentionStep, Partial, PartialOfPages, Reduce, Block, Load, TakeIn, StoreQueries
<1>7. CASE Rest \/ UNCHANGED deviceVars
  BY <1>7, Zenon DEF Rest, deviceVars
<1> QED BY <1>1, <1>2, <1>3, <1>4, <1>5, <1>6, <1>7, Zenon DEF KernelsNext, Device, Step

\* The host has only the rows to launch.
LEMMA RowsLaunched ==
    ASSUME RowsInv, Host
    PROVE  LaunchRows
<1>1. todo # <<>> => Head(todo) = "rows"
  BY DEF RowsInv
<1>2. ~ExpertHost
  <2>1. ExpertHost => todo # <<>> /\ Head(todo) \in {"gather", "matmul", "scatter"}
    BY Zenon DEF ExpertHost, LaunchGather, LaunchMatMul, LaunchScatter
  <2> QED BY <1>1, <2>1
<1>3. ~LaunchTopK
  <2>1. LaunchTopK => todo # <<>> /\ Head(todo) = "topk"
    BY Zenon DEF LaunchTopK
  <2> QED BY <1>1, <2>1
<1>4. ~AttentionHost
  <2>1. AttentionHost => todo # <<>> /\ Head(todo) \in {"attention", "decoder"}
    BY Zenon DEF AttentionHost, LaunchAttention, FallBack, LaunchDecoder
  <2> QED BY <1>1, <2>1
<1> QED BY <1>2, <1>3, <1>4 DEF Host

\* The device has only their kernel to run.
LEMMA RowsRun ==
    ASSUME RowsInv
    PROVE  /\ ~Memory /\ ~Multiply
           /\ \A t : ~ExpertStep(t) /\ ~TopKStep(t) /\ ~AttentionStep(t)
<1>1. stream # <<>> => Head(stream).do = "kernel" /\ Head(stream).name = "rows"
  BY DEF RowsInv, RowKernel, Kernel
<1>2. ~Memory
  <2>1. Memory => stream # <<>> /\ Head(stream).do \in {"alloc", "set", "free"}
    BY Zenon DEF Memory
  <2> QED BY <1>1, <2>1
<1>3. ~Multiply
  <2>1. Multiply => stream # <<>> /\ Head(stream).do = "gemm"
    BY Zenon DEF Multiply, Doing
  <2> QED BY <1>1, <2>1
<1>4. \A name, t : Runs(name, t) => name = "rows"
  BY <1>1, Zenon DEF Runs, Doing
<1>5. ASSUME NEW t, ExpertStep(t)
      PROVE  FALSE
  <2>1. Count(t) => Runs("count", t)
    BY Zenon DEF Count, GridThread
  <2>2. Prefix(t) => Runs("prefix", t)
    BY Zenon DEF Prefix, GridThread
  <2>3. Assign(t) => Runs("assign", t)
    BY Zenon DEF Assign, GridThread
  <2>4. CopyX(t) => Runs("copy", t)
    BY Zenon DEF CopyX, GridThread
  <2>5. PointRows(t) \/ PointExperts(t) => Runs("prepare", t)
    BY Zenon DEF PointRows, PointExperts
  <2>6. Zero(t) => Runs("zero", t)
    BY Zenon DEF Zero, GridThread
  <2>7. Scatter(t) => Runs("scatter", t)
    BY Zenon DEF Scatter, GridThread
  <2>8. StoreSum(t) => Runs("store", t)
    BY Zenon DEF StoreSum, GridThread
  <2>9. \A name : Surplus(name, t) => Runs(name, t)
    BY Zenon DEF Surplus
  <2> QED BY <1>4, <1>5, <2>1, <2>2, <2>3, <2>4, <2>5, <2>6, <2>7, <2>8, <2>9 DEF ExpertStep
<1>6. ASSUME NEW t, TopKStep(t)
      PROVE  FALSE
  <2>1. SortTile(t) => Runs("tile", t)
    BY Zenon DEF SortTile
  <2>2. MergeLists(t) => Runs("finalize", t)
    BY Zenon DEF MergeLists
  <2>3. \A name : MergeRound(name, t) \/ StoreList(name, t) => Runs(name, t)
    BY Zenon DEF MergeRound, StoreList
  <2>4. Pick(t) \/ Compare(t) \/ Note(t) => Runs("round", t)
    BY Zenon DEF Pick, Compare, Note
  <2> QED BY <1>4, <1>6, <2>1, <2>2, <2>3, <2>4 DEF TopKStep
<1>7. ASSUME NEW t, AttentionStep(t)
      PROVE  FALSE
  <2>1. Partial(t) => Runs("partial", t)
    BY Zenon DEF Partial, Block
  <2>2. PartialOfPages(t) => Runs("pages", t)
    BY Zenon DEF PartialOfPages, Block
  <2>3. Reduce(t) => Runs("reduce", t)
    BY Zenon DEF Reduce, Block
  <2>4. Load(t) \/ TakeIn(t) \/ StoreQueries(t) => Runs("prefill", t)
    BY Zenon DEF Load, TakeIn, StoreQueries
  <2> QED BY <1>4, <1>7, <2>1, <2>2, <2>3, <2>4 DEF AttentionStep
<1> QED BY <1>2, <1>3, <1>5, <1>6, <1>7

\* The launch puts the kernel on the stream, or nothing.
LEMMA LaunchKeeps ==
    ASSUME IsRows, RowsInv, LaunchRows
    PROVE  RowsInv'
<1> DEFINE commands == IF job.rows = 0 THEN <<>> ELSE <<RowKernel>>
<1>1. todo = <<"rows">> /\ stream = <<>> /\ at = <<>> /\ reg = <<>>
  BY DEF RowsInv, LaunchRows
<1>2. Issue(commands) /\ job' = job /\ at' = at /\ reg' = reg
  BY DEF LaunchRows, RowKernel, Threads
<1>3. RowKernel' = RowKernel
  BY <1>2 DEF RowKernel, Threads, Numbers, RowThreads, Kernel, Zeros
<1> HIDE DEF RowKernel
<1>4. Cleanup(<<>>) = <<>>
  <2> DEFINE S == {i \in DOMAIN <<>> : <<>>[i].do = "alloc"}
  <2>1. S = {}
    OBVIOUS
  <2>2. Cardinality(S) = 0
    BY <2>1, FS_EmptySet
  <2>3. 1..Cardinality(S) = {}
    BY <2>2
  <2> HIDE DEF S
  <2> QED BY <2>3 DEF S, Cleanup
<1>5. todo' = <<>> /\ stream' \in {<<>>, <<RowKernel>>}
  <2>1. PICK n \in 0..Len(commands) :
          LET issued == SubSeq(commands, 1, n)
          IN IF n = Len(commands)
             THEN /\ stream' = stream \o commands /\ todo' = Tail(todo) /\ UNCHANGED failures
             ELSE /\ commands[n + 1].do # "free"
                  /\ stream' = stream \o issued \o Cleanup(issued)
                  /\ todo' = <<>> /\ failures' = failures \cup {"call"}
    BY <1>2, Zenon DEF Issue
  <2>2. Tail(todo) = <<>>
    BY <1>1
  <2>3. CASE n = Len(commands)
    <3>1. stream' = <<>> \o commands /\ todo' = <<>>
      BY <1>1, <2>1, <2>2, <2>3
    <3> QED BY <3>1
  <2>4. CASE n # Len(commands)
    <3>1. n = 0
      BY <2>4
    <3>2. SubSeq(commands, 1, 0) = <<>>
      OBVIOUS
    <3>3. stream' = <<>> \o <<>> \o <<>> /\ todo' = <<>>
      BY <1>1, <1>4, <2>1, <2>4, <3>1, <3>2, Zenon
    <3> QED BY <3>3
  <2> QED BY <2>3, <2>4
<1> QED BY <1>1, <1>2, <1>3, <1>5 DEF RowsInv

\* The kernel begins with every thread before its first phase.
LEMMA BeginKeeps ==
    ASSUME IsRows, RowsInv, Begin
    PROVE  RowsInv'
<1>1. stream = <<RowKernel>> /\ Head(stream) = RowKernel
  BY DEF RowsInv, Begin, Doing
<1>2. RowKernel.threads = Threads /\ RowKernel.reg = [results |-> <<>>, local |-> EmptyBag]
      /\ RowKernel.shared = Zeros(RowThreads, EmptyBag)
  BY DEF RowKernel, Kernel
<1> DEFINE r == [results |-> <<>>, local |-> EmptyBag]
<1>3. /\ at' = [t \in Threads |-> <<1, 1>>]
      /\ reg' = [t \in Threads |-> r]
      /\ shared' = [b \in {t[1] : t \in Threads} |-> Zeros(RowThreads, EmptyBag)]
      /\ job' = job /\ todo' = todo /\ stream' = stream
  BY <1>1, <1>2, Zenon DEF Begin
<1>4. RowKernel' = RowKernel
  BY <1>3 DEF RowKernel, Threads, Numbers, RowThreads, Kernel, Zeros
<1>5. Threads' = Threads /\ Numbers(job.rows)' = Numbers(job.rows) /\ Numbers(RowThreads)' = Numbers(RowThreads)
  BY <1>3 DEF Threads, Numbers, RowThreads
<1>6. {t[1] : t \in Threads} = Numbers(job.rows)
  <2>1. 0 \in Numbers(RowThreads)
    BY JobFacts DEF Numbers
  <2>2. \A b \in Numbers(job.rows) : <<b, 0>> \in Threads /\ <<b, 0>>[1] = b
    BY <2>1 DEF Threads
  <2>3. \A t \in Threads : t[1] \in Numbers(job.rows)
    BY ThreadFacts
  <2> QED BY <2>2, <2>3
<1>7. ASSUME NEW t \in Threads
      PROVE  /\ Got(t)' = 0 /\ Phase(t)' = 1 /\ First(1)' = 1
             /\ Registers(t)' /\ Going(t)' /\ Published(t)' /\ SlotHolds(t)' /\ Result(t)'
  <2>1. reg'[t] = r /\ at'[t] = <<1, 1>> /\ reg'[t].results = <<>>
    BY <1>3
  <2>2. Got(t)' = 0
    BY <2>1 DEF Got
  <2>3. First(1)' = 1
    BY <1>3, PhaseFacts DEF First
  <2>4. at'[t] # Ended /\ Ended' = Ended /\ at'[t][1] = 1
    BY <2>1 DEF Ended
  <2>5. Phase(t)' = 1 /\ Stage(t)' = 0
    BY <2>2, <2>3, <2>4 DEF Phase, Stage
  <2>6. Round(t)' = 0
    BY <2>2, <2>4, <2>5 DEF Round
  <2>7. Registers(t)'
    BY <2>1 DEF Registers
  <2>8. Reductions' = Reductions /\ Reductions \in {1, 2} /\ job.depth \in 0..10
    BY <1>3, JobFacts DEF Reductions
  <2>9. Going(t)'
    <3>1. Got(t)' \in 0..(Reductions - 1)'
      BY <2>2, <2>8
    <3>2. at'[t] = <<First(Got(t) + 1)' + 0, 1>> /\ 0 \in 0..(job.depth + 1)'
      BY <1>3, <2>1, <2>2, <2>3, <2>8
    <3> QED BY <2>2, <3>1, <3>2 DEF Going
  <2>10. Published(t)' /\ SlotHolds(t)'
    BY <2>6 DEF Published, SlotHolds
  <2>11. Result(t)'
    BY <2>2, <2>8 DEF Result
  <2> QED BY <2>2, <2>3, <2>5, <2>7, <2>9, <2>10, <2>11
<1>8. \A b \in Numbers(job.rows) : DOMAIN shared'[b] = Numbers(RowThreads)
  BY <1>3, <1>6 DEF Zeros
<1>9. \A t, u \in Threads : Together(t, u)'
  BY <1>7 DEF Together
<1>10. BlockInv'
  BY <1>3, <1>5, <1>6, <1>7, <1>8, <1>9 DEF BlockInv
<1>11. todo' \in {<<"rows">>, <<>>} /\ (todo' # <<>> => stream' = <<>>) /\ stream' = <<RowKernel>>
  BY <1>1, <1>3 DEF RowsInv
<1> QED BY <1>4, <1>10, <1>11 DEF RowsInv

\* The kernel is over when every thread has ended.
LEMMA FinishKeeps ==
    ASSUME RowsInv, Finish
    PROVE  RowsInv'
<1>1. stream = <<RowKernel>> /\ todo = <<>>
  BY DEF RowsInv, Finish, Doing
<1>2. at' = <<>> /\ reg' = <<>> /\ stream' = Tail(stream) /\ todo' = todo
  BY DEF Finish
<1>3. Tail(<<RowKernel>>) = <<>>
  OBVIOUS
<1>4. stream' = <<>> /\ todo' = <<>>
  BY <1>1, <1>2, <1>3
<1> QED BY <1>2, <1>4 DEF RowsInv

\* A step of a thread.
LEMMA ThreadKeeps ==
    ASSUME IsRows, RowsInv, NEW t \in DOMAIN at, RowStep(t)
    PROVE  RowsInv'
<1>1. BlockInv /\ stream = <<RowKernel>> /\ t \in Threads
  BY DEF RowsInv, BlockInv
<1>2. BlockInv'
  BY <1>1, PublishKeeps, CombineKeeps, ReadKeeps DEF RowStep
<1>3. job' = job /\ stream' = stream /\ todo' = todo
  BY Zenon DEF RowStep, Publish, Combine, Read
<1>4. RowKernel' = RowKernel
  BY <1>3 DEF RowKernel, Threads, Numbers, RowThreads, Kernel, Zeros
<1> QED BY <1>1, <1>2, <1>3, <1>4 DEF RowsInv

\* Nothing moves.
LEMMA Unmoved ==
    ASSUME RowsInv, UNCHANGED deviceVars
    PROVE  RowsInv'
<1>1. job' = job /\ todo' = todo /\ stream' = stream /\ at' = at /\ reg' = reg /\ shared' = shared
  BY DEF deviceVars
<1>2. RowKernel' = RowKernel
  BY <1>1 DEF RowKernel, Threads, Numbers, RowThreads, Kernel, Zeros
<1>3. ASSUME BlockInv
      PROVE  BlockInv'
  <2>1. Threads' = Threads /\ Numbers(job.rows)' = Numbers(job.rows) /\ Numbers(RowThreads)' = Numbers(RowThreads)
    BY <1>1 DEF Threads, Numbers, RowThreads
  <2>2. ASSUME NEW t \in Threads
        PROVE  Registers(t)' /\ (Going(t)' \/ Gone(t)') /\ Published(t)' /\ SlotHolds(t)' /\ Result(t)'
    <3>1. /\ Registers(t)' /\ (Going(t)' \/ Gone(t)')
          /\ Got(t)' = Got(t) /\ Round(t)' = Round(t) /\ Level(t)' = Level(t) /\ Columns(t)' = Columns(t)
      BY <1>1, <1>3, Untouched DEF BlockInv
    <3>2. /\ \A b, r, C : Content(b, r, C)' = Content(b, r, C)
          /\ \A i, n : Under(i, n)' = Under(i, n)
          /\ Reductions' = Reductions /\ Numbers(job.hidden)' = Numbers(job.hidden)
      BY <1>1 DEF Content, RowThreads, Under, Numbers, Reductions
    <3>3. Published(t)'
      BY <1>1, <1>3, <3>1, <3>2 DEF Published, BlockInv
    <3>4. SlotHolds(t)'
      BY <1>1, <1>3, <3>1, <3>2 DEF SlotHolds, BlockInv, Power
    <3>5. Result(t)'
      BY <1>1, <1>3, <3>1, <3>2 DEF Result, BlockInv
    <3> QED BY <3>1, <3>3, <3>4, <3>5
  <2>3. ASSUME NEW t \in Threads, NEW u \in Threads, t[1] = u[1]
        PROVE  Together(t, u)'
    <3>1. Got(t)' = Got(t) /\ Phase(t)' = Phase(t) /\ Phase(u)' = Phase(u) /\ First(Got(t) + 1)' = First(Got(t) + 1)
      BY <1>1, Untouched DEF First
    <3> QED BY <1>3, <2>3, <3>1 DEF BlockInv, Together
  <2> QED BY <1>1, <1>3, <2>1, <2>2, <2>3 DEF BlockInv
<1> QED BY <1>1, <1>2, <1>3 DEF RowsInv

\* Every step keeps the invariant.
LEMMA KernelsStep ==
    ASSUME KernelsInv, [KernelsNext]_deviceVars
    PROVE  KernelsInv'
<1>1. job' = job
  BY JobKept
<1>2. CASE job.kind # "rows"
  BY <1>1, <1>2 DEF KernelsInv
<1>3. CASE job.kind = "rows"
  <2>1. IsRows /\ RowsInv
    BY <1>3 DEF KernelsInv, IsRows
  <2>2. RowsInv'
    <3>1. CASE Host
      BY <2>1, <3>1, RowsLaunched, LaunchKeeps
    <3>2. CASE Device
      BY <2>1, <3>2, RowsRun, BeginKeeps, FinishKeeps, ThreadKeeps DEF Device, Step
    <3>3. CASE UNCHANGED deviceVars
      BY <2>1, <3>3, Unmoved
    <3> QED BY <3>1, <3>2, <3>3 DEF KernelsNext, Rest
  <2> QED BY <1>1, <2>2 DEF KernelsInv
<1> QED BY <1>2, <1>3

-----------------------------------------------------------------------------
(***************************************************************************)
(* The last result: everything that was published, once.                   *)
(***************************************************************************)
\* When a thread has its last result, all of its block have published for it.
LEMMA AllPublished ==
    ASSUME IsRows, BlockInv, NEW t \in Threads, Got(t) = Reductions, NEW u \in Threads, u[1] = t[1]
    PROVE  Round(u) = Reductions
<1>1. Gone(t) /\ (Reductions = 2 => ~AllMasked) /\ Reductions \in {1, 2}
  BY GoingStage, JobFacts DEF BlockInv, Gone
<1>2. First(Got(t) + 1) <= Phase(u) /\ (Going(u) \/ Gone(u))
  BY DEF BlockInv, Together
<1>3. CASE Gone(u)
  BY <1>1, <1>3, GonePhase, JobFacts DEF Round, Gone
<1>4. CASE Going(u)
  <2>1. /\ Got(u) \in 0..1 /\ Got(u) < Reductions /\ Stage(u) \in 0..(job.depth + 1)
        /\ at[u] # Ended /\ Phase(u) = First(Got(u) + 1) + Stage(u)
    BY <1>4, GoingStage
  <2>2. First(1) = 1 /\ First(2) = job.depth + 2 /\ First(3) = 2 * job.depth + 3 /\ job.depth \in 0..10
    BY PhaseFacts, JobFacts
  <2>3. Got(u) = Reductions - 1 /\ Stage(u) = job.depth + 1
    <3>1. CASE Reductions = 1
      BY <1>2, <2>1, <2>2, <3>1
    <3>2. CASE Reductions = 2
      <4>1. CASE Got(u) = 0
        BY <1>2, <2>1, <2>2, <3>2, <4>1
      <4>2. CASE Got(u) = 1
        BY <1>2, <2>1, <2>2, <3>2, <4>2
      <4> QED BY <2>1, <4>1, <4>2
    <3> QED BY <1>1, <3>1, <3>2
  <2> QED BY <1>1, <2>1, <2>2, <2>3 DEF Round
<1> QED BY <1>2, <1>3, <1>4

\* The invariant says what the property does.
LEMMA WholeFromBlock ==
    ASSUME IsRows, BlockInv, NEW t \in Threads, Got(t) = Reductions
    PROVE  LET result == reg[t].results[Reductions]
           IN /\ result = SetToBag(UNION {BagToSet(reg[u].local) : u \in {u \in DOMAIN reg : u[1] = t[1]}})
              /\ {part[1] : part \in BagToSet(result)} = Numbers(job.hidden)
              /\ \A p, q \in BagToSet(result) : p[1] = q[1] => p = q
<1> DEFINE P(C) == Parts(RowThreads, reg, t[1], Reductions, C)
           result == reg[t].results[Reductions]
           Mates == {u \in DOMAIN reg : u[1] = t[1]}
<1>1. result = SetToBag(P(Numbers(job.hidden)))
  BY DEF BlockInv, Result, Content
<1>2. \A S : BagToSet(SetToBag(S)) = S
  BY DEF BagToSet, SetToBag
<1>3. ASSUME NEW u \in Mates
      PROVE  BagToSet(reg[u].local) = P(Columns(u))
  <2>1. u \in Threads /\ u[1] = t[1]
    BY DEF BlockInv
  <2>2. Round(u) = Reductions /\ Reductions > 0
    BY <2>1, AllPublished, JobFacts
  <2>3. reg[u].local = SetToBag(P(Columns(u)))
    BY <2>1, <2>2 DEF BlockInv, Published, Content
  <2> QED BY <1>2, <2>3
<1>4. UNION {BagToSet(reg[u].local) : u \in Mates} = P(Numbers(job.hidden))
  <2>1. ASSUME NEW u \in Mates
        PROVE  P(Columns(u)) \subseteq P(Numbers(job.hidden))
    BY DEF Parts, Columns
  <2>2. ASSUME NEW part \in P(Numbers(job.hidden))
        PROVE  \E u \in Mates : part \in P(Columns(u))
    <3>1. PICK c \in Numbers(job.hidden) : part = Part(RowThreads, reg, t[1], Reductions, c)
      BY <2>2 DEF Parts
    <3> DEFINE u == <<t[1], c % RowThreads>>
    <3>2. u \in Threads
      BY ThreadFacts DEF Threads
    <3>3. u \in Mates /\ c \in Columns(u)
      BY <3>2 DEF BlockInv, Columns
    <3>4. part \in P(Columns(u))
      BY <3>1, <3>3 DEF Parts
    <3> QED BY <3>3, <3>4
  <2> HIDE DEF P, Mates
  <2> QED BY <1>3, <2>1, <2>2
<1>5. BagToSet(result) = P(Numbers(job.hidden))
  BY <1>1, <1>2
<1>6. \A c : Part(RowThreads, reg, t[1], Reductions, c)[1] = c
  BY DEF Part
<1>7. {part[1] : part \in P(Numbers(job.hidden))} = Numbers(job.hidden)
  BY <1>6 DEF Parts
<1>8. \A p, q \in P(Numbers(job.hidden)) : p[1] = q[1] => p = q
  BY <1>6 DEF Parts
<1> HIDE DEF P, result
<1>9. {part[1] : part \in BagToSet(result)} = Numbers(job.hidden)
  BY <1>5, <1>7
<1>10. \A p, q \in BagToSet(result) : p[1] = q[1] => p = q
  BY <1>5, <1>8
<1> QED BY <1>1, <1>4, <1>9, <1>10, Zenon DEF result

\* A row is scaled by numbers that every thread of its block agrees on, in
\* which every column is once (softmax_kernel, rms_norm_kernel and the layer
\* norm's kernel: the tree between __syncthreads), for every number of rows,
\* columns and threads, and every order in which the threads run.
THEOREM ReductionsWhole == KernelsSpec => []ReductionWhole
<1>1. KernelsInit => KernelsInv
  <2> SUFFICES ASSUME KernelsInit, job.kind = "rows"
               PROVE  RowsInv
    BY DEF KernelsInv, KernelsInit
  <2>1. todo = <<"rows">>
    BY DEF KernelsInit, Operations
  <2> QED BY <2>1 DEF KernelsInit, RowsInv
<1>2. KernelsInv /\ [KernelsNext]_deviceVars => KernelsInv'
  BY KernelsStep
<1>3. KernelsInv => ReductionWhole
  <2> SUFFICES ASSUME KernelsInv, job.kind = "rows", NEW t \in DOMAIN reg, Len(reg[t].results) = Reductions
               PROVE  LET result == reg[t].results[Reductions]
                      IN /\ result = SetToBag(UNION {BagToSet(reg[u].local) : u \in {u \in DOMAIN reg : u[1] = t[1]}})
                         /\ {part[1] : part \in BagToSet(result)} = Numbers(job.hidden)
                         /\ \A p, q \in BagToSet(result) : p[1] = q[1] => p = q
    BY Zenon DEF ReductionWhole
  <2>1. IsRows /\ RowsInv
    BY DEF KernelsInv, IsRows
  <2>2. reg # <<>>
    OBVIOUS
  <2>3. BlockInv /\ t \in Threads
    BY <2>1, <2>2 DEF RowsInv, BlockInv
  <2>4. Got(t) = Reductions
    BY DEF Got
  <2> QED BY <2>1, <2>3, <2>4, WholeFromBlock, Zenon
<1> QED BY <1>1, <1>2, <1>3, PTL DEF KernelsSpec
=============================================================================
