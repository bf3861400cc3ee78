----------------------------- MODULE CudaStream ------------------------------
(***************************************************************************)
(* Kernels of one operation after another on a CUDA stream.  The host puts *)
(* commands on the stream and goes on; any of its calls may fail, and then *)
(* the operation gives its temporary arrays back and the run ends there.   *)
(* The device does the commands in order.  The threads of a kernel run in  *)
(* any order; __syncthreads lets none of a block pass before all came.     *)
(*                                                                         *)
(* A command is [do, array, content] for "alloc", "set" and "free", or     *)
(* [do |-> "kernel", name, threads, reg, shared].  A thread is             *)
(* <<block, index>>; a kernel with warps in step has one per warp.         *)
(***************************************************************************)
EXTENDS Integers, SequencesExt

VARIABLES
  job,       \* what is computed: a record with its kind
  todo,      \* operations the host has still to launch
  stream,    \* commands the device has still to do
  at,        \* at[t]: <<phase, step>> of thread t; phases end at __syncthreads
  reg,       \* reg[t]: what it keeps in registers
  shared,    \* shared[b]: the shared memory of block b
  memory,    \* device memory: the arrays there are
  failures   \* "call": a CUDA call failed; "offsets": the host refused what it
             \* read; "word": a kernel set the validation word

deviceVars == <<job, todo, stream, at, reg, shared, memory, failures>>

CeilDiv(n, d) == (n + d - 1) \div d
Numbers(n) == 0..(n - 1)
Zeros(n, zero) == [i \in Numbers(n) |-> zero]

Alloc(array, n) == [do |-> "alloc", array |-> array, content |-> Zeros(n, 77)]  \* (what was there before)
Set(array, content) == [do |-> "set", array |-> array, content |-> content]
Free(array) == [do |-> "free", array |-> array, content |-> <<>>]
Kernel(name, threads, registers, sharedMemory) ==
  [do |-> "kernel", name |-> name, threads |-> threads, reg |-> registers, shared |-> sharedMemory]

\* Mutant: an operation whose call fails returns at once.
Cleanup_Forgotten(issued) == <<>>

\* What an operation that fails has allocated, to be freed.
Cleanup(issued) ==
  LET allocs == {i \in DOMAIN issued : issued[i].do = "alloc"}
      Nth(n) == CHOOSE i \in allocs : Cardinality({j \in allocs : j <= i}) = n
  IN [n \in 1..Cardinality(allocs) |-> Free(issued[Nth(n)].array)]

\* The host launches an operation, or up to a call that fails.
Issue(commands) ==
  \E n \in 0..Len(commands) :
    LET issued == SubSeq(commands, 1, n)
    IN IF n = Len(commands)
       THEN /\ stream' = stream \o commands /\ todo' = Tail(todo) /\ UNCHANGED failures
       ELSE /\ commands[n + 1].do # "free"   \* (taken not to fail)
            /\ stream' = stream \o issued \o Cleanup(issued)
            /\ todo' = <<>> /\ failures' = failures \cup {"call"}

Doing(what) == stream # <<>> /\ Head(stream).do = what

\* An array is allocated, filled or given back.
Memory ==
  /\ stream # <<>> /\ Head(stream).do \in {"alloc", "set", "free"}
  /\ LET c == Head(stream)
     IN memory' = IF c.do = "free" THEN Restrict(memory, DOMAIN memory \ {c.array})
                  ELSE (c.array :> c.content) @@ memory
  /\ stream' = Tail(stream)
  /\ UNCHANGED <<job, todo, at, reg, shared, failures>>

Begin ==
  /\ Doing("kernel") /\ at = <<>>
  /\ LET k == Head(stream)
     IN /\ at' = [t \in k.threads |-> <<1, 1>>]
        /\ reg' = [t \in k.threads |-> k.reg]
        /\ shared' = [b \in {t[1] : t \in k.threads} |-> k.shared]
  /\ UNCHANGED <<job, todo, stream, memory, failures>>

Ended == <<1000, 1>>
Finish ==
  /\ Doing("kernel") /\ at # <<>> /\ \A t \in DOMAIN at : at[t] = Ended
  /\ at' = <<>> /\ reg' = <<>> /\ shared' = <<>> /\ stream' = Tail(stream)
  /\ UNCHANGED <<job, todo, memory, failures>>

\* A thread of the running kernel whose block has come to its phase.
Runs(name, t) ==
  /\ Doing("kernel") /\ Head(stream).name = name
  /\ at[t] # Ended
  /\ \A u \in DOMAIN at : u[1] = t[1] => at[u][1] >= at[t][1]
Goto(t, place) == at' = [at EXCEPT ![t] = place]

\* The threads of a grid with at least one for each of n items of work.
BlockSize == 2
Grid(n) == Numbers(CeilDiv(n, BlockSize)) \X Numbers(BlockSize)
Linear(t) == t[1] * BlockSize + t[2]

Done == todo = <<>> /\ stream = <<>>
=============================================================================
