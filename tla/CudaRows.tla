------------------------------ MODULE CudaRows -------------------------------
(***************************************************************************)
(* Softmax and the norms of rows (src/device/cuda/CudaSoftmaxKernels.cu,   *)
(* CudaNormKernels.cu): a block of 2^depth threads per row, which combines *)
(* what its threads found in their columns by a tree in shared memory, once*)
(* for RMS norm, twice for softmax (maximum, then sum) and layer norm.     *)
(*                                                                         *)
(* A number is the bag of what it was combined from: <<column, results of  *)
(* the reductions that the thread had used>>.                              *)
(***************************************************************************)
EXTENDS CudaStream

RowThreads == 2 ^ job.depth
Reductions == IF job.norm = "rms_norm" THEN 1 ELSE 2
LaunchRows ==
  /\ todo # <<>> /\ Head(todo) = "rows"
  /\ Issue(IF job.rows = 0 THEN <<>>
           ELSE <<Kernel("rows", Numbers(job.rows) \X Numbers(RowThreads),
                         [results |-> <<>>, local |-> EmptyBag], Zeros(RowThreads, EmptyBag))>>)
  /\ UNCHANGED <<job, at, reg, shared, memory>>

Columns(t) == {c \in Numbers(job.hidden) : c % RowThreads = t[2]}

\* A reduction takes a phase to publish and depth phases of the tree; its
\* result is read where the next one publishes.
First(r) == (r - 1) * (job.depth + 1) + 1
Next1(t) == Len(reg[t].results) + 1

Publish(t) ==
  LET local == SetToBag({<<c, reg[t].results>> : c \in Columns(t)})
  IN /\ Runs("rows", t) /\ at[t] = <<First(Next1(t)), 1>>
     /\ reg' = [reg EXCEPT ![t].local = local]
     /\ shared' = [shared EXCEPT ![t[1]][t[2]] = local]
     /\ Goto(t, <<at[t][1] + 1, 0>>)
     /\ UNCHANGED <<job, todo, stream, memory, failures>>

\* Mutant: the threads of the upper half take part.
InTree_Upper(i, stride) == i < 2 * stride /\ i + stride < RowThreads

InTree(i, stride) == i < stride

Combine(t) ==
  LET turn == at[t][1] - First(Next1(t))
      stride == 2 ^ (job.depth - turn)
  IN /\ Runs("rows", t) /\ turn \in 1..job.depth
     /\ shared' = IF InTree(t[2], stride)
                  THEN [shared EXCEPT ![t[1]][t[2]] = @ (+) shared[t[1]][t[2] + stride]] ELSE shared
     /\ Goto(t, <<at[t][1] + 1, 0>>)
     /\ UNCHANGED <<job, todo, stream, reg, memory, failures>>

\* A row that is masked altogether has no maximum.
IsMasked(results) ==
  /\ job.norm = "softmax" /\ Len(results) = 1
  /\ \A part \in BagToSet(results[1]) : part[2] = <<>> /\ part[1] \in job.masked

Read(t) ==
  LET results == Append(reg[t].results, shared[t[1]][0])
      last == Len(results) = Reductions
      value == IF IsMasked(results) THEN <<>> ELSE results
  IN /\ Runs("rows", t) /\ at[t] = <<First(Next1(t) + 1), 0>>
     /\ reg' = [reg EXCEPT ![t].results = results]
     /\ memory' = IF last \/ IsMasked(results)
                  THEN [memory EXCEPT !.output = [place \in {t[1]} \X Columns(t) |-> value] @@ @]
                  ELSE memory
     /\ Goto(t, IF last \/ IsMasked(results) THEN Ended ELSE <<at[t][1], 1>>)
     /\ UNCHANGED <<job, todo, stream, shared, failures>>

RowStep(t) == Publish(t) \/ Combine(t) \/ Read(t)

RowArrays == [output |-> <<>>]

-----------------------------------------------------------------------------
\* A row is scaled by numbers every thread of its block agrees on: the last
\* reduction gives each of them everything that was published, once, and in it
\* every column is once.
ReductionWhole ==
  job.kind = "rows" => \A t \in DOMAIN reg :
    Len(reg[t].results) = Reductions =>
      LET result == reg[t].results[Reductions]
      IN /\ result = SetToBag(UNION {BagToSet(reg[u].local) : u \in {u \in DOMAIN reg : u[1] = t[1]}})
         /\ {part[1] : part \in BagToSet(result)} = Numbers(job.hidden)
         /\ \A p, q \in BagToSet(result) : p[1] = q[1] => p = q

\* What the kernels compute, as the tests of the device expect it
\* (test/engine/CudaDeviceTest.cpp): each element of a row from the maximum
\* (mean) of the row and the sum that belongs to it.
RowsNormalised ==
  LET Whole(results) == SetToBag({<<c, results>> : c \in Numbers(job.hidden)})
      first == <<Whole(<<>>)>>
      scale == IF Reductions = 1 THEN first ELSE first \o <<Whole(first)>>
  IN job.kind = "rows" /\ Done /\ failures = {} =>
       \A row \in Numbers(job.rows), c \in Numbers(job.hidden) :
         memory.output[row, c] = IF IsMasked(first) THEN <<>> ELSE scale
=============================================================================
