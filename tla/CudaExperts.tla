----------------------------- MODULE CudaExperts -----------------------------
(***************************************************************************)
(* The experts' block of a mixture on the device: routes are gathered by   *)
(* expert (src/device/cuda/CudaGatherKernels.cu), multiplied by their      *)
(* expert's weights (CudaMatMulKernels.cu), and the results scattered and  *)
(* summed by token (CudaMoeScatterSumKernels.cu).  Tensors are dense.      *)
(*                                                                         *)
(* A job is [kind, batch, seq, topK, experts, hidden, ids, byRow, single,  *)
(* stale]: byRow multiplies row by row, otherwise by groups of rows that   *)
(* the host forms; single sums in the output, otherwise in an array of     *)
(* floats; stale is what the token numbers of packed rows held before.     *)
(***************************************************************************)
EXTENDS CudaStream

PerBatch == job.seq * job.topK
Routes == job.batch * PerBatch
Slice == job.hidden * job.hidden
IdsInRange == \A r \in Numbers(Routes) : job.ids[r + 1] \in Numbers(job.experts)

Work(name) ==
  CASE name \in {"count", "assign"} -> Routes
    [] name = "prefix" -> job.batch
    [] name \in {"copy", "scatter"} -> Routes * job.hidden
    [] name \in {"zero", "store"} -> job.batch * job.seq * job.hidden
GridKernel(name) == IF Work(name) = 0 THEN <<>> ELSE <<Kernel(name, Grid(Work(name)), <<>>, <<>>)>>

-----------------------------------------------------------------------------
(***************************************************************************)
(* The host.                                                               *)
(***************************************************************************)
GatherCommands ==
  LET n == job.batch * job.experts
  IN <<Alloc("counts", n), Alloc("cursors", n)>>
       \o (IF Routes = 0 THEN <<>> ELSE <<Alloc("routeRows", Routes)>>)
       \o <<Set("counts", Zeros(n, 0))>>
       \o GridKernel("count") \o GridKernel("prefix") \o GridKernel("assign") \o GridKernel("copy")
       \o <<Free("counts"), Free("cursors")>>
       \o (IF Routes = 0 THEN <<>> ELSE <<Free("routeRows")>>)

\* cuBLAS: problem i multiplies counts[i] rows, at b[i], by the weights at a[i].
Gemm(a, b, c, counts) == [do |-> "gemm", a |-> a, b |-> b, c |-> c, counts |-> counts]

RowThreadsOfBatch == 2
MatMulByRow ==
  IF Routes = 0 THEN <<>>
  ELSE <<Kernel("prepare", Numbers(job.batch) \X Numbers(RowThreadsOfBatch), <<>>, <<>>),
         Gemm("weightPointers", "inputPointers", "outputPointers", Zeros(Routes, 1))>>

Offset(b, expert) == memory.offsets[b * (job.experts + 1) + expert]
OffsetsValid(b) ==
  /\ Offset(b, 0) = 0 /\ Offset(b, job.experts) = PerBatch
  /\ \A e \in Numbers(job.experts) : Offset(b, e) >= 0 /\ Offset(b, e) <= Offset(b, e + 1)
                                     /\ Offset(b, e + 1) <= PerBatch

\* A problem per batch and expert that has rows.
Groups ==
  LET Rows(n) == Offset(n \div job.experts, (n % job.experts) + 1) - Offset(n \div job.experts, n % job.experts)
      some == SelectSeq([n \in 1..(job.batch * job.experts) |-> n - 1], LAMBDA n : Rows(n) > 0)
      First(n) == ((n \div job.experts) * PerBatch + Offset(n \div job.experts, n % job.experts)) * job.hidden
      Array(value(_)) == [i \in Numbers(Len(some)) |-> value(some[i + 1])]
  IN [a |-> Array(LAMBDA n : (n % job.experts) * Slice), b |-> Array(First), c |-> Array(First),
      counts |-> Array(Rows)]
MatMulByGroup(groups) ==
  LET n == Cardinality(DOMAIN groups.a)
  IN IF n = 0 THEN <<>>
     ELSE <<Alloc("Aarray", n), Alloc("Barray", n), Alloc("Carray", n), Set("Aarray", groups.a),
            Set("Barray", groups.b), Set("Carray", groups.c), Gemm("Aarray", "Barray", "Carray", groups.counts),
            Free("Aarray"), Free("Barray"), Free("Carray")>>

ScatterCommands ==
  LET n == Work("zero")
  IN IF job.single THEN GridKernel("zero") \o GridKernel("scatter")
     ELSE IF n = 0 THEN <<>>
     ELSE <<Alloc("accum", n), Set("accum", Zeros(n, EmptyBag))>>
            \o GridKernel("scatter") \o GridKernel("store") \o <<Free("accum")>>

LaunchGather ==
  /\ todo # <<>> /\ Head(todo) = "gather"
  /\ Issue(GatherCommands)
  /\ UNCHANGED <<job, at, reg, shared, memory>>

\* To form groups the host waits for the stream and reads the offsets.
LaunchMatMul ==
  /\ todo # <<>> /\ Head(todo) = "matmul"
  /\ IF job.byRow \/ Routes = 0 THEN Issue(MatMulByRow)
     ELSE /\ stream = <<>>
          /\ IF \A b \in Numbers(job.batch) : OffsetsValid(b)
             THEN Issue(MatMulByGroup(Groups))
             ELSE todo' = <<>> /\ failures' = failures \cup {"offsets"} /\ UNCHANGED stream
  /\ UNCHANGED <<job, at, reg, shared, memory>>

LaunchScatter ==
  /\ todo # <<>> /\ Head(todo) = "scatter"
  /\ Issue(ScatterCommands)
  /\ UNCHANGED <<job, at, reg, shared, memory>>

-----------------------------------------------------------------------------
(***************************************************************************)
(* The device.  A thread of a grid does one item of the work.              *)
(***************************************************************************)
GridThread(name, t) ==
  /\ Runs(name, t) /\ Goto(t, Ended)
  /\ Linear(t) < Work(name)
  /\ UNCHANGED <<job, todo, stream, reg, shared>>

Surplus(name, t) ==
  /\ Runs(name, t) /\ Goto(t, Ended)
  /\ Linear(t) >= Work(name)
  /\ UNCHANGED <<job, todo, stream, reg, shared, memory, failures>>

\* record_validation_failure
Invalid == failures' = failures \cup {"word"}

Count(t) ==
  LET expert == job.ids[Linear(t) + 1]
      batch == Linear(t) \div PerBatch
  IN /\ GridThread("count", t)
     /\ IF expert \in Numbers(job.experts)
        THEN memory' = [memory EXCEPT !.counts[batch * job.experts + expert] = @ + 1] /\ UNCHANGED failures
        ELSE Invalid /\ UNCHANGED memory

\* Mutant: a cursor begins behind the rows of its expert.
Cursors_After(b) ==
  [e \in 1..job.experts |-> MapThenSumSet(LAMBDA n : memory.counts[b * job.experts + n], Numbers(e))]

\* The row where each expert's begin.
Cursors(b) ==
  [e \in 1..job.experts |-> MapThenSumSet(LAMBDA n : memory.counts[b * job.experts + n], Numbers(e - 1))]

Prefix(t) ==
  LET b == Linear(t)
      last == Cursors(b)[job.experts] + memory.counts[b * job.experts + job.experts - 1]
      row(n) == IF n = job.experts THEN last ELSE Cursors(b)[n + 1]
  IN /\ GridThread("prefix", t)
     /\ memory' = [memory EXCEPT
          !.cursors = [i \in {b * job.experts + n : n \in Numbers(job.experts)} |->
                         Cursors(b)[(i % job.experts) + 1]] @@ @,
          !.offsets = [i \in {b * (job.experts + 1) + n : n \in 0..job.experts} |->
                         row(i % (job.experts + 1))] @@ @]
     /\ UNCHANGED failures

Assign(t) ==
  LET route == Linear(t)
      batch == route \div PerBatch
      token == (route % PerBatch) \div job.topK
      expert == job.ids[route + 1]
      row == memory.cursors[batch * job.experts + expert]
  IN /\ GridThread("assign", t)
     /\ memory' = IF expert \in Numbers(job.experts)
          THEN [memory EXCEPT !.cursors[batch * job.experts + expert] = @ + 1,
                              !.routeRows[route] = row,
                              !.packedWeights[batch * PerBatch + row] = route,
                              !.tokenIds[batch * PerBatch + row] = token]
          ELSE [memory EXCEPT !.routeRows[route] = -1]
     /\ UNCHANGED failures

CopyX(t) ==
  LET route == Linear(t) \div job.hidden
      h == Linear(t) % job.hidden
      batch == route \div PerBatch
      token == (route % PerBatch) \div job.topK
      row == memory.routeRows[route]
  IN /\ GridThread("copy", t)
     /\ memory' = IF row < 0 THEN memory
          ELSE [memory EXCEPT !.packedX[(batch * PerBatch + row) * job.hidden + h] =
                                 (batch * job.seq + token) * job.hidden + h]
     /\ UNCHANGED failures

\* prepare_moe_row_pointer_arrays: every row points to the first expert, and
\* then, when all do, those of each expert to it.
Strided(t, n) == {i \in Numbers(n) : i % RowThreadsOfBatch = t[2]}
\* Mutant: a thread does not wait between the two.
PrepareWaits_Not == FALSE
PrepareWaits == TRUE

PointRows(t) ==
  LET rows == {t[1] * PerBatch + row : row \in Strided(t, PerBatch)}
      Pointers(value(_), old) == [p \in rows |-> value(p)] @@ old
  IN /\ Runs("prepare", t) /\ at[t] = <<1, 1>>
     /\ Goto(t, <<IF PrepareWaits THEN 2 ELSE 1, 2>>)
     /\ memory' = [memory EXCEPT
          !.weightPointers = Pointers(LAMBDA p : 0, @),
          !.inputPointers = Pointers(LAMBDA p : p * job.hidden, @),
          !.outputPointers = Pointers(LAMBDA p : p * job.hidden, @)]
     /\ UNCHANGED <<job, todo, stream, reg, shared, failures>>

PointExperts(t) ==
  LET b == t[1]
      Valid(e) == /\ Offset(b, e) >= 0 /\ Offset(b, e + 1) >= Offset(b, e) /\ Offset(b, e + 1) <= PerBatch
                  /\ e = 0 => Offset(b, 0) = 0
                  /\ e + 1 = job.experts => Offset(b, job.experts) = PerBatch
      own == Strided(t, job.experts)
      valid == {e \in own : Valid(e)}
      Of(p) == {e \in valid : p - b * PerBatch \in Offset(b, e)..(Offset(b, e + 1) - 1)}
  IN /\ Runs("prepare", t) /\ at[t][2] = 2
     /\ Goto(t, Ended)
     /\ memory' = [memory EXCEPT !.weightPointers =
                     [p \in DOMAIN @ |-> IF Of(p) = {} THEN @[p] ELSE (CHOOSE e \in Of(p) : TRUE) * Slice]]
     /\ IF valid = own THEN UNCHANGED failures ELSE Invalid
     /\ UNCHANGED <<job, todo, stream, reg, shared>>

\* cublasGemmBatchedEx, cublasGemmGroupedBatchedEx
Products(c) ==
  LET At(i, r) == memory[c.c][i] + r * job.hidden
      Row(i, r) == [j \in Numbers(job.hidden) |-> memory.packedX[memory[c.b][i] + r * job.hidden + j]]
  IN UNION {{[at |-> At(i, r) + o, value |-> <<memory[c.a][i], Row(i, r), o>>] :
               r \in Numbers(c.counts[i]), o \in Numbers(job.hidden)} : i \in DOMAIN c.counts}

Multiply ==
  /\ Doing("gemm")
  /\ LET results == Products(Head(stream))
     IN memory' = [memory EXCEPT !.packedOut =
                     [i \in {w.at : w \in results} |-> (CHOOSE w \in results : w.at = i).value] @@ @]
  /\ stream' = Tail(stream)
  /\ UNCHANGED <<job, todo, at, reg, shared, failures>>

Zero(t) ==
  /\ GridThread("zero", t)
  /\ memory' = [memory EXCEPT !.output[Linear(t)] = EmptyBag]
  /\ UNCHANGED failures

Scatter(t) ==
  LET h == Linear(t) % job.hidden
      route == Linear(t) \div job.hidden
      batch == route \div PerBatch
      token == memory.tokenIds[route]
      place == (batch * job.seq + token) * job.hidden + h
      sum == IF job.single THEN "output" ELSE "accum"
      term == <<memory.packedWeights[route], memory.packedOut[Linear(t)]>>
  IN /\ GridThread("scatter", t)
     /\ IF token \in Numbers(job.seq)
        THEN memory' = [memory EXCEPT ![sum][place] = @ (+) SetToBag({term})] /\ UNCHANGED failures
        ELSE Invalid /\ UNCHANGED memory

StoreSum(t) ==
  /\ GridThread("store", t)
  /\ memory' = [memory EXCEPT !.output[Linear(t)] = memory.accum[Linear(t)]]
  /\ UNCHANGED failures

ExpertStep(t) ==
  \/ Count(t) \/ Prefix(t) \/ Assign(t) \/ CopyX(t)
  \/ PointRows(t) \/ PointExperts(t)
  \/ Zero(t) \/ Scatter(t) \/ StoreSum(t)
  \/ \E name \in {"count", "prefix", "assign", "copy", "zero", "scatter", "store"} : Surplus(name, t)
ExpertHost == LaunchGather \/ LaunchMatMul \/ LaunchScatter

\* Arrays that outlive the operations, with what was there before.
ExpertArrays ==
  LET old(n) == Zeros(n, 77)
      f == Routes * job.hidden
  IN [offsets |-> old(job.batch * (job.experts + 1)), packedX |-> old(f), packedWeights |-> old(Routes),
      tokenIds |-> Zeros(Routes, job.stale), weightPointers |-> old(Routes), inputPointers |-> old(Routes),
      outputPointers |-> old(Routes), packedOut |-> old(f), output |-> old(Work("zero"))]

-----------------------------------------------------------------------------
\* In whatever order the threads take rows: a run that reports no failure has
\* summed, for every token, the products of its own row with its own experts,
\* each with its own weight and once; it reports none exactly when every expert
\* exists and no call failed; and nothing temporary stays allocated.
RoutesMixed ==
  LET Row(token) == [j \in Numbers(job.hidden) |-> token * job.hidden + j]
      Own(i) == {<<r, <<job.ids[r + 1] * Slice, Row(i \div job.hidden), i % job.hidden>>>> :
                   r \in {r \in Numbers(Routes) : r \div job.topK = i \div job.hidden}}
  IN job.kind = "experts" /\ Done =>
       /\ failures \ {"call"} # {} => ~IdsInRange
       /\ failures = {} => IdsInRange /\ \A i \in DOMAIN memory.output : memory.output[i] = SetToBag(Own(i))
       /\ DOMAIN memory = DOMAIN ExpertArrays
=============================================================================
