----------------------------- MODULE CpuDevice ------------------------------
(***************************************************************************)
(* Kernels on the CPU device (src/device/cpu/CpuDevice.cpp): values are    *)
(* views of buffers; layout operations alias (execute_alias,               *)
(* src/device/Device.cpp) or copy, kernels read views and fill a new       *)
(* buffer, whose part of a scratch buffer may begin anywhere and holds     *)
(* what was there before.  A kernel that reads a paged tensor reads a      *)
(* dense copy made for it.                                                 *)
(*                                                                         *)
(* Operations are those of the middle IR with their attributes.  The ghost *)
(* meaning says what each value stands for, in TensorAlgebra.              *)
(***************************************************************************)
EXTENDS TensorAlgebra, MidIR, CpuPages

CONSTANT Workloads   \* [leaves, catalogue, steps, pools]: leaves are [type, data];
                     \* an entry of the catalogue is [attrs, picks]

VARIABLES
  work,      \* the workload
  buffers,   \* the contents of every buffer
  values,    \* views: [type, layout, buffer, strides, offset]
  meaning,   \* what each value stands for: [tensor, op, operands]
  failed     \* an operation was refused

deviceVars == <<work, buffers, values, meaning, failed>>
vars == <<deviceVars, pagesVars>>

View(type, layout, buffer, strides, offset) ==
  [type |-> type, layout |-> layout, buffer |-> buffer, strides |-> strides, offset |-> offset]
ViewRef(v) == Ref(v.type.shape, v.strides, v.offset, buffers[v.buffer])

\* Operands are values or paged tensors, the latter as negative numbers; a
\* tensor has the type of the pool with the length it has.
IsPaged(x) == x < 0
PagedType(t) == Tensor(<<pool.prefix, tensors[t].length, pool.trailing>>, "f32")
TypeOf(x) == IF IsPaged(x) THEN PagedType(-x) ELSE values[x].type
OperandRef(x) == IF IsPaged(x) THEN Dense(PagedType(-x).shape, ReadPaged(-x)) ELSE ViewRef(values[x])
OperandTensor(x) ==
  IF ~IsPaged(x) THEN meaning[x].tensor
  ELSE Make(PagedType(-x).shape, LAMBDA c : RowsOf(-x)[1][c[2] + 1][c[1] * pool.trailing + c[3] + 1])

-----------------------------------------------------------------------------
(***************************************************************************)
(* Views.                                                                  *)
(***************************************************************************)
\* Device::isDefaultView
IsDefaultView(v) ==
  \A a \in DOMAIN v.strides : v.type.shape[a] = 1 \/ v.strides[a] = Strides(v.type.shape)[a]

\* Mutant: the reshaped view begins at the start of the buffer.
AliasReshape_FromStart(type, v) == View(type, "contiguous", v.buffer, Strides(type.shape), 0)

AliasReshape(type, v) == View(type, "contiguous", v.buffer, Strides(type.shape), v.offset)
AliasSlice(type, op, v) ==
  LET taken == {a \in DOMAIN op.kinds : op.kinds[a] = 1}
      Index(a) == IF op.indices[a] < 0 THEN op.indices[a] + v.type.shape[a] ELSE op.indices[a]
  IN View(type, "strided", v.buffer, Without(v.strides, taken),
          v.offset + MapThenSumSet(LAMBDA a : Index(a) * v.strides[a], taken))
Alias(type, op, v) ==
  CASE op.op = "reshape" -> AliasReshape(type, v)
    [] op.op = "slice" -> AliasSlice(type, op, v)
    [] op.op = "transpose" -> View(type, "strided", v.buffer, Transposed(v.strides), v.offset)
    [] op.op = "permute" -> View(type, "strided", v.buffer, Permuted(v.strides, op.dims), v.offset)

\* A reshape of a strided value copies (lower_layout), and so does a layout
\* that is asked to (LayoutTransformMode::Materialize).
Copies(op) == op.op \in {"transpose", "permute"} /\ "mode" \in DOMAIN op
Aliases(op, v) ==
  \/ op.op \in {"slice", "transpose", "permute"} /\ ~Copies(op)
  \/ op.op = "reshape" /\ v.layout = "contiguous"

-----------------------------------------------------------------------------
(***************************************************************************)
(* Kernels.                                                                *)
(***************************************************************************)
From(xs, i) == SubSeq(xs, i, Len(xs))   \* operands that may be missing
RotaryDim(op) == IF op.rotary = 0 THEN -1 ELSE op.rotary

\* The dispatch of CpuDevice::run: what works row by row, and the rest.
RowKernel(op, xs, result) ==
  CASE op.op = "embedding" -> Embedding(xs[1], xs[2])
    [] op.op = "rope" -> RoPE(xs[1], From(xs, 2), RotaryDim(op), op.splitHalf)
    [] op.op \in {"rms_norm", "layer_norm"} -> Norm(op.op, xs[1], Tail(xs))
    [] op.op = "moe_gather" -> MoeGather(xs[1], xs[2], xs[3], op.numExperts, op.topK)
    [] op.op = "moe_matmul" -> MoeMatMul(xs[1], xs[2], xs[3], op.transRhs)
    [] op.op = "moe_scatter_sum" -> MoeScatterSum(xs[1], xs[2], xs[3], result.shape)

Kernel(op, xs, result, cublas) ==
  CASE op.op \in Elementwise1 \cup {"relu"} -> UnaryElementwise(op.op, xs[1])
    [] op.op \in Elementwise2 -> BinaryElementwise(op.op, xs[1], xs[2])
    [] op.op = "linear" -> Linear(xs[1], xs[2], xs[3])
    [] op.op = "matmul" -> IF cublas THEN MatMulCublas(xs[1], xs[2], op.transLhs, op.transRhs)
                                     ELSE MatMul(xs[1], xs[2], op.transLhs, op.transRhs)
    \* numbers that are not floating-point are not stored
    [] op.op = "reshape" -> IF result.dtype \in FloatCompute THEN Reshape(xs[1]) ELSE <<{}>>
    [] op.op = "transpose" -> Transpose(xs[1])
    [] op.op = "permute" -> Permute(xs[1], op.dims)
    [] op.op = "score" -> Score(xs[1], xs[2], From(xs, 3), op.window)
    [] op.op = "attention" -> Attention(xs[1], xs[2], xs[3], From(xs, 4), op.window)
    [] op.op = "softmax" -> SoftmaxKernel(xs[1], op.dim)
    [] op.op = "topk" -> TopK(xs[1], op.k, op.dim)
    [] op.op = "sum" -> SumKernel(xs[1], op.dim)
    [] OTHER -> RowKernel(op, xs, result)

\* What the operation means: a tensor per result.
Algebra(op, ts) ==
  CASE op.op \in Elementwise1 \cup Elementwise2 \cup {"relu"} -> <<Map(op.op, ts)>>
    [] op.op = "linear" -> <<Affine(ts[1], ts[2], ts[3])>>
    [] op.op = "matmul" -> <<Multiply(Flipped(ts[1], op.transLhs), Flipped(ts[2], op.transRhs))>>
    [] op.op = "slice" -> <<SliceView(ts[1], op.kinds, op.indices)>>
    [] op.op = "transpose" -> <<TransposeView(ts[1])>>
    [] op.op = "permute" -> <<PermuteView(ts[1], op.dims)>>
    [] op.op = "reshape" -> <<ReshapeView(ts[1], InferReshapeShape(ts[1].shape, op.shape))>>
    [] op.op = "score" -> <<Scores(ts[1], ts[2], From(ts, 3), op.window)>>
    [] op.op = "attention" -> <<Attended(ts[1], ts[2], ts[3], From(ts, 4), op.window)>>
    [] op.op = "softmax" -> <<SoftmaxAlong(ts[1], Axis(op.dim, Len(ts[1].shape)))>>
    [] op.op = "topk" -> [i \in 1..2 |-> BestAlong(ts[1], Axis(op.dim, Len(ts[1].shape)), op.k, 3 - i)]
    [] op.op = "sum" -> <<SumAlong(ts[1], Axis(op.dim, Len(ts[1].shape)), op.keepDims)>>
    [] op.op = "embedding" -> <<Looked(ts[1], ts[2])>>
    [] op.op = "rope" -> <<Rotated(ts[1], From(ts, 2), RotaryDim(op), op.splitHalf)>>
    [] op.op \in {"rms_norm", "layer_norm"} -> <<Normalised(op.op, ts[1], Tail(ts))>>
    [] op.op = "moe_gather" -> GatheredRows(ts[1], ts[2], ts[3], op.numExperts)
    [] op.op = "moe_matmul" -> <<MultiplyByExpert(ts[1], ts[2], ts[3], op.transRhs)>>
    [] op.op = "moe_scatter_sum" -> <<AddedUp(ts[1], ts[2], ts[3], ts[4].shape)>>

\* A new buffer after the writes, a view of which begins at pad.
Filler(type, what) == IF type.dtype \in IndexTypes THEN 99 ELSE <<what>>
Written(type, pad, writes) ==
  LET Given(i) == {w.value : w \in {w \in writes : w.at = i - 1 - pad}}
      Element(given) == CASE given = {} -> Filler(type, "stale")
                          [] Cardinality(given) = 1 -> CHOOSE e \in given : TRUE
                          [] OTHER -> Filler(type, "conflict")
  IN <<>> \o [i \in 1..(pad + Product(type.shape)) |-> Element(Given(i))]

-----------------------------------------------------------------------------
AddLeaf(s, leaf) ==
  [buffers |-> Append(s.buffers, leaf.data),
   values |-> Append(s.values, View(leaf.type, "contiguous", Len(s.buffers) + 1, Strides(leaf.type.shape), 0)),
   meaning |-> Append(s.meaning,
     [tensor |-> Make(leaf.type.shape, LAMBDA c : leaf.data[Dot(c, Strides(leaf.type.shape)) + 1]),
      op |-> [op |-> "load"], operands |-> <<>>])]

\* Inputs and weights are loaded.
Init ==
  /\ work \in Workloads
  /\ LET loaded == FoldLeft(AddLeaf, [buffers |-> <<>>, values |-> <<>>, meaning |-> <<>>], work.leaves)
     IN buffers = loaded.buffers /\ values = loaded.values /\ meaning = loaded.meaning
  /\ failed = FALSE
  /\ PagesInit

Mean(op, operands) ==
  LET Meant(results) ==
        meaning \o [r \in DOMAIN results |-> [tensor |-> results[r], op |-> op, operands |-> operands]]
  IN Meant(Algebra(op, [i \in DOMAIN operands |-> OperandTensor(operands[i])]))

CanRun(op, operands) ==
  /\ ~failed /\ Len(values) < Len(work.leaves) + work.steps
  /\ Accepts(op, [i \in DOMAIN operands |-> TypeOf(operands[i])])

\* execute_alias; a reshape wants the view of a whole buffer.
ExecuteAlias(op, x) ==
  /\ ~IsPaged(x) /\ CanRun(op, <<x>>) /\ Aliases(op, values[x])
  /\ IF op.op = "reshape" /\ ~IsDefaultView(values[x])
     THEN failed' = TRUE /\ UNCHANGED <<values, meaning>>
     ELSE /\ values' = Append(values, Alias(Infer(op, <<TypeOf(x)>>)[1], op, values[x]))
          /\ meaning' = Mean(op, <<x>>)
          /\ UNCHANGED failed
  /\ UNCHANGED <<work, buffers, pagesVars>>

\* What a kernel gives: buffers with views of them, or an error.
Store(op, operands, types, writes, pad) ==
  IF writes = Error \/ \E x \in ToSet(operands) : ~RequireBytes(OperandRef(x))
  THEN failed' = TRUE /\ UNCHANGED <<buffers, values, meaning>>
  ELSE /\ buffers' = buffers \o [r \in DOMAIN types |-> Written(types[r], pad, writes[r])]
       /\ values' = values \o [r \in DOMAIN types |->
            View(types[r], "contiguous", Len(buffers) + r, Strides(types[r].shape), pad)]
       /\ meaning' = Mean(op, operands)
       /\ UNCHANGED failed

\* CpuDevice::run
Launch(op, operands, pad, cublas) ==
  LET xs == [i \in DOMAIN operands |-> OperandRef(operands[i])]
      Run(types) == Store(op, operands, types, Kernel(op, xs, types[1], cublas), pad)
  IN /\ CanRun(op, operands)
     /\ Len(operands) = 1 => IsPaged(operands[1]) \/ ~Aliases(op, values[operands[1]])
     /\ cublas => op.op = "matmul" /\ pad = 0 /\ CanUseCublas(xs[1], xs[2], op.transLhs, op.transRhs)
     /\ Run(Infer(op, [i \in DOMAIN operands |-> TypeOf(operands[i])]))
     /\ UNCHANGED <<work, pagesVars>>

Operands == DOMAIN values \cup {-t : t \in {t \in Live : tensors[t].length > 0}}
\* Operands for an entry of the catalogue: for each, one of its picks.
Picks(picks) ==
  FoldLeft(LAMBDA some, pick : {Append(operands, x) : operands \in some, x \in pick}, {<<>>},
           [i \in DOMAIN picks |-> {x \in Operands : IF IsPaged(x) THEN 0 \in picks[i] ELSE x \in picks[i]}])

Next ==
  \/ \E entry \in work.catalogue : \E operands \in Picks(entry.picks) :
       \/ Len(operands) = 1 /\ ExecuteAlias(entry.attrs, operands[1])
       \/ \E pad \in {0, 1}, cublas \in BOOLEAN : Launch(entry.attrs, operands, pad, cublas)
  \* (a kernel copies what it reads: pages that change later do not matter)
  \/ Len(values) = Len(work.leaves) /\ PagesNext(work.pools) /\ UNCHANGED deviceVars

Spec == Init /\ [][Next]_vars

-----------------------------------------------------------------------------
ReadBack(v) ==
  LET x == ViewRef(values[v])
  IN [c \in CoordSet(x.shape) |-> Load(x, Dot(c, Strides(x.shape)))]

\* Whatever the chain of views, copies and kernels, each value read through its
\* view is what the operations mean on whole tensors, and no operation the
\* compiler accepts is refused here.
ReadsMean ==
  /\ ~failed
  /\ \A v \in DOMAIN values : /\ values[v].type.shape = meaning[v].tensor.shape
                              /\ RequireBytes(ViewRef(values[v]))
                              /\ ReadBack(v) = meaning[v].tensor.el

\* Gathering the rows of a batch by expert, multiplying each by its expert and
\* scattering the sums gives every token the weighted sum of its own experts.
ExpertsMixed ==
  \A v \in DOMAIN meaning : meaning[v].op.op = "moe_scatter_sum" =>
    LET scatter == meaning[v].operands
        product == meaning[scatter[1]]
        rows == product.operands[1]
        gather == meaning[rows].operands
        El(i) == meaning[gather[i]].tensor.el
        weight == meaning[product.operands[3]].tensor
        x == meaning[gather[1]].tensor
        slots == All(End(meaning[gather[2]].tensor.shape, 1))
        Slot(c, slot) == Front2(c) \o <<End(c, 2), slot>>
        W(expert, o, i) == weight.el[IF product.op.transRhs THEN <<expert, o, i>> ELSE <<expert, i, o>>]
        Output(c, expert) ==
          SumOfProducts({<<i, x.el[Replaced(c, Len(c), i)], W(expert, End(c, 1), i)>> : i \in All(End(x.shape, 1))})
        Routed(c) == {<<0, El(3)[Slot(c, slot)], Output(c, El(2)[Slot(c, slot)])>> : slot \in slots}
    IN /\ product.op.op = "moe_matmul" /\ meaning[rows].op.op = "moe_gather"
       /\ scatter[2] = rows + 1 /\ scatter[3] = rows + 2 /\ product.operands[2] = rows + 3
       => \A c \in CoordSet(values[v].type.shape) : ReadBack(v)[c] = SumOfProducts(Routed(c))
=============================================================================
