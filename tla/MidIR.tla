------------------------------- MODULE MidIR --------------------------------
(***************************************************************************)
(* The middle IR (src/ir/MidIR.cpp): its operations, what each accepts and *)
(* which types it gives its results; and its graph, with what builds and   *)
(* rewrites it.  An operation is a record                                  *)
(*   [op |-> kind, dtype |-> "none" or the "dtype" attribute, ...]         *)
(* with the attributes of its kind under their own names; its operands are *)
(* a sequence of value types.  Scales, epsilons and theta are left out.    *)
(***************************************************************************)
EXTENDS Shapes, TLC

\* (Concatenation makes TLC evaluate the shape here, once.)
Tensor(shape, dtype) ==
  [kind |-> "tensor", shape |-> <<>> \o shape, dtype |-> dtype, grow |-> -1, untyped |-> FALSE]
PagedTensor(shape, dtype, grow) ==
  [kind |-> "paged", shape |-> shape, dtype |-> dtype, grow |-> grow, untyped |-> FALSE]
\* A literal of the source, which takes the type of what it meets.
UntypedConstant ==
  [kind |-> "tensor", shape |-> <<>>, dtype |-> "f32", grow |-> -1, untyped |-> TRUE]

FloatCompute == {"f32", "bf16"}
IndexTypes == {"i32", "i64"}

Elementwise1 == {"sqrt", "tanh"}
Elementwise2 == {"add", "mul", "div"}

\* The operands among data whose type counts, and the result's type.
Typed(xs, data) == {i \in data \cap DOMAIN xs : ~xs[i].untyped}
ResultDtypeOK(op, xs, data) ==
  op.dtype # "none" \/ Cardinality({xs[i].dtype : i \in Typed(xs, data)}) <= 1
ResultDtype(op, xs, data) ==
  CASE op.dtype # "none" -> op.dtype
    [] Typed(xs, data) # {} -> xs[Min(Typed(xs, data))].dtype
    [] data \cap DOMAIN xs # {} -> xs[Min(data \cap DOMAIN xs)].dtype
    [] OTHER -> "f32"

Floats(xs, which) == \A i \in which : xs[i].dtype \in FloatCompute
DimR(x, k) == x.shape[Len(x.shape) + 1 - k]
Rank(x) == Len(x.shape)
Batch(x) == SubSeq(x.shape, 1, Rank(x) - 2)

-----------------------------------------------------------------------------
(***************************************************************************)
(* What each kind accepts: OpDef::verify.  The builder aborts otherwise.   *)
(***************************************************************************)
AcceptsReLU(op, xs) == Len(xs) = 1 /\ ResultDtypeOK(op, xs, {1})
AcceptsLinear(op, xs) == Len(xs) = 3 /\ ResultDtypeOK(op, xs, 1..3)
AcceptsElementwise2(op, xs) ==
  /\ Len(xs) = 2 /\ ResultDtypeOK(op, xs, 1..2)
  /\ BroadcastShape(xs[1].shape, xs[2].shape) # NoShape
AcceptsElementwise1(op, xs) == Len(xs) = 1 /\ Floats(xs, {1}) /\ ResultDtypeOK(op, xs, {1})

AcceptsMatMul(op, xs) ==
  /\ Len(xs) = 2 /\ ResultDtypeOK(op, xs, 1..2)
  /\ Rank(xs[1]) >= 2 /\ Rank(xs[2]) >= 2
  /\ Agree(DimR(xs[1], IF op.transLhs THEN 2 ELSE 1), DimR(xs[2], IF op.transRhs THEN 1 ELSE 2))
  /\ MatMulBatchShape(Batch(xs[1]), Batch(xs[2])) # NoShape

AcceptsTranspose(op, xs) == Len(xs) = 1 /\ Rank(xs[1]) = 2
AcceptsReshape(op, xs) == Len(xs) = 1 /\ InferReshapeShape(xs[1].shape, op.shape) # NoShape
AcceptsPermute(op, xs) ==
  /\ Len(xs) = 1 /\ Len(op.dims) = Rank(xs[1])
  /\ ToSet(op.dims) = 0..(Rank(xs[1]) - 1)

AcceptsSlice(op, xs) ==
  /\ Len(xs) = 1 /\ xs[1].kind = "tensor"
  /\ Len(op.kinds) = Len(op.indices) /\ Len(op.kinds) = Rank(xs[1])
  /\ \A a \in DOMAIN op.kinds :
       /\ op.kinds[a] \in {0, 1}
       /\ op.kinds[a] = 1 /\ xs[1].shape[a] >= 0 => AxisInRange(op.indices[a], xs[1].shape[a])

HeadsDivide(q, kv) == q >= 0 /\ kv >= 0 => q > 0 /\ kv > 0 /\ q % kv = 0

AcceptsScore(op, xs) ==
  LET q == xs[1] k == xs[2]
  IN /\ Len(xs) \in {2, 3}
     /\ Floats(xs, {1, 2}) /\ ResultDtypeOK(op, xs, 1..2)
     /\ Len(xs) = 3 => xs[3].dtype \in IndexTypes
     /\ Rank(q) \in {3, 4} /\ Rank(k) = Rank(q)
     /\ op.window >= 0
     /\ Rank(q) = 4 => Agree(q.shape[1], k.shape[1])
     /\ Agree(DimR(q, 1), DimR(k, 1))
     /\ HeadsDivide(DimR(q, 3), DimR(k, 3))

AcceptsAttention(op, xs) ==
  LET q == xs[1] k == xs[2] v == xs[3]
  IN /\ Len(xs) \in {3, 4}
     /\ Floats(xs, 1..3) /\ ResultDtypeOK(op, xs, 1..3)
     /\ Rank(q) \in {3, 4} /\ Rank(k) = Rank(q) /\ Rank(v) = Rank(q)
     /\ Rank(q) = 4 => Agree(q.shape[1], k.shape[1]) /\ Agree(q.shape[1], v.shape[1])
     /\ \A x \in {q, k, v} : DimR(x, 3) # 0
     /\ Agree(DimR(k, 3), DimR(v, 3)) /\ Agree(DimR(k, 2), DimR(v, 2))
     /\ Agree(DimR(q, 1), DimR(k, 1)) /\ Agree(DimR(q, 1), DimR(v, 1))
     /\ HeadsDivide(DimR(q, 3), DimR(k, 3))
     /\ Len(xs) = 4 =>
          /\ xs[4].dtype \in IndexTypes
          /\ IF Rank(q) = 4 THEN Rank(xs[4]) = 1 /\ Agree(q.shape[1], xs[4].shape[1])
             ELSE Agree(Numel(xs[4].shape), 1)
     /\ op.window >= 0

AxisOK(op, x) == Rank(x) >= 1 /\ AxisInRange(op.dim, Rank(x))
AcceptsSoftmax(op, xs) ==
  Len(xs) = 1 /\ Floats(xs, {1}) /\ ResultDtypeOK(op, xs, {1}) /\ AxisOK(op, xs[1])
AcceptsSum(op, xs) == AcceptsSoftmax(op, xs)
AcceptsTopK(op, xs) ==
  /\ AcceptsSoftmax(op, xs) /\ op.k > 0
  /\ LET axisDim == xs[1].shape[Axis(op.dim, Rank(xs[1]))] IN axisDim >= 0 => op.k <= axisDim

AcceptsMoeGather(op, xs) ==
  LET rank == Rank(xs[1])
  IN /\ Len(xs) = 3
     /\ rank \in {2, 3} /\ Rank(xs[2]) = rank /\ Rank(xs[3]) = rank
     /\ xs[2].dtype \in IndexTypes /\ Floats(xs, {1, 3})
     /\ op.numExperts > 0 /\ op.topK > 0
     /\ \A a \in 1..(rank - 1) : /\ Agree(xs[1].shape[a], xs[2].shape[a])
                                 /\ Agree(xs[1].shape[a], xs[3].shape[a])
     /\ Agree(xs[2].shape[rank], op.topK) /\ Agree(xs[3].shape[rank], op.topK)

AcceptsMoeMatMul(op, xs) ==
  LET x == xs[1] offsets == xs[2] w == xs[3]
  IN /\ Len(xs) = 3
     /\ Rank(x) \in {2, 3} /\ Rank(offsets) = Rank(x) - 1 /\ Rank(w) = 3
     /\ Floats(xs, {1, 3}) /\ ResultDtypeOK(op, xs, {1, 3})
     /\ offsets.dtype \in IndexTypes
     /\ Agree(DimR(x, 1), w.shape[IF op.transRhs THEN 3 ELSE 2])
     /\ Rank(x) = 3 => Agree(x.shape[1], offsets.shape[1])
     /\ w.shape[1] >= 0 => Agree(DimR(offsets, 1), w.shape[1] + 1)

AcceptsMoeScatterSum(op, xs) ==
  LET packed == xs[1] rank == Rank(packed)
  IN /\ Len(xs) = 4
     /\ rank \in {2, 3} /\ Rank(xs[4]) = rank
     /\ Rank(xs[2]) = rank - 1 /\ Rank(xs[3]) = rank - 1
     /\ Floats(xs, {1, 2, 4}) /\ ResultDtypeOK(op, xs, {1, 2, 4})
     /\ xs[3].dtype \in IndexTypes
     /\ rank = 3 => \A i \in {2, 3, 4} : Agree(packed.shape[1], xs[i].shape[1])
     /\ \A i \in {2, 3} : Agree(DimR(packed, 2), DimR(xs[i], 1))
     /\ Agree(DimR(packed, 1), DimR(xs[4], 1))

AcceptsPagedAppend(op, xs) ==
  LET cache == xs[1] chunk == xs[2]
  IN /\ Len(xs) = 2
     /\ cache.kind = "paged" /\ chunk.kind = "tensor"
     /\ cache.dtype = chunk.dtype /\ Rank(cache) = Rank(chunk)
     /\ cache.grow \in 0..(Rank(cache) - 1)
     /\ \A i \in DOMAIN cache.shape \ {cache.grow + 1} : Agree(cache.shape[i], chunk.shape[i])
     /\ chunk.shape[cache.grow + 1] # 0

AcceptsEmbedding(op, xs) ==
  /\ Len(xs) = 2
  /\ xs[1].dtype \in IndexTypes /\ Floats(xs, {2}) /\ ResultDtypeOK(op, xs, {2})
  /\ Rank(xs[2]) \in {1, 2}

AcceptsRoPE(op, xs) ==
  LET dim == DimR(xs[1], 1)
  IN /\ Len(xs) \in {1, 2}
     /\ xs[1].dtype \in {"f32", "f16", "bf16"}
     /\ Rank(xs[1]) >= 2
     /\ ResultDtypeOK(op, xs, {1})
     /\ Len(xs) = 2 => xs[2].dtype \in IndexTypes
     /\ dim >= 0 => dim > 0 /\ dim % 2 = 0
     /\ op.rotary # 0 => /\ op.rotary > 0 /\ op.rotary % 2 = 0
                         /\ dim >= 0 => op.rotary <= dim

AcceptsRMSNorm(op, xs) ==
  /\ Len(xs) \in {1, 2} /\ Rank(xs[1]) >= 1 /\ ResultDtypeOK(op, xs, 1..2)
  /\ Len(xs) = 2 => Rank(xs[2]) = 1 /\ Agree(DimR(xs[1], 1), xs[2].shape[1])

AcceptsLayerNorm(op, xs) ==
  /\ Len(xs) = 3 /\ Rank(xs[1]) >= 1
  /\ Floats(xs, 1..3) /\ ResultDtypeOK(op, xs, 1..3)
  /\ \A i \in {2, 3} : Rank(xs[i]) = 1 /\ Agree(DimR(xs[1], 1), xs[i].shape[1])

Accepts(op, xs) ==
  CASE op.op = "relu" -> AcceptsReLU(op, xs)
    [] op.op = "linear" -> AcceptsLinear(op, xs)
    [] op.op \in Elementwise2 -> AcceptsElementwise2(op, xs)
    [] op.op \in Elementwise1 -> AcceptsElementwise1(op, xs)
    [] op.op = "matmul" -> AcceptsMatMul(op, xs)
    [] op.op = "transpose" -> AcceptsTranspose(op, xs)
    [] op.op = "reshape" -> AcceptsReshape(op, xs)
    [] op.op = "permute" -> AcceptsPermute(op, xs)
    [] op.op = "slice" -> AcceptsSlice(op, xs)
    [] op.op = "score" -> AcceptsScore(op, xs)
    [] op.op = "attention" -> AcceptsAttention(op, xs)
    [] op.op = "softmax" -> AcceptsSoftmax(op, xs)
    [] op.op = "topk" -> AcceptsTopK(op, xs)
    [] op.op = "sum" -> AcceptsSum(op, xs)
    [] op.op = "moe_gather" -> AcceptsMoeGather(op, xs)
    [] op.op = "moe_matmul" -> AcceptsMoeMatMul(op, xs)
    [] op.op = "moe_scatter_sum" -> AcceptsMoeScatterSum(op, xs)
    [] op.op = "paged_append" -> AcceptsPagedAppend(op, xs)
    [] op.op = "embedding" -> AcceptsEmbedding(op, xs)
    [] op.op = "rope" -> AcceptsRoPE(op, xs)
    [] op.op = "rms_norm" -> AcceptsRMSNorm(op, xs)
    [] op.op = "layer_norm" -> AcceptsLayerNorm(op, xs)

-----------------------------------------------------------------------------
(***************************************************************************)
(* The types of the results: OpDef::infer_types, for accepted operands.    *)
(***************************************************************************)
Same(op, xs, data) == <<Tensor(xs[1].shape, ResultDtype(op, xs, data))>>

InferLinear(op, xs) ==
  <<Tensor([xs[1].shape EXCEPT ![Rank(xs[1])] = xs[2].shape[1]], ResultDtype(op, xs, 1..3))>>
InferElementwise2(op, xs) ==
  <<Tensor(BroadcastShape(xs[1].shape, xs[2].shape), ResultDtype(op, xs, 1..2))>>
InferMatMul(op, xs) ==
  <<Tensor(MatMulBatchShape(Batch(xs[1]), Batch(xs[2]))
             \o << DimR(xs[1], IF op.transLhs THEN 1 ELSE 2),
                   DimR(xs[2], IF op.transRhs THEN 2 ELSE 1) >>,
           ResultDtype(op, xs, 1..2))>>
InferTranspose(op, xs) == <<Tensor(Transposed(xs[1].shape), xs[1].dtype)>>
InferReshape(op, xs) == <<Tensor(InferReshapeShape(xs[1].shape, op.shape), xs[1].dtype)>>
InferPermute(op, xs) == <<Tensor(Permuted(xs[1].shape, op.dims), xs[1].dtype)>>
InferSlice(op, xs) ==
  <<Tensor(Without(xs[1].shape, {a \in DOMAIN op.kinds : op.kinds[a] # 0}), xs[1].dtype)>>
InferScore(op, xs) ==
  LET q == xs[1].shape
  IN <<Tensor(SubSeq(q, 1, Len(q) - 1) \o <<DimR(xs[2], 2)>>, ResultDtype(op, xs, 1..2))>>
InferTopK(op, xs) ==
  LET shape == [xs[1].shape EXCEPT ![Axis(op.dim, Rank(xs[1]))] = op.k]
  IN <<Tensor(shape, ResultDtype(op, xs, {1})), Tensor(shape, "i64")>>
InferSum(op, xs) ==
  LET axis == Axis(op.dim, Rank(xs[1]))
  IN <<Tensor(IF op.keepDims THEN [xs[1].shape EXCEPT ![axis] = 1] ELSE Without(xs[1].shape, {axis}),
              ResultDtype(op, xs, {1}))>>
InferMoeGather(op, xs) ==
  LET lead == SubSeq(xs[1].shape, 1, Rank(xs[1]) - 2)
      seq == DimR(xs[1], 2)
      rows == IF seq >= 0 THEN seq * op.topK ELSE Dynamic
  IN << Tensor(lead \o <<rows, DimR(xs[1], 1)>>, xs[1].dtype),
        Tensor(lead \o <<rows>>, xs[3].dtype),
        Tensor(lead \o <<rows>>, "i64"),
        Tensor(lead \o <<op.numExperts + 1>>, "i64") >>
InferMoeMatMul(op, xs) ==
  <<Tensor([xs[1].shape EXCEPT ![Rank(xs[1])] = xs[3].shape[IF op.transRhs THEN 2 ELSE 3]],
           ResultDtype(op, xs, {1, 3}))>>
InferMoeScatterSum(op, xs) == <<Tensor(xs[4].shape, ResultDtype(op, xs, {1, 2, 4}))>>
InferEmbedding(op, xs) ==
  <<Tensor(xs[1].shape \o (IF Rank(xs[2]) = 2 THEN <<xs[2].shape[2]>> ELSE <<>>),
           ResultDtype(op, xs, {2}))>>

Infer(op, xs) ==
  CASE op.op = "linear" -> InferLinear(op, xs)
    [] op.op \in Elementwise2 -> InferElementwise2(op, xs)
    [] op.op = "matmul" -> InferMatMul(op, xs)
    [] op.op = "transpose" -> InferTranspose(op, xs)
    [] op.op = "reshape" -> InferReshape(op, xs)
    [] op.op = "permute" -> InferPermute(op, xs)
    [] op.op = "slice" -> InferSlice(op, xs)
    [] op.op = "score" -> InferScore(op, xs)
    [] op.op = "attention" -> Same(op, xs, 1..3)
    [] op.op = "topk" -> InferTopK(op, xs)
    [] op.op = "sum" -> InferSum(op, xs)
    [] op.op = "moe_gather" -> InferMoeGather(op, xs)
    [] op.op = "moe_matmul" -> InferMoeMatMul(op, xs)
    [] op.op = "moe_scatter_sum" -> InferMoeScatterSum(op, xs)
    [] op.op = "paged_append" -> <<>>
    [] op.op = "embedding" -> InferEmbedding(op, xs)
    [] op.op \in {"rms_norm"} -> Same(op, xs, 1..2)
    [] op.op = "layer_norm" -> Same(op, xs, 1..3)
    [] OTHER -> Same(op, xs, {1})
-----------------------------------------------------------------------------
(***************************************************************************)
(* The graph (Graph and Builder), the builtins that expand into several    *)
(* operations (src/ir/BuiltinLowering.cpp) and the passes that rewrite it  *)
(* (src/ir/MidIRPass.cpp).  A graph is                                     *)
(*   op      every operation made: [attrs, operands, results]              *)
(*   ops     those still in the block, in order                            *)
(*   value   [type, def, uses], uses being pairs <<operation, operand>>    *)
(*   outputs the values returned                                           *)
(***************************************************************************)

EmptyGraph == [op |-> <<>>, ops |-> <<>>, value |-> <<>>, outputs |-> <<>>]

TypesOf(g, operands) == [i \in DOMAIN operands |-> g.value[operands[i]].type]
IsOutput(g, v) == v \in ToSet(g.outputs)
InBlock(g, o) == o \in ToSet(g.ops)

-----------------------------------------------------------------------------
\* A new operation at the end of the block, with results of the given types.
Emit(g, attrs, operands, types) ==
  LET o == Len(g.op) + 1
      Use(h, i) == [h EXCEPT !.value[operands[i]].uses = @ \cup {<<o, i>>}]
      Result(h, type) == [h EXCEPT !.value = Append(@, [type |-> type, def |-> o, uses |-> {}])]
      added == [g EXCEPT !.op = Append(@, [attrs |-> attrs, operands |-> operands,
                                           results |-> [i \in DOMAIN types |-> Len(g.value) + i]]),
                         !.ops = Append(@, o)]
  IN FoldLeft(Result, FoldLeft(Use, added, [i \in DOMAIN operands |-> i]), types)

CanCreate(g, attrs, operands) == Accepts(attrs, TypesOf(g, operands))
CreateOp(g, attrs, operands) == Emit(g, attrs, operands, Infer(attrs, TypesOf(g, operands)))

\* Inputs, weights and constants have a type of their own; a tuple has its elements'.
CreateLeaf(g, attrs, type) == Emit(g, attrs, <<>>, <<type>>)
CreateConstant(g, number) ==
  CreateLeaf(g, [op |-> "constant", number |-> number], UntypedConstant)
CreateTuple(g, elements) ==
  Emit(g, [op |-> "tuple"], elements,
       <<[kind |-> "tuple", elements |-> TypesOf(g, elements)]>>)

Newest(g) == Len(g.value)
Plain(kind) == [op |-> kind, dtype |-> "none"]

-----------------------------------------------------------------------------
(***************************************************************************)
(* Builtins that are several operations.  A step applies one operation to  *)
(* operands that are -1, -2, ... for the builtin's own operands and 1, 2,  *)
(* ... for the results of its earlier steps.                               *)
(***************************************************************************)
Expand(g, steps, operands) ==
  LET Place(h, x) == IF x < 0 THEN operands[-x] ELSE Newest(g) + x
      Step(h, s) == IF s.op = "constant" THEN CreateConstant(h, s.number)
                    ELSE CreateOp(h, Plain(s.op), [i \in DOMAIN s.on |-> Place(h, s.on[i])])
  IN FoldLeft(Step, g, steps)

Const(number) == [op |-> "constant", number |-> number]
On(kind, operands) == [op |-> kind, on |-> operands]

\* 0.5 * x * (1 + tanh(sqrt(2 / pi) * (x + 0.044715 * x^3)))
Gelu == << Const("0.5"), Const("1"), Const("0.044715"), Const("sqrt(2/pi)"),
           On("mul", <<-1, -1>>), On("mul", <<5, -1>>), On("mul", <<3, 6>>),
           On("add", <<-1, 7>>), On("mul", <<4, 8>>), On("tanh", <<9>>),
           On("add", <<2, 10>>), On("mul", <<1, -1>>), On("mul", <<12, 11>>) >>
\* 0.5 * x * (1 + tanh(0.5 * x)), computing 0.5 * x once
Silu == << Const("0.5"), Const("1"), On("mul", <<1, -1>>), On("tanh", <<3>>),
           On("add", <<2, 4>>), On("mul", <<3, 5>>) >>
\* cap * tanh(x / cap)
Softcap == << Const("cap"), Const("1/cap"), On("mul", <<-1, 2>>), On("tanh", <<3>>),
              On("mul", <<4, 1>>) >>

Composite == [gelu |-> Gelu, silu |-> Silu, softcap |-> Softcap]

-----------------------------------------------------------------------------
\* Mutant: the value that was read keeps its use.
ReplaceOperand_KeepsUse(g, o, i, new) ==
  [g EXCEPT !.value[new].uses = @ \cup {<<o, i>>}, !.op[o].operands[i] = new]

ReplaceOperand(g, o, i, new) ==
  LET old == g.op[o].operands[i]
  IN IF old = new THEN g
     ELSE [g EXCEPT !.value[old].uses = @ \ {<<o, i>>},
                    !.value[new].uses = @ \cup {<<o, i>>},
                    !.op[o].operands[i] = new]

\* Nothing happens to an operation that is gone or whose results are wanted.
Wanted(g, o) == \E v \in ToSet(g.op[o].results) : g.value[v].uses # {} \/ IsOutput(g, v)
EraseOp(g, o) ==
  LET operands == g.op[o].operands
      Drop(h, i) == [h EXCEPT !.value[operands[i]].uses = @ \ {<<o, i>>}]
      dropped == FoldLeft(Drop, g, [i \in DOMAIN operands |-> i])
  IN IF ~InBlock(g, o) \/ Wanted(g, o) THEN g
     ELSE [dropped EXCEPT !.ops = SelectSeq(@, LAMBDA p : p # o), !.op[o].operands = <<>>]

\* Mutant: the product reads the matrix the way it read its transpose.
FuseOperand_KeepsFlag(g, product, i) ==
  LET t == g.value[g.op[product].operands[i]].def
  IN IF g.op[t].attrs.op # "transpose" THEN g
     ELSE EraseOp(ReplaceOperand(g, product, i, g.op[t].operands[1]), t)

\* A product that reads a transpose reads what was transposed, the other way.
FuseOperand(g, product, i) ==
  LET v == g.op[product].operands[i]
      t == g.value[v].def
      flag == <<"transLhs", "transRhs">>[i]
      moved == [ReplaceOperand(g, product, i, g.op[t].operands[1])
                  EXCEPT !.op[product].attrs[flag] = ~@]
  IN IF g.op[t].attrs.op # "transpose" THEN g
     ELSE IF moved.value[v].uses = {} /\ ~IsOutput(moved, v) THEN EraseOp(moved, t)
     ELSE moved

FuseTransposes(g) ==
  FoldLeft(LAMBDA h, o : IF InBlock(h, o) /\ h.op[o].attrs.op = "matmul"
                         THEN FuseOperand(FuseOperand(h, o, 1), o, 2) ELSE h,
           g, g.ops)

HasSideEffects(attrs) == attrs.op = "paged_append"
Dead(g, o) == /\ ~HasSideEffects(g.op[o].attrs)
              /\ g.op[o].results # <<>>
              /\ ~Wanted(g, o)

\* One round of dead code elimination, from the last operation to the first.
SweepDead(g) ==
  FoldLeft(LAMBDA h, o : IF InBlock(h, o) /\ Dead(h, o) THEN EraseOp(h, o) ELSE h,
           g, Reverse(g.ops))
=============================================================================
