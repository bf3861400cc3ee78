------------------------------ MODULE Lowering ------------------------------
(***************************************************************************)
(* From the middle IR to kernels (src/ir/MidIRToKernelIR.cpp): which       *)
(* operations are fused, and the kernel each one becomes.  Options are     *)
(*   [attention, elementwise: BOOLEAN, maxInputs, maxScalars]              *)
(* where the last two limit one fused elementwise kernel.                  *)
(***************************************************************************)
EXTENDS KernelIR

Unary == {"relu"} \cup Elementwise1
Fusible == {"constant"} \cup Unary \cup Elementwise2
Layouts == {"reshape", "transpose", "permute", "slice"}

CanBroadcastTo(input, output) ==
  /\ input.kind = "tensor" /\ output.kind = "tensor"
  /\ BroadcastShape(input.shape, output.shape) = output.shape

Kind(g, o) == g.op[o].attrs.op
ResultType(g, o) == g.value[g.op[o].results[1]].type

-----------------------------------------------------------------------------
(***************************************************************************)
(* The fusion plan: the operations from the last to the first, each of     *)
(* which may become the root of a group.  An elementwise group takes in    *)
(* the producers that only it reads; a claimed operation is in one group.  *)
(***************************************************************************)
\* Mutant: a producer with other readers is taken in.
CanInline_Shared(g, claimed, v, out) ==
  LET producer == g.value[v].def
  IN /\ producer \notin claimed /\ Kind(g, producer) \in Fusible
     /\ CanBroadcastTo(g.value[v].type, out)

CanInline(g, claimed, v, out) ==
  LET producer == g.value[v].def
  IN /\ producer \notin claimed
     /\ Kind(g, producer) \in Fusible
     /\ Cardinality(g.value[v].uses) = 1 /\ ~IsOutput(g, v)
     /\ CanBroadcastTo(g.value[v].type, out)

\* What the group of a root computes, producers first, and what it reads: the
\* root takes in the producers it can, these take in theirs, and so on.
Collected(g, claimed, root) ==
  LET out == ResultType(g, root)
      Inlined(o) == {i \in DOMAIN g.op[o].operands : CanInline(g, claimed, g.op[o].operands[i], out)}
      Grow(members, o) ==
        IF o \in members THEN members \cup {g.value[g.op[o].operands[i]].def : i \in Inlined(o)}
        ELSE members
      members == FoldLeft(Grow, {root}, Reverse(g.ops))
      Read(inputs, o) ==
        LET New(some, v) == IF g.value[v].def \in members \/ v \in ToSet(some) THEN some
                            ELSE Append(some, v)
        IN FoldLeft(New, inputs, g.op[o].operands)
      ops == SelectSeq(g.ops, LAMBDA o : o \in members)
  IN [kind |-> "elementwise", root |-> root, ops |-> ops, inputs |-> FoldLeft(Read, <<>>, ops)]

Claimed(plan) == UNION {ToSet(plan[i].ops) : i \in DOMAIN plan}

FusionPlan(g, options) ==
  LET Extend(plan, group) ==
        IF /\ Len(group.inputs) <= options.maxInputs
           /\ Len(group.inputs) + Len(group.ops) <= options.maxScalars
        THEN Append(plan, group) ELSE plan
      Match(plan, o) ==
        CASE o \in Claimed(plan) -> plan
          [] options.attention /\ Kind(g, o) = "attention" ->
               Append(plan, [kind |-> "attention", root |-> o, ops |-> <<o>>,
                             inputs |-> g.op[o].operands])
          [] options.elementwise /\ Kind(g, o) \in Fusible ->
               Extend(plan, Collected(g, Claimed(plan), o))
          [] OTHER -> plan
  IN FoldLeft(Match, <<>>, Reverse(g.ops))

-----------------------------------------------------------------------------
(***************************************************************************)
(* A lowering under way: the kernel graph so far, the kernel value of each *)
(* middle value, and whether nothing has failed.                           *)
(***************************************************************************)
EmptyLowering == [ok |-> TRUE, graph |-> EmptyKernel, at |-> <<>>]

Failed(l) == [l EXCEPT !.ok = FALSE]
Mapped(l, vs) == ToSet(vs) \subseteq DOMAIN l.at
At(l, vs) == [i \in DOMAIN vs |-> l.at[vs[i]]]
\* Kernel values for the results of an operation.
AddResults(l, g, o) ==
  LET Add(m, v) == [m EXCEPT !.graph = AddValue(@, g.value[v].type),
                             !.at = (v :> Len(m.graph.value) + 1) @@ @]
  IN FoldLeft(Add, l, g.op[o].results)

\* One kernel with the operation's operands and results.
ToKernel(l, g, o, kernel) ==
  LET m == AddResults(l, g, o)
      ends == [inputs |-> At(m, g.op[o].operands), outputs |-> At(m, g.op[o].results)]
  IN IF ~Mapped(l, g.op[o].operands) THEN Failed(l)
     ELSE [m EXCEPT !.graph = AddOp(@, ends @@ kernel)]

Load(id, type, input) ==
  [id |-> id, op |-> "load", dtype |-> type.dtype, input |-> input, number |-> "0", operands |-> <<>>]
Compute(id, g, o, operands) ==
  [id |-> id, op |-> Kind(g, o), dtype |-> ResultType(g, o).dtype, input |-> 0,
   number |-> IF Kind(g, o) = "constant" THEN g.op[o].attrs.number ELSE "0", operands |-> operands]

\* An elementwise operation on its own: a load of each operand, then itself.
ElementwiseKernel(g, o) ==
  LET operands == g.op[o].operands
      n == Len(operands)
  IN [kind |-> "elementwise", result |-> n,
      scalars |-> [i \in 1..n |-> Load(i - 1, g.value[operands[i]].type, i)]
                    \o <<Compute(n, g, o, [i \in 1..n |-> i - 1])>>]

\* A reshape of a strided view copies; the other layouts are views.
LayoutKernel(l, g, o) ==
  LET attrs == g.op[o].attrs
      input == l.graph.value[l.at[g.op[o].operands[1]]]
  IN [kind |-> "layout", transform |-> attrs.op,
      dims |-> CASE attrs.op = "reshape" -> attrs.shape
                 [] attrs.op = "permute" -> attrs.dims
                 [] attrs.op = "slice" -> attrs.kinds
                 [] OTHER -> <<>>,
      indices |-> IF attrs.op = "slice" THEN attrs.indices ELSE <<>>,
      mode |-> IF attrs.op = "reshape" /\ input.layout # "contiguous" THEN "materialize" ELSE "alias"]

LowerLayout(l, g, o) ==
  LET m == ToKernel(l, g, o, LayoutKernel(l, g, o))
  IN IF ~Mapped(l, g.op[o].operands) THEN Failed(l)
     ELSE IF Kind(g, o) = "reshape" THEN m
     ELSE [m EXCEPT !.graph = SetLayout(@, m.at[g.op[o].results[1]], "strided")]

\* Attention as three kernels, with two values no operation of the source has.
LowerAttention(l, g, o) ==
  LET operands == g.op[o].operands
      q == g.value[operands[1]].type
      k == g.value[operands[2]].type
      score == Tensor(SubSeq(q.shape, 1, Rank(q) - 1) \o <<DimR(k, 2)>>, q.dtype)
      m == AddResults(l, g, o)
      x == At(m, operands)
      scores == Len(m.graph.value) + 1
      probs == scores + 1
      graph == AddValue(AddValue(m.graph, score), score)
      kernels == << [kind |-> "score", inputs |-> <<x[1], x[2]>> \o SubSeq(x, 4, Len(x)),
                     outputs |-> <<scores>>, window |-> g.op[o].attrs.window],
                    [kind |-> "softmax", inputs |-> <<scores>>, outputs |-> <<probs>>, axis |-> -1],
                    [kind |-> "matmul", inputs |-> <<probs, x[3]>>,
                     outputs |-> At(m, g.op[o].results), transLhs |-> FALSE, transRhs |-> FALSE] >>
  IN IF ~Mapped(l, operands) THEN Failed(l)
     ELSE [m EXCEPT !.graph = FoldLeft(AddOp, graph, kernels)]

\* The kernel of an operation that becomes one kernel of the same shape.
LeafKernel(attrs) == [kind |-> "input", source |-> attrs]
AxisKernel(attrs) ==
  CASE attrs.op = "softmax" -> [kind |-> "softmax", axis |-> attrs.dim]
    [] attrs.op = "topk" -> [kind |-> "topk", k |-> attrs.k, axis |-> attrs.dim]
    [] attrs.op = "sum" -> [kind |-> "reduction", axes |-> <<attrs.dim>>, keepDims |-> attrs.keepDims]
ExpertKernel(attrs) ==
  CASE attrs.op = "moe_gather" ->
         [kind |-> "moe_gather", numExperts |-> attrs.numExperts, topK |-> attrs.topK]
    [] attrs.op = "moe_matmul" -> [kind |-> "moe_matmul", transRhs |-> attrs.transRhs]
    [] attrs.op = "moe_scatter_sum" -> [kind |-> "moe_scatter_sum"]
PositionKernel(attrs) ==
  CASE attrs.op = "score" -> [kind |-> "score", window |-> attrs.window]
    [] attrs.op = "rope" -> [kind |-> "rope", rotary |-> attrs.rotary]

KernelFor(attrs) ==
  CASE attrs.op \in {"input", "paged_input", "weight"} -> LeafKernel(attrs)
    [] attrs.op \in {"softmax", "topk", "sum"} -> AxisKernel(attrs)
    [] attrs.op \in {"moe_gather", "moe_matmul", "moe_scatter_sum"} -> ExpertKernel(attrs)
    [] attrs.op \in {"score", "rope"} -> PositionKernel(attrs)
    [] attrs.op = "matmul" -> [kind |-> "matmul", transLhs |-> attrs.transLhs, transRhs |-> attrs.transRhs]
    [] attrs.op = "embedding" -> [kind |-> "gather"]
    \* tuple, linear, paged_append, rms_norm, layer_norm
    [] OTHER -> [kind |-> attrs.op]

LowerOp(l, g, o) ==
  CASE Kind(g, o) \in Fusible -> ToKernel(l, g, o, ElementwiseKernel(g, o))
    [] Kind(g, o) \in Layouts -> LowerLayout(l, g, o)
    [] Kind(g, o) = "attention" -> LowerAttention(l, g, o)
    [] OTHER -> ToKernel(l, g, o, KernelFor(g.op[o].attrs))

-----------------------------------------------------------------------------
\* One kernel for a group: a load of each input, then its operations in order.
LowerElementwiseGroup(l, g, group) ==
  LET n == Len(group.inputs)
      out == g.op[group.root].results
      m == AddResults(l, g, group.root)
      Loads == [i \in 1..n |-> Load(i - 1, g.value[group.inputs[i]].type, i)]
      inputAt == [v \in ToSet(group.inputs) |-> (CHOOSE i \in 1..n : group.inputs[i] = v) - 1]
      resultAt == [v \in {g.op[p].results[1] : p \in ToSet(group.ops)} |->
                     n + (CHOOSE i \in DOMAIN group.ops : g.op[group.ops[i]].results[1] = v) - 1]
      scalarAt == inputAt @@ resultAt
      Body == [i \in DOMAIN group.ops |->
                 LET o == group.ops[i]
                 IN Compute(n + i - 1, g, o,
                            [j \in DOMAIN g.op[o].operands |-> scalarAt[g.op[o].operands[j]]])]
  IN IF \/ \E v \in ToSet(group.inputs) : ~CanBroadcastTo(g.value[v].type, g.value[out[1]].type)
        \/ ~Mapped(l, group.inputs)
     THEN Failed(l)
     ELSE [m EXCEPT !.graph = AddOp(@, [kind |-> "elementwise", inputs |-> At(m, group.inputs),
                                        outputs |-> At(m, out), scalars |-> Loads \o Body,
                                        result |-> scalarAt[out[1]]])]

LowerGroup(l, g, group) ==
  IF group.kind = "elementwise" THEN LowerElementwiseGroup(l, g, group)
  ELSE ToKernel(l, g, group.root,
                [kind |-> "attention", window |-> g.op[group.root].attrs.window])

LowerStep(l, g, plan, o) ==
  LET groups == {plan[i] : i \in {j \in DOMAIN plan : plan[j].root = o}}
  IN CASE ~l.ok -> l
       [] groups # {} -> LowerGroup(l, g, CHOOSE group \in groups : TRUE)
       [] o \in Claimed(plan) -> l
       [] OTHER -> LowerOp(l, g, o)

LowerWith(g, plan) ==
  LET Step(l, o) == LowerStep(l, g, plan, o)
      Finish(l) == [l EXCEPT !.graph.outputs = At(l, g.outputs)]
      Checked(l) == IF l.ok /\ Mapped(l, g.outputs) /\ Verified(Finish(l).graph)
                    THEN Finish(l) ELSE Failed(l)
  IN Checked(FoldLeft(Step, EmptyLowering, g.ops))

Lower(g, options) == LowerWith(g, FusionPlan(g, options))
=============================================================================
