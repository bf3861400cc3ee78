------------------------------ MODULE Meaning -------------------------------
(***************************************************************************)
(* What a graph of either IR computes, as terms <<function, parameters,    *)
(* arguments>> over its inputs.  Two graphs that mean the same have the    *)
(* same terms.  A transpose is kept as a flag of the product that reads    *)
(* it, and attention is the three steps it stands for, so that the ways    *)
(* the compiler has to write the same thing are one term.                  *)
(***************************************************************************)
EXTENDS Lowering

LeafTerm(attrs) == <<"leaf", attrs, <<>>>>
Flip(t) == IF t[1] = "transpose" THEN t[3][1] ELSE <<"transpose", <<>>, <<t>>>>
Flips(t) == t[1] = "transpose"
ProductTerm(lhs, rhs, transLhs, transRhs) ==
  <<"matmul", <<transLhs # Flips(lhs), transRhs # Flips(rhs)>>,
    <<IF Flips(lhs) THEN Flip(lhs) ELSE lhs, IF Flips(rhs) THEN Flip(rhs) ELSE rhs>>>>
Softmax(axis, t) == <<"softmax", <<axis>>, <<t>>>>
Score(window, xs) == <<"score", <<window>>, xs>>
\* softmax(score(q, k, offsets)) v, of the operands q, k, v and any offsets.
Attends(window, xs) ==
  ProductTerm(Softmax(-1, Score(window, <<xs[1], xs[2]>> \o SubSeq(xs, 4, Len(xs)))), xs[3], FALSE, FALSE)

\* What a view of the other layouts is.
View(transform, dims, indices, x) ==
  IF transform = "transpose" THEN Flip(x) ELSE <<transform, <<dims, indices>>, <<x>>>>

-----------------------------------------------------------------------------
\* An evaluation: the term of each value and the rows each cache has received.
Nothing == [term |-> <<>>, rows |-> <<>>]
Rowed(e, cache) == IF cache \in DOMAIN e.rows THEN e.rows[cache] ELSE <<>>
\* A cache is read with the rows it has at that time.
Read(e, v, type) ==
  IF type.kind = "paged" THEN <<"rows", Rowed(e, v), <<e.term[v]>>>> ELSE e.term[v]
ReadAll(e, vs, type(_)) == FoldLeft(LAMBDA xs, v : Append(xs, Read(e, v, type(v))), <<>>, vs)
Give(e, results, t) ==
  LET named == IF Len(results) = 1 THEN results[1] :> t
               ELSE [v \in ToSet(results) |->
                       <<"result", <<CHOOSE i \in DOMAIN results : results[i] = v>>, <<t>>>>]
  IN [e EXCEPT !.term = named @@ @]
Receive(e, cache, chunk) == [e EXCEPT !.rows = (cache :> Append(Rowed(e, cache), chunk)) @@ @]

\* An operation of the middle IR.
OpTerm(a, dtype, xs) ==
  CASE a.op \in {"input", "paged_input", "weight"} -> LeafTerm(a)
    [] a.op = "constant" -> <<a.op, <<dtype, a.number>>, <<>>>>
    [] a.op \in Fusible \ {"constant"} -> <<a.op, <<dtype>>, xs>>
    [] a.op = "transpose" -> Flip(xs[1])
    [] a.op = "reshape" -> View(a.op, a.shape, <<>>, xs[1])
    [] a.op = "permute" -> View(a.op, a.dims, <<>>, xs[1])
    [] a.op = "slice" -> View(a.op, a.kinds, a.indices, xs[1])
    [] a.op = "matmul" -> ProductTerm(xs[1], xs[2], a.transLhs, a.transRhs)
    [] a.op = "softmax" -> Softmax(a.dim, xs[1])
    [] a.op = "score" -> Score(a.window, xs)
    [] a.op = "attention" -> Attends(a.window, xs)
    [] a.op = "topk" -> <<a.op, <<a.k, a.dim>>, xs>>
    [] a.op = "sum" -> <<a.op, <<a.dim, a.keepDims>>, xs>>
    [] a.op = "rope" -> <<a.op, <<a.rotary>>, xs>>
    [] a.op = "moe_gather" -> <<a.op, <<a.numExperts, a.topK>>, xs>>
    [] a.op = "moe_matmul" -> <<a.op, <<a.transRhs>>, xs>>
    [] OTHER -> <<a.op, <<>>, xs>>

EvaluateMid(g) ==
  LET Step(e, o) ==
        LET operands == g.op[o].operands
            a == g.op[o].attrs
            xs == ReadAll(e, operands, LAMBDA v : g.value[v].type)
        IN CASE a.op = "paged_append" -> Receive(e, operands[1], xs[2])
             [] a.op = "tuple" ->
                  Give(e, g.op[o].results, <<"tuple", <<>>, [i \in DOMAIN operands |-> e.term[operands[i]]]>>)
             [] OTHER -> Give(e, g.op[o].results, OpTerm(a, ResultType(g, o).dtype, xs))
  IN FoldLeft(Step, Nothing, g.ops)

\* The scalar program of an element-wise kernel, run in order.
ScalarTerm(op, xs) ==
  LET Step(at, s) ==
        (s.id :> CASE s.op = "load" -> xs[s.input]
                   [] s.op = "constant" -> <<s.op, <<s.dtype, s.number>>, <<>>>>
                   [] OTHER -> <<s.op, <<s.dtype>>, FoldLeft(LAMBDA ys, x : Append(ys, at[x]), <<>>, s.operands)>>)
        @@ at
  IN FoldLeft(Step, <<>>, op.scalars)[op.result]

\* A kernel.
KernelTerm(op, xs) ==
  CASE op.kind = "input" -> LeafTerm(op.source)
    [] op.kind = "elementwise" -> ScalarTerm(op, xs)
    [] op.kind = "layout" -> View(op.transform, op.dims, op.indices, xs[1])
    [] op.kind = "matmul" -> ProductTerm(xs[1], xs[2], op.transLhs, op.transRhs)
    [] op.kind = "softmax" -> Softmax(op.axis, xs[1])
    [] op.kind = "score" -> Score(op.window, xs)
    [] op.kind = "attention" -> Attends(op.window, xs)
    [] op.kind = "topk" -> <<op.kind, <<op.k, op.axis>>, xs>>
    [] op.kind = "reduction" -> <<"sum", <<op.axes[1], op.keepDims>>, xs>>
    [] op.kind = "gather" -> <<"embedding", <<>>, xs>>
    [] op.kind = "rope" -> <<op.kind, <<op.rotary>>, xs>>
    [] op.kind = "moe_gather" -> <<op.kind, <<op.numExperts, op.topK>>, xs>>
    [] op.kind = "moe_matmul" -> <<op.kind, <<op.transRhs>>, xs>>
    [] OTHER -> <<op.kind, <<>>, xs>>

EvaluateKernels(k) ==
  LET Step(e, op) ==
        LET xs == ReadAll(e, op.inputs, LAMBDA v : k.value[v].type)
        IN CASE op.kind = "paged_append" -> Receive(e, op.inputs[1], xs[2])
             [] op.kind = "tuple" ->
                  Give(e, op.outputs, <<"tuple", <<>>, [i \in DOMAIN op.inputs |-> e.term[op.inputs[i]]]>>)
             [] OTHER -> Give(e, op.outputs, KernelTerm(op, xs))
  IN FoldLeft(Step, Nothing, k.op)

-----------------------------------------------------------------------------
\* What the caller sees: the outputs, and the rows of each cache that got some.
Observed(e, outputs) ==
  [outputs |-> [i \in DOMAIN outputs |-> e.term[outputs[i]]],
   caches |-> [leaf \in {e.term[v] : v \in DOMAIN e.rows} |->
                 e.rows[CHOOSE v \in DOMAIN e.rows : e.term[v] = leaf]]]
=============================================================================
