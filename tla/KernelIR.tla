------------------------------ MODULE KernelIR ------------------------------
(***************************************************************************)
(* The kernel graph (src/ir/KernelIR.h, KernelIR.cpp): what every          *)
(* operation must satisfy and what ties operations and values together.    *)
(*   value   [type, layout, def, uses]: def is <<operation, result>>,      *)
(*           uses are pairs <<operation, operand>>                         *)
(*   op      [kind, inputs, outputs, ...] in execution order               *)
(*   outputs the values returned                                           *)
(* Everything is placed on one device, as all the code that builds these   *)
(* graphs does.  The page size of a cache is left out.                     *)
(***************************************************************************)
EXTENDS MidIR

NoDef == <<0, 0>>
EmptyKernel == [value |-> <<>>, op |-> <<>>, outputs |-> <<>>]

AddValue(k, type) ==
  [k EXCEPT !.value = Append(@, [type |-> type, layout |-> "contiguous",
                                 def |-> NoDef, uses |-> {}])]
SetLayout(k, v, layout) == [k EXCEPT !.value[v].layout = layout]

AddOp(k, op) ==
  LET o == Len(k.op) + 1
      Use(h, i) == [h EXCEPT !.value[op.inputs[i]].uses = @ \cup {<<o, i>>}]
      Define(h, r) == [h EXCEPT !.value[op.outputs[r]].def = <<o, r>>]
      read == FoldLeft(Use, [k EXCEPT !.op = Append(@, op)], [i \in DOMAIN op.inputs |-> i])
  IN FoldLeft(Define, read, [r \in DOMAIN op.outputs |-> r])

-----------------------------------------------------------------------------
(***************************************************************************)
(* Op::verify of each kind.                                                *)
(***************************************************************************)
Arity(op, inputs, outputs) == Len(op.inputs) \in inputs /\ Len(op.outputs) = outputs

VerifyType(type) ==
  CASE type.kind = "paged" -> /\ Len(type.shape) >= 1
                              /\ type.grow \in 0..(Len(type.shape) - 1)
                              /\ \A i \in DOMAIN type.shape : type.shape[i] = Dynamic \/ type.shape[i] > 0
    [] OTHER -> TRUE

VerifyPagedAppend(cache, chunk) == AcceptsPagedAppend([op |-> "paged_append"], <<cache, chunk>>)

VerifyTuple(k, op) ==
  LET tuple == k.value[op.outputs[1]].type
  IN /\ tuple.kind = "tuple"
     /\ Len(tuple.elements) = Len(op.inputs)
     /\ \A i \in DOMAIN op.inputs : /\ k.value[op.inputs[i]].type.kind # "tuple"
                                    /\ k.value[op.inputs[i]].type = tuple.elements[i]

VerifyLayout(k, op) ==
  LET input == k.value[op.inputs[1]]
      output == k.value[op.outputs[1]]
      kept == {a \in DOMAIN op.dims : op.dims[a] # 0}
  IN /\ Arity(op, {1}, 1)
     /\ input.type.kind # "paged"
     /\ op.mode = "alias" /\ op.transform = "reshape" =>
          input.layout = "contiguous" /\ output.layout = "contiguous"
     /\ op.transform = "permute" => op.dims # <<>>
     /\ op.transform = "slice" =>
          /\ Len(op.dims) = Len(op.indices) /\ Len(op.dims) = Rank(input.type)
          /\ \A a \in DOMAIN op.dims : /\ op.dims[a] \in {0, 1}
                                       /\ op.dims[a] = 1 /\ input.type.shape[a] >= 0 =>
                                            AxisInRange(op.indices[a], input.type.shape[a])
          /\ output.type.shape = Without(input.type.shape, kept)

\* The scalar program of an element: loads of inputs, constants, operations.
VerifyElementwise(op) ==
  LET ids == {op.scalars[s].id : s \in DOMAIN op.scalars}
  IN /\ \A s \in DOMAIN op.scalars :
          /\ op.scalars[s].op = "load" => op.scalars[s].input \in DOMAIN op.inputs
          /\ ToSet(op.scalars[s].operands) \subseteq ids
     /\ op.result \in ids

\* Kernels that may have positions, and those of a mixture of experts.
VerifyPositions(k, op, required) ==
  /\ Len(op.inputs) \in {required, required + 1} /\ op.window >= 0
  /\ Len(op.inputs) = required + 1 => k.value[Last(op.inputs)].type.dtype \in IndexTypes
VerifyExperts(op) ==
  CASE op.kind = "moe_gather" -> Arity(op, {3}, 4) /\ op.numExperts > 0 /\ op.topK > 0
    [] op.kind = "moe_matmul" -> Arity(op, {3}, 1)
    [] op.kind = "moe_scatter_sum" -> Arity(op, {4}, 1)

VerifyOp(k, op) ==
  LET type(i) == k.value[op.inputs[i]].type
  IN CASE op.kind = "input" -> Arity(op, {0}, 1)
       [] op.kind = "tuple" -> VerifyTuple(k, op)
       [] op.kind = "paged_append" -> VerifyPagedAppend(type(1), type(2))
       [] op.kind = "layout" -> VerifyLayout(k, op)
       [] op.kind = "elementwise" -> VerifyElementwise(op)
       [] op.kind = "reduction" -> Arity(op, {1}, 1) /\ op.axes # <<>>
       [] op.kind \in {"matmul", "gather"} -> Arity(op, {2}, 1)
       [] op.kind \in {"moe_gather", "moe_matmul", "moe_scatter_sum"} -> VerifyExperts(op)
       [] op.kind = "linear" -> Arity(op, {3}, 1)
       [] op.kind = "softmax" -> Arity(op, {1}, 1)
       [] op.kind = "topk" -> Arity(op, {1}, 2) /\ op.k > 0
       [] op.kind = "rms_norm" -> Len(op.inputs) \in {1, 2}
       [] op.kind = "layer_norm" -> Len(op.inputs) = 3
       [] op.kind = "rope" -> Len(op.inputs) \in {1, 2}
       [] op.kind = "score" -> VerifyPositions(k, op, 2)
       [] op.kind = "attention" -> VerifyPositions(k, op, 3)

-----------------------------------------------------------------------------
(***************************************************************************)
(* Graph::verify.                                                          *)
(***************************************************************************)
Names(refs, v, end) == refs # <<>> /\ end \in DOMAIN refs /\ refs[end] = v

VerifyValue(k, v) ==
  LET val == k.value[v]
  IN /\ val.def # NoDef
     /\ VerifyType(val.type)
     /\ Names(k.op[val.def[1]].outputs, v, val.def[2])
     /\ \A use \in val.uses : Names(k.op[use[1]].inputs, v, use[2])

VerifyLinks(k, o) ==
  /\ \A i \in DOMAIN k.op[o].inputs :
       LET val == k.value[k.op[o].inputs[i]]
       IN val.def[1] < o /\ <<o, i>> \in val.uses
  /\ \A r \in DOMAIN k.op[o].outputs : k.value[k.op[o].outputs[r]].def = <<o, r>>

Verified(k) ==
  /\ \A v \in DOMAIN k.value : VerifyValue(k, v)
  /\ \A o \in DOMAIN k.op : /\ ToSet(k.op[o].inputs \o k.op[o].outputs) \subseteq DOMAIN k.value
                            /\ VerifyOp(k, k.op[o])
                            /\ VerifyLinks(k, o)
  /\ ToSet(k.outputs) \subseteq DOMAIN k.value
-----------------------------------------------------------------------------
(***************************************************************************)
(* The shapes of one run (src/engine/RuntimeTensorDesc.cpp): from the      *)
(* shapes of the inputs, those of every value of a kernel graph, operation *)
(* by operation.  A cache's shape changes when rows are appended to it.    *)
(* The element types of an invocation are taken to be those of the graph.  *)
(***************************************************************************)
\* verifyRuntimeTensorDesc: the shape s may be what the value v has in a run.
Fits(k, v, s) == s # NoShape /\ Refines(s, k.value[v].type.shape)

\* Mutant: the sides are taken as if neither were transposed.
RuntimeMatMul_Plain(op, l, r) ==
  MatMulBatchShape(SubSeq(l, 1, Len(l) - 2), SubSeq(r, 1, Len(r) - 2))
    \o <<FromRight(l, 2), FromRight(r, 1)>>

RuntimeMatMul(op, l, r) ==
  LET batch == MatMulBatchShape(SubSeq(l, 1, Len(l) - 2), SubSeq(r, 1, Len(r) - 2))
  IN IF Len(l) < 2 \/ Len(r) < 2 \/ batch = NoShape THEN NoShape
     ELSE batch \o << FromRight(l, IF op.transLhs THEN 1 ELSE 2),
                      FromRight(r, IF op.transRhs THEN 2 ELSE 1) >>

RuntimeReduction(op, s) ==
  LET axes == {Axis(op.axes[i], Len(s)) : i \in DOMAIN op.axes}
  IN IF \/ \E i \in DOMAIN op.axes : ~AxisInRange(op.axes[i], Len(s))
        \/ Cardinality(axes) # Len(op.axes) THEN NoShape
     ELSE IF op.keepDims THEN [i \in DOMAIN s |-> IF i \in axes THEN 1 ELSE s[i]]
     ELSE Without(s, axes)

RuntimeTopK(op, s) ==
  IF AxisInRange(op.axis, Len(s)) THEN [s EXCEPT ![Axis(op.axis, Len(s))] = op.k] ELSE NoShape

RuntimeMoeGather(op, s, result) ==
  LET lead == SubSeq(s, 1, Len(s) - 2)
      rows == FromRight(s, 2) * op.topK
  IN IF Len(s) \notin {2, 3} THEN NoShape
     ELSE lead \o CASE result = 1 -> <<rows, FromRight(s, 1)>>
                    [] result \in {2, 3} -> <<rows>>
                    [] OTHER -> <<op.numExperts + 1>>

RuntimeMoeMatMul(op, x, w) ==
  IF Len(x) \notin {2, 3} \/ Len(w) # 3 THEN NoShape
  ELSE [x EXCEPT ![Len(x)] = w[IF op.transRhs THEN 2 ELSE 3]]

RuntimeLayout(op, s) ==
  CASE op.transform = "reshape" -> InferReshapeShape(s, op.dims)
    [] op.transform = "transpose" -> IF Len(s) < 2 THEN NoShape ELSE Transposed(s)
    [] op.transform = "permute" -> Permuted(s, op.dims)
    [] op.transform = "slice" ->
         LET taken == {a \in DOMAIN op.dims : op.dims[a] # 0}
         IN IF /\ Len(op.dims) = Len(s) /\ Len(op.indices) = Len(s)
               /\ \A a \in taken : op.dims[a] = 1 /\ AxisInRange(op.indices[a], s[a])
            THEN Without(s, taken) ELSE NoShape

\* An element-wise kernel of three inputs or more has its static shape, which
\* a dynamic one is not: the code then fails (staticDesc).
RuntimeElementwise(k, op, s) ==
  LET static == k.value[op.outputs[1]].type.shape
  IN CASE Len(op.inputs) = 1 -> s[op.inputs[1]]
       [] Len(op.inputs) = 2 -> BroadcastShape(s[op.inputs[1]], s[op.inputs[2]])
       [] OTHER -> IF HasDynamic(static) THEN NoShape ELSE static

\* inferOutput: the shape of a result, given the shapes s of earlier values.
RuntimeShape(k, op, s, result) ==
  LET x(i) == s[op.inputs[i]]
  IN CASE op.kind = "elementwise" -> RuntimeElementwise(k, op, s)
       [] op.kind = "layout" -> RuntimeLayout(op, x(1))
       [] op.kind = "matmul" -> RuntimeMatMul(op, x(1), x(2))
       [] op.kind = "gather" -> CASE Len(x(2)) = 2 -> x(1) \o <<x(2)[2]>>
                                  [] Len(x(2)) = 1 -> x(1)
                                  [] OTHER -> NoShape
       [] op.kind \in {"softmax", "rms_norm", "layer_norm", "rope"} -> x(1)
       [] op.kind = "score" -> SubSeq(x(1), 1, Len(x(1)) - 1) \o <<FromRight(x(2), 2)>>
       [] op.kind = "attention" -> [x(1) EXCEPT ![Len(x(1))] = FromRight(x(3), 1)]
       [] op.kind = "linear" -> [x(1) EXCEPT ![Len(x(1))] = x(2)[1]]
       [] op.kind = "topk" -> RuntimeTopK(op, x(1))
       [] op.kind = "moe_gather" -> RuntimeMoeGather(op, x(1), result)
       [] op.kind = "moe_matmul" -> RuntimeMoeMatMul(op, x(1), x(3))
       [] op.kind = "moe_scatter_sum" -> x(4)
       [] op.kind = "reduction" -> RuntimeReduction(op, x(1))

\* applyPagedAppend: the cache's shape after a chunk, NoShape when it does not fit.
RuntimeAppend(k, cache, s, chunk) ==
  LET grow == k.value[cache].type.grow + 1
      grown == [s EXCEPT ![grow] = @ + chunk[grow]]
  IN IF /\ grow \in DOMAIN s /\ Len(s) = Len(chunk)
        /\ \A i \in DOMAIN s \ {grow} : s[i] = chunk[i]
        /\ chunk[grow] # 0
        /\ Fits(k, cache, grown)
     THEN grown ELSE NoShape

-----------------------------------------------------------------------------
(***************************************************************************)
(* inferRuntimeTensorDescs.  An inference under way is [ok, shape], shape  *)
(* being a function of the values known so far.                            *)
(***************************************************************************)
InferOp(k, r, op) ==
  LET Put(t, v, s) == IF t.ok /\ Fits(k, v, s) THEN [t EXCEPT !.shape = (v :> <<>> \o s) @@ @]
                      ELSE [t EXCEPT !.ok = FALSE]
  IN CASE ~r.ok -> r
       [] op.kind = "input" -> Put(r, op.outputs[1], r.shape[op.outputs[1]])
       [] op.kind = "tuple" -> r
       [] op.kind = "paged_append" ->
            LET cache == op.inputs[1]
            IN Put(r, cache, RuntimeAppend(k, cache, r.shape[cache], r.shape[op.inputs[2]]))
       [] OTHER -> FoldLeft(LAMBDA t, i : Put(t, op.outputs[i],
                                              IF t.ok THEN RuntimeShape(k, op, r.shape, i) ELSE NoShape),
                            r, [i \in DOMAIN op.outputs |-> i])

InferRuntimeShapes(k, inputs) == FoldLeft(LAMBDA r, op : InferOp(k, r, op),
                                          [ok |-> TRUE, shape |-> inputs], k.op)
=============================================================================
