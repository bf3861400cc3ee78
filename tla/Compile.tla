------------------------------ MODULE Compile -------------------------------
(***************************************************************************)
(* A program on its way to a run: it is built operation by operation       *)
(* (Builder, src/ir/MidIR.cpp), rewritten by the passes                    *)
(* (Compiler::materialize_mid_ir, src/compiler/Compiler.cpp), lowered to   *)
(* kernels (src/ir/MidIRToKernelIR.cpp) and given the shapes of one        *)
(* invocation (src/engine/RuntimeTensorDesc.cpp).                          *)
(*                                                                         *)
(* A program means terms: what each output computes from the inputs, and   *)
(* the chunks each cache has received.  An operation that reads a cache    *)
(* reads the chunks appended before it.                                    *)
(***************************************************************************)
EXTENDS Meaning

CONSTANTS
  Families,    \* programs to build: [leaves, catalogue, builtins, steps]; an entry
               \* of the catalogue is [attrs, picks], picks being a set per operand
  LoweringOptions,
  Rows,        \* what a dynamic dimension of an input may be in a run
  CacheRows    \* what the grown dimension of a cache may be in a run

VARIABLES
  phase,     \* "build", "fuse", "sweep", "lower", "bind", "done"
  family,    \* the family of the program
  mid,       \* the graph
  source,    \* the graph as it was written
  lowered,   \* the lowering, once there is one
  bound,     \* the run-time shape of each leaf of the source
  run        \* the shapes of the run

vars == <<phase, family, mid, source, lowered, bound, run>>

NoRun == [ok |-> TRUE, shape |-> <<>>]

AddLeaf(g, leaf) == CreateLeaf(g, leaf.attrs, leaf.type)

Init ==
  /\ phase = "build" /\ family \in Families
  /\ mid = FoldLeft(AddLeaf, EmptyGraph, family.leaves)
  /\ source = EmptyGraph /\ lowered = EmptyLowering /\ bound = <<>> /\ run = NoRun

Written == Len(mid.op) - Len(family.leaves)

\* The program applies an operation to values it has.
Build(attrs, operands) ==
  /\ phase = "build" /\ Written < family.steps
  /\ CanCreate(mid, attrs, operands)
  /\ mid' = CreateOp(mid, attrs, operands)
  /\ UNCHANGED <<phase, family, source, lowered, bound, run>>

\* ... or a builtin that is several operations.
BuildBuiltin(name, operand) ==
  /\ phase = "build" /\ Written < family.steps
  /\ mid' = Expand(mid, Composite[name], <<operand>>)
  /\ UNCHANGED <<phase, family, source, lowered, bound, run>>

\* It returns a tensor, two of them, or a tuple of two.
Return(outputs, tuple) ==
  /\ phase = "build" /\ Written > 0
  /\ LET g == IF tuple THEN CreateTuple(mid, outputs) ELSE mid
     IN mid' = [g EXCEPT !.outputs = IF tuple THEN <<Newest(g)>> ELSE outputs]
  /\ source' = mid'
  /\ phase' = "fuse"
  /\ UNCHANGED <<family, lowered, bound, run>>

\* FuseTransposeIntoMatMulPass::run
Fuse ==
  /\ phase = "fuse"
  /\ mid' = FuseTransposes(mid)
  /\ phase' = "sweep"
  /\ UNCHANGED <<family, source, lowered, bound, run>>

\* One round of DeadCodeEliminationPass::run; the last one changes nothing.
Sweep ==
  /\ phase = "sweep"
  /\ mid' = SweepDead(mid)
  /\ phase' = IF mid' = mid THEN "lower" ELSE "sweep"
  /\ UNCHANGED <<family, source, lowered, bound, run>>

\* lowerMidIRToKernelIR
LowerGraph(options) ==
  /\ phase = "lower"
  /\ lowered' = [options |-> options] @@ Lower(mid, options)
  /\ phase' = IF lowered'.ok THEN "bind" ELSE "done"
  /\ UNCHANGED <<family, mid, source, bound, run>>

LeafValues == {v \in DOMAIN source.value : Kind(source, source.value[v].def) \in
                                             {"input", "paged_input", "weight"}}
\* A leaf whose dynamic dimensions are all n in this run.
Sized(type, n) ==
  <<>> \o [i \in DOMAIN type.shape |-> IF type.shape[i] = Dynamic THEN n ELSE type.shape[i]]
Sizes(type) == IF ~HasDynamic(type.shape) THEN {0} ELSE IF type.kind = "paged" THEN CacheRows ELSE Rows

\* inferRuntimeTensorDescs, for the inputs of one invocation.
Bind(size) ==
  /\ phase = "bind"
  /\ bound' = [v \in LeafValues |-> Sized(source.value[v].type, size[v])]
  /\ run' = InferRuntimeShapes(lowered.graph,
              [x \in {lowered.at[v] : v \in LeafValues \cap DOMAIN lowered.at} |->
                 bound'[CHOOSE v \in LeafValues \cap DOMAIN lowered.at : lowered.at[v] = x]])
  /\ phase' = "done"
  /\ UNCHANGED <<family, mid, source, lowered>>

\* A size for every leaf.
Invocations ==
  LET Choose(fs, v) == {(v :> n) @@ f : n \in Sizes(source.value[v].type), f \in fs}
  IN FoldLeft(Choose, {<<>>}, SetToSeq(LeafValues))

Tensors == {v \in DOMAIN mid.value : mid.value[v].type.kind # "tuple"}
NewTensors == {v \in Tensors : mid.value[v].def > Len(family.leaves)
                               /\ mid.value[v].type.kind = "tensor"}

\* The operation made last is returned, alone or after the first one.
Outputs == IF NewTensors = {} THEN {} ELSE {<<Max(NewTensors)>>, <<Min(NewTensors), Max(NewTensors)>>}

\* Operands for an operation of the catalogue: for each, one of its picks.
Picks(picks) ==
  LET Extend(some, pick) == {Append(operands, v) : operands \in some, v \in pick \cap Tensors}
  IN FoldLeft(Extend, {<<>>}, picks)

Next ==
  \/ \E entry \in family.catalogue :
       \E operands \in Picks(entry.picks) : Build(entry.attrs, operands)
  \/ \E name \in family.builtins, v \in NewTensors \cup {1} : BuildBuiltin(name, v)
  \/ \E outputs \in Outputs : Return(outputs, FALSE)
  \/ \E outputs \in Outputs : Len(outputs) = 2 /\ Return(outputs, TRUE)
  \/ Fuse
  \/ Sweep
  \/ \E options \in LoweringOptions : LowerGraph(options)
  \/ \E size \in Invocations : Bind(size)

Spec == Init /\ [][Next]_vars

-----------------------------------------------------------------------------
Reads(g, o, kind) == \E v \in ToSet(g.op[o].operands) : g.value[v].type.kind = kind

\* The use lists, which the passes and the fusion read to decide what may go
\* (replaceOperand, eraseOp), are exactly the operands of the operations in the
\* block; every operand and every output has its operation there, before it.
LinksExact ==
  LET live == ToSet(mid.ops)
  IN /\ \A v \in DOMAIN mid.value :
          mid.value[v].uses = {use \in live \X (1..4) :
             /\ use[2] \in DOMAIN mid.op[use[1]].operands
             /\ mid.op[use[1]].operands[use[2]] = v}
     /\ \A o \in live : \A v \in ToSet(mid.op[o].operands) :
          mid.value[v].def \in live /\ mid.value[v].def < o
     /\ \A v \in ToSet(mid.outputs) : mid.value[v].def \in live

\* A graph the builder accepted lowers, and the kernel graph passes its own
\* verification, whatever is fused; but for views of a cache, which no kernel
\* makes, and fused element-wise operations that read a cache.
AcceptedGraphLowers ==
  lowered.ok \/ \E o \in ToSet(mid.ops) :
    /\ Reads(mid, o, "paged")
    /\ Kind(mid, o) \in Layouts \/ (lowered.options.elementwise /\ Kind(mid, o) \in Fusible)

\* A product that reads a transposed cache reads it where the product stands:
\* an append in between is then read too.
AppendsAfterTranspose ==
  \E t, a \in DOMAIN source.op :
    /\ Kind(source, t) = "transpose" /\ Kind(source, a) = "paged_append" /\ t < a
    /\ source.op[t].operands[1] = source.op[a].operands[1]

\* The kernels compute what the source wrote: the same outputs from the same
\* inputs, and the same rows in the same order into every cache.
MeaningKept ==
  phase \in {"bind", "done"} /\ lowered.ok /\ ~AppendsAfterTranspose =>
    Observed(EvaluateKernels(lowered.graph), lowered.graph.outputs)
      = Observed(EvaluateMid(source), source.outputs)

\* The types of the source with the sizes of the run: the rules of the middle
\* IR applied to known dimensions.
Concrete ==
  LET type(v) == [source.value[v].type EXCEPT !.shape = bound[v]]
      Step(c, o) ==
        LET operands == source.op[o].operands
            xs == [i \in DOMAIN operands |-> c.type[operands[i]]]
            results == source.op[o].results
            types == Infer(source.op[o].attrs, xs)
            grow == xs[1].grow + 1
        IN CASE ~c.ok \/ Kind(source, o) = "tuple" -> c
             [] o <= Len(family.leaves) \/ Kind(source, o) = "constant" ->
                  [c EXCEPT !.type = (results[1] :> IF results[1] \in DOMAIN bound
                                       THEN type(results[1]) ELSE UntypedConstant) @@ @]
             [] ~Accepts(source.op[o].attrs, xs) -> [c EXCEPT !.ok = FALSE]
             [] Kind(source, o) = "paged_append" ->
                  [c EXCEPT !.type[operands[1]].shape[grow] = @ + xs[2].shape[grow]]
             [] OTHER -> [c EXCEPT !.type =
                            [v \in ToSet(results) |-> types[CHOOSE i \in DOMAIN results : results[i] = v]] @@ @]
  IN FoldLeft(Step, [ok |-> TRUE, type |-> <<>>], source.ops)

\* The shapes of a fused kernel of three inputs or more are only known when
\* they are static.
UnknownFused ==
  \E o \in DOMAIN lowered.graph.op :
    LET op == lowered.graph.op[o]
    IN /\ op.kind = "elementwise" /\ Len(op.inputs) >= 3
       /\ HasDynamic(lowered.graph.value[op.outputs[1]].type.shape)

\* A run whose sizes the rules of the source accept gets the shapes these
\* rules give, for every value the kernels still compute, caches included.
ShapesSound ==
  LET AsExpected(expected) ==
        expected.ok =>
          /\ run.ok
          /\ \A v \in DOMAIN lowered.at \cap DOMAIN expected.type :
               run.shape[lowered.at[v]] = expected.type[v].shape
  IN phase = "done" /\ lowered.ok /\ ~UnknownFused /\ ~AppendsAfterTranspose =>
       AsExpected(Concrete)
=============================================================================
