----------------------------- MODULE MCCompile ------------------------------
(***************************************************************************)
(* Families of small programs for TLC.  Each has leaves, a catalogue of    *)
(* operations with their number of operands, and a number of operations.   *)
(***************************************************************************)
EXTENDS Compile

Input(i, type) == [attrs |-> [op |-> "input", index |-> i], type |-> type]
Cache(i, type) == [attrs |-> [op |-> "paged_input", index |-> i], type |-> type]
Weight(i, type) == [attrs |-> [op |-> "weight", index |-> i], type |-> type]
Number == [attrs |-> [op |-> "constant", number |-> "2"], type |-> UntypedConstant]

\* An operation and, for each operand, the values it may be.
From(picks, attrs) == [picks |-> picks, attrs |-> [dtype |-> "none"] @@ attrs]
Op(arity, attrs) == From([i \in 1..arity |-> 1..20], attrs)
MatMul(l, r) == Op(2, [op |-> "matmul", transLhs |-> l, transRhs |-> r])
Transpose == Op(1, [op |-> "transpose"])
Reshape(shape) == Op(1, [op |-> "reshape", shape |-> shape])
AppendRows == Op(2, [op |-> "paged_append"])

\* Element-wise operations on tensors that broadcast.
Broadcasts ==
  [leaves |-> << Input(0, Tensor(<<Dynamic, 2>>, "bf16")), Weight(1, Tensor(<<2>>, "bf16")), Number >>,
   catalogue |-> {From(<<{1, 2, 4, 5}, {2, 3, 4, 5}>>, [op |-> "div"]), Op(1, [op |-> "relu"])},
   builtins |-> {}, steps |-> 3]
Builtins ==
  [leaves |-> << Input(0, Tensor(<<Dynamic, 2>>, "bf16")) >>,
   catalogue |-> {Op(2, [op |-> "add"])}, builtins |-> {"gelu", "silu", "softcap"}, steps |-> 1]

\* Products, transposes and other views.
Views ==
  [leaves |-> << Input(0, Tensor(<<Dynamic, 2>>, "f32")), Weight(1, Tensor(<<2, 2>>, "f32")) >>,
   catalogue |-> {Transpose, MatMul(FALSE, TRUE), Reshape(<<2, Dynamic>>),
                  From(<<1..3>>, [op |-> "slice", kinds |-> <<1, 0>>, indices |-> <<0, 0>>])},
   builtins |-> {}, steps |-> 3]

\* Chunks appended to a cache that is transposed and multiplied.
CacheProducts ==
  [leaves |-> << Input(0, Tensor(<<Dynamic, 2>>, "f32")), Cache(1, PagedTensor(<<Dynamic, 2>>, "f32", 0)) >>,
   catalogue |-> {From(<<{2}>>, [op |-> "transpose"]), From(<<{2}, {1, 4}>>, [op |-> "paged_append"]),
                  From(<<{1, 3}, {2, 3, 4}>>, [op |-> "matmul", transLhs |-> FALSE, transRhs |-> FALSE]),
                  From(<<{1}, {2}>>, [op |-> "matmul", transLhs |-> FALSE, transRhs |-> TRUE])},
   builtins |-> {}, steps |-> 3]

\* A transformer's step: chunks appended to a cache, attention over it.
Attending ==
  [leaves |-> << Input(0, Tensor(<<4, 1, 2>>, "f32")), Input(1, Tensor(<<2, Dynamic, 2>>, "f32")),
                 Cache(2, PagedTensor(<<2, Dynamic, 2>>, "f32", 1)) >>,
   catalogue |-> {From(<<{3}, {2, 4}>>, [op |-> "paged_append"]), From(<<{1, 2}>>, [op |-> "relu"]),
                  From(<<{1, 4}, {2, 3}, {3}>>, [op |-> "attention", window |-> 0])},
   builtins |-> {}, steps |-> 4]

\* The experts' block of a mixture: rows gathered by expert, multiplied, summed.
Experts ==
  [leaves |-> << Input(0, Tensor(<<Dynamic, 2>>, "bf16")), Input(1, Tensor(<<Dynamic, 2>>, "i64")),
                 Weight(2, Tensor(<<3, 2, 2>>, "bf16")) >>,
   catalogue |-> { From(<<{1}, {1, 2}, {1}>>, [op |-> "moe_gather", numExperts |-> 3, topK |-> 2]),
                   From(<<{1, 4, 8}, {2, 6, 7}, {3}>>, [op |-> "moe_matmul", transRhs |-> TRUE]),
                   From(<<{1, 4, 8}, {5, 9}, {6, 7}, {1, 4}>>, [op |-> "moe_scatter_sum"]) },
   builtins |-> {}, steps |-> 3]

\* Operations on rows: lookup, normalisation, choice and reduction.
RowWise ==
  [leaves |-> << Input(0, Tensor(<<Dynamic>>, "i64")), Weight(1, Tensor(<<3, 4>>, "f32")),
                 Weight(2, Tensor(<<4>>, "f32")) >>,
   catalogue |-> { Op(2, [op |-> "embedding"]), Op(2, [op |-> "rms_norm"]), Op(3, [op |-> "layer_norm"]),
                   Op(1, [op |-> "rope", rotary |-> 2]), Op(1, [op |-> "softmax", dim |-> -1]),
                   Op(1, [op |-> "topk", k |-> 2, dim |-> 1]),
                   Op(1, [op |-> "sum", dim |-> 0, keepDims |-> TRUE]),
                   Op(3, [op |-> "linear"]),
                   Op(1, [op |-> "permute", dims |-> <<1, 0>>]), Reshape(<<Dynamic, 2, 2>>) },
   builtins |-> {}, steps |-> 2]

MCFamilies == {Broadcasts, Builtins, Views, CacheProducts, Attending, Experts, RowWise}
MCOptions ==
  {[attention |-> f, elementwise |-> f, maxInputs |-> 8, maxScalars |-> 32] : f \in BOOLEAN}
=============================================================================
