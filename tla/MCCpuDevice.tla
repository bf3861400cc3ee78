---------------------------- MODULE MCCpuDevice -----------------------------
(***************************************************************************)
(* Workloads for TLC: small tensors whose elements are all different, a    *)
(* catalogue of operations and how many of them run one after the other.   *)
(***************************************************************************)
EXTENDS CpuDevice

Some(name, shape) ==
  [type |-> Tensor(shape, "f32"), data |-> [i \in 1..Product(shape) |-> <<name, i>>]]
Ints(shape, data) == [type |-> Tensor(shape, "i64"), data |-> data]
Nums(shape, data) == [type |-> Tensor(shape, "f32"), data |-> [i \in DOMAIN data |-> <<"num", data[i]>>]]

Op(picks, attrs) == [picks |-> picks, attrs |-> [dtype |-> "none"] @@ attrs]
Reshape2(picks, shape) == Op(<<picks>>, [op |-> "reshape", shape |-> shape])
Product2(l, r, transLhs, transRhs) == Op(<<l, r>>, [op |-> "matmul", transLhs |-> transLhs, transRhs |-> transRhs])
Slice(picks, kinds, indices) == Op(<<picks>>, [op |-> "slice", kinds |-> kinds, indices |-> indices])
Work(leaves, catalogue, steps) ==
  [leaves |-> leaves, catalogue |-> catalogue, steps |-> steps, pools |-> {}]
Whichever == 1..9

\* Views of views, copies of them, element-wise operations and products on them.
Views ==
  Work(<< Some("x", <<2, 3>>), Some("y", <<3>>) >>,
       { Op(<<Whichever>>, [op |-> "transpose"]), Slice(Whichever, <<0, 1>>, <<0, -1>>), Slice(Whichever, <<1, 0>>, <<1, 0>>),
         Reshape2(Whichever, <<3, -1>>), Reshape2(Whichever, <<1, 2, 3>>), Op(<<Whichever>>, [op |-> "permute", dims |-> <<1, 2, 0>>]),
         Op(<<Whichever>>, [op |-> "relu"]), Op(<<Whichever, {2, 3}>>, [op |-> "add"]) }, 3)
Products ==
  Work(<< Some("x", <<2, 3>>), Some("y", <<3, 2>>), Some("z", <<4, 1, 3>>), Some("w", <<2, 3, 2>>), Some("b", <<2>>) >>,
       {Product2({1, 2, 6}, {2, 1, 6}, l, r) : l, r \in BOOLEAN}
         \cup {Product2({3}, {1, 2, 4}, FALSE, r) : r \in BOOLEAN} \cup {Product2({4}, {1, 2}, TRUE, FALSE)}
         \cup {Op(<<{1, 2}>>, [op |-> "transpose"]), Op(<<{1, 3}, {1}, {5}>>, [op |-> "linear"])}, 2)

\* The layouts, copied.
Copied ==
  Work(<< Some("x", <<2, 3>>), Some("y", <<2, 1, 3>>) >>,
       { Op(<<Whichever>>, [op |-> "transpose"]), Op(<<Whichever>>, [op |-> "permute", dims |-> <<1, 2, 0>>]),
         Op(<<Whichever>>, [op |-> "transpose", mode |-> "materialize"]), Slice(Whichever, <<0, 1, 0>>, <<0, 0, 0>>),
         Op(<<Whichever>>, [op |-> "permute", dims |-> <<1, 2, 0>>, mode |-> "materialize"]) }, 2)

\* Along axes, and by rows.
Axes ==
  Work(<< Some("x", <<2, 2, 2>>) >>,
       {Op(<<{1, 2}>>, [op |-> "softmax", dim |-> d]) : d \in {-1, 0, 1}}
         \cup {Op(<<{1, 2}>>, [op |-> "sum", dim |-> d, keepDims |-> k]) : d \in {-2, 0}, k \in BOOLEAN}
         \cup {Op(<<{1}>>, [op |-> "permute", dims |-> <<2, 0, 1>>])}, 2)
Largest ==
  Work(<< Nums(<<2, 3>>, <<5, 7, 5, 1, 1, 4>>) >>,
       { Op(<<{1}>>, [op |-> "transpose"]), Slice({1}, <<0, 1>>, <<0, 0>>),
         Op(<<{1, 2}>>, [op |-> "topk", k |-> 2, dim |-> 0]), Op(<<{1, 2}>>, [op |-> "topk", k |-> 2, dim |-> -1]) }, 3)
Lookups ==
  Work(<< Ints(<<2, 2>>, <<2, 0, 1, 2>>), Some("t", <<2, 3>>), Some("u", <<3, 2>>) >>,
       { Op(<<{2}>>, [op |-> "transpose"]), Slice({3}, <<0, 1>>, <<0, 1>>),
         Op(<<{1}, {3, 4}>>, [op |-> "embedding"]) }, 2)
ByRow ==
  Work(<< Some("x", <<2, 2, 4>>), Some("w", <<4>>), Ints(<<1>>, <<3>>), Ints(<<2>>, <<0, 5>>),
          Ints(<<2, 2>>, <<1, 2, 3, 0>>), Some("t", <<4, 2>>) >>,
       {Op(<<{1, 7}>>, [op |-> "rope", rotary |-> n, splitHalf |-> s]) : n \in {0, 2}, s \in BOOLEAN}
         \cup {Op(<<{1}, {3, 4, 5}>>, [op |-> "rope", rotary |-> n, splitHalf |-> s]) : n \in {0, 2}, s \in BOOLEAN}
         \cup {Op(<<{1, 7}>>, [op |-> "rms_norm"]), Op(<<{1, 7}, {2}>>, [op |-> "rms_norm"]),
               Op(<<{1, 7}, {2}, {2}>>, [op |-> "layer_norm"]), Op(<<{6}>>, [op |-> "transpose"])}, 2)

\* Attention in one kernel, and by scores, softmax and product.
Attending ==
  Work(<< Some("q", <<1, 2, 2, 1>>), Some("k", <<1, 1, 3, 1>>), Some("v", <<1, 1, 3, 1>>), Ints(<<1>>, <<1>>) >>,
       {Op(<<{1}, {2}, {3}>> \o p, [op |-> "attention", window |-> w]) : p \in {<<>>, <<{4}>>}, w \in {0, 1}}
         \cup {Op(<<{1}, {2}>> \o p, [op |-> "score", window |-> w]) : p \in {<<>>, <<{4}>>}, w \in {0, 2}}
         \cup {Op(<<{5}>>, [op |-> "softmax", dim |-> -1]), Product2({6}, {3}, FALSE, FALSE)}, 3)

\* Two sequences that begin at different places; queries at places of their own.
Positions ==
  Work(<< Some("q", <<2, 2, 1, 1>>), Some("k", <<2, 1, 3, 1>>), Some("v", <<2, 1, 3, 1>>), Ints(<<2>>, <<2, 0>>),
          Some("p", <<2, 2, 1>>), Some("h", <<1, 3, 1>>) >>,
       { Op(<<{1}, {2}, {3}, {4}>>, [op |-> "attention", window |-> 0]),
         Op(<<{1}, {2}, {4}>>, [op |-> "score", window |-> 1]), Op(<<{5}, {6}, {4}>>, [op |-> "score", window |-> 0]),
         Op(<<{6}>>, [op |-> "permute", dims |-> <<2, 1, 0>>]), Op(<<{5}, {7}>>, [op |-> "score", window |-> 0]) }, 2)

\* Experts, with tokens that share one and one that nobody asks for.
Experts ==
  Work(<< Some("x", <<3, 2>>), Ints(<<3, 2>>, <<2, 0, 0, 3, 3, 2>>), Some("r", <<3, 2>>), Some("w", <<4, 2, 2>>),
          Some("b", <<2, 2, 2>>), Ints(<<2, 2, 1>>, <<1, 0, 0, 0>>), Some("s", <<2, 2, 1>>) >>,
       {Op(<<{1}, {2}, {3}>>, [op |-> "moe_gather", numExperts |-> 4, topK |-> 2]),
        Op(<<{5}, {6}, {7}>>, [op |-> "moe_gather", numExperts |-> 4, topK |-> 1])}
         \cup {Op(<<{8}, {11}, {4}>>, [op |-> "moe_matmul", transRhs |-> t]) : t \in BOOLEAN}
         \cup {Op(<<{12}, {9}, {10}, {1, 5}>>, [op |-> "moe_scatter_sum"])}, 6)

\* Paged tensors: pools with and without a limit, padding, several places.
PoolOf(prefix, trailing, pageSize, initial, max, align) ==
  [prefix |-> prefix, trailing |-> trailing, pageSize |-> pageSize,
   initial |-> initial, max |-> max, align |-> align]
TwoPlaces == PoolOf(2, 1, 2, 0, 3, 2)
Paging ==
  [leaves |-> <<>>, catalogue |-> {}, steps |-> 0,
   pools |-> {TwoPlaces, PoolOf(1, 2, 2, 1, 3, 1), PoolOf(1, 1, 3, 0, 2, 2), PoolOf(1, 1, 2, 1, 0, 4), PoolOf(1, 1, 3, 2, 2, 2)}]
\* Attention over a cache of keys and one of values.
Caching ==
  [leaves |-> << Some("q", <<2, 2, 1>>), Ints(<<1>>, <<1>>) >>,
   catalogue |-> {Op(<<{1}, {0}, {0}>>, [op |-> "attention", window |-> 0]),
                  Op(<<{1}, {0}, {0}, {2}>>, [op |-> "attention", window |-> 0])},
   steps |-> 1, pools |-> {PoolOf(2, 1, 2, 0, 2, 1)}]

MCWorkloads == {Views, Copied, Products, Axes, Largest, Lookups, ByRow, Attending, Positions, Experts, Paging, Caching}
MCPools == UNION {w.pools : w \in MCWorkloads}
MCChunks ==
  [n \in 1..2 |-> IF n = 2 THEN {<< <<"a">>, <<"b">>, <<"c">>, <<"d">> >>} ELSE {<< <<"a">>, <<"b">> >>}]
=============================================================================
