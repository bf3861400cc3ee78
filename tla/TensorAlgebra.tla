---------------------------- MODULE TensorAlgebra ----------------------------
(***************************************************************************)
(* What the kernels are meant to compute, on tensors without any storage:  *)
(* [shape, el], el being a function of coordinates <<c1, ..., cn>>, each   *)
(* counted from 0.  Terms are those of TensorCalc.                         *)
(***************************************************************************)
EXTENDS TensorCalc

CoordSet(shape) ==
  FoldLeft(LAMBDA some, n : {Append(c, i) : c \in some, i \in All(n)}, {<<>>}, shape)
Make(shape, el(_)) == [shape |-> shape, el |-> [c \in CoordSet(shape) |-> el(c)]]

Front2(c) == SubSeq(c, 1, Len(c) - 2)
End(c, k) == c[Len(c) + 1 - k]
Replaced(c, a, i) == [c EXCEPT ![a] = i]

\* The coordinates of a tensor of the given shape that an element of a larger
\* one reads: a dimension of one is repeated, a smaller one shared by groups.
Aligned(c, shape, larger) ==
  LET shift == Len(larger) - Len(shape)
  IN [a \in DOMAIN shape |-> (c[a + shift] * shape[a]) \div larger[a + shift]]

\* Views.
SliceView(x, kinds, indices) ==
  LET taken == {a \in DOMAIN kinds : kinds[a] = 1}
      Wrapped(a) == IF indices[a] < 0 THEN indices[a] + x.shape[a] ELSE indices[a]
      Rest(a) == Cardinality({b \in 1..a : b \notin taken})
  IN Make(Without(x.shape, taken),
          LAMBDA c : x.el[[a \in DOMAIN kinds |-> IF a \in taken THEN Wrapped(a) ELSE c[Rest(a)]]])
TransposeView(x) ==
  Make(Transposed(x.shape), LAMBDA c : x.el[Front2(c) \o <<End(c, 1), End(c, 2)>>])
PermuteView(x, dims) ==
  Make(Permuted(x.shape, dims),
       LAMBDA c : x.el[[a \in DOMAIN dims |-> c[CHOOSE i \in DOMAIN dims : dims[i] = a - 1]]])
\* The elements stay in row-major order: that of their coordinates.
Ordered(shape) ==
  FoldLeft(LAMBDA some, n : FlattenSeq([j \in DOMAIN some |-> [i \in 1..n |-> Append(some[j], i - 1)]]),
           << <<>> >>, shape)
ReshapeView(x, shape) ==
  LET from == Ordered(x.shape)
      to == Ordered(shape)
  IN [shape |-> shape, el |-> [c \in CoordSet(shape) |-> x.el[from[CHOOSE i \in DOMAIN to : to[i] = c]]]]

\* Element-wise, of tensors that broadcast.
Map(op, xs) ==
  LET shape == FoldLeft(LAMBDA s, x : BroadcastShape(s, x.shape), <<>>, xs)
  IN Make(shape, LAMBDA c : Term(op, [i \in DOMAIN xs |-> xs[i].el[Aligned(c, xs[i].shape, shape)]]))

Multiply(l, r) ==
  LET batch == MatMulBatchShape(Front2(l.shape), Front2(r.shape))
      Of(x, c, row, col) == x.el[Aligned(c, Front2(x.shape), batch) \o <<row, col>>]
  IN Make(batch \o <<End(l.shape, 2), End(r.shape, 1)>>,
          LAMBDA c : SumOfProducts({<<k, Of(l, Front2(c), End(c, 2), k), Of(r, Front2(c), k, End(c, 1))>> :
                                      k \in All(End(l.shape, 1))}))
Flipped(x, yes) == IF yes THEN TransposeView(x) ELSE x

Affine(x, weight, bias) ==
  Make([x.shape EXCEPT ![Len(x.shape)] = weight.shape[1]],
       LAMBDA c : Term("plus", << bias.el[<<End(c, 1)>>],
         SumOfProducts({<<i, x.el[Replaced(c, Len(c), i)], weight.el[<<End(c, 1), i>>]>> : i \in All(weight.shape[2])}) >>))

\* Along an axis.
Along(x, axis, c) == {<<i, x.el[Replaced(c, axis, i)]>> : i \in All(x.shape[axis])}
SoftmaxAlong(x, axis) == Make(x.shape, LAMBDA c : SoftmaxOf(x.el[c], Along(x, axis, c)))
SumAlong(x, axis, keepDims) ==
  LET kept == Make([x.shape EXCEPT ![axis] = 1], LAMBDA c : Term("sum", Along(x, axis, c)))
  IN IF keepDims THEN kept ELSE ReshapeView(kept, Without(x.shape, {axis}))
\* The r-th of the best (0 first) is beaten by exactly r others.
BestAlong(x, axis, k, field) ==
  LET Nth(c) == LET lane == Along(x, axis, c)
                IN CHOOSE e \in lane : Cardinality({f \in lane : Beats(f, e)}) = c[axis]
  IN Make([x.shape EXCEPT ![axis] = k], LAMBDA c : Nth(c)[field])

(***************************************************************************)
(* Attention is softmax(mask(q k^T)) v, the key heads repeated for the     *)
(* queries of a group.  Positions say where each sequence begins, or, query *)
(* by query, where it stands.                                              *)
(***************************************************************************)
PositionOf(positions, batches, c) ==
  LET p == positions[1]
  IN CASE positions = <<>> -> End(c, 2)
       [] Len(p.shape) = 1 /\ p.shape[1] = batches /\ Len(c) = 4 -> p.el[<<c[1]>>] + End(c, 2)
       [] Product(p.shape) = 1 -> p.el[[a \in DOMAIN p.shape |-> 0]] + End(c, 2)
       [] OTHER -> p.el[<<End(c, 2)>>]
Scores(q, k, positions, window) ==
  LET product == Multiply(q, TransposeView(k))
      Near(c) == /\ End(c, 1) <= PositionOf(positions, q.shape[1], c)
                 /\ window > 0 => End(c, 1) > PositionOf(positions, q.shape[1], c) - window
  IN Make(product.shape, LAMBDA c : IF Near(c) THEN product.el[c] ELSE Masked)
Attended(q, k, v, offsets, window) ==
  LET scores == Scores(q, k, offsets, window)
  IN Multiply(SoftmaxAlong(scores, Len(scores.shape)), v)

Looked(ids, weight) ==
  Make(ids.shape \o Tail(weight.shape),
       LAMBDA c : weight.el[<<ids.el[SubSeq(c, 1, Len(ids.shape))]>> \o SubSeq(c, Len(ids.shape) + 1, Len(c))])

\* Each pair <<p, partner>> of a row turns together.
RowPosition(x, positions, c) ==
  LET p == positions[1]
  IN CASE positions = <<>> -> End(c, 2)
       [] Product(p.shape) = 1 -> p.el[[a \in DOMAIN p.shape |-> 0]] + End(c, 2)
       [] Len(p.shape) = 1 -> p.el[<<End(c, 2)>>]
       [] OTHER -> p.el[SubSeq(c, 1, Len(c) - 1)]
Rotated(x, positions, rotary, splitHalf) ==
  LET dim == End(x.shape, 1)
      turned == IF rotary < 0 THEN dim ELSE rotary
      half == dim \div 2
      Pair(i) == IF splitHalf THEN i % half ELSE i \div 2
      First(i) == IF splitHalf THEN i < half ELSE i % 2 = 0
      Partner(i) == IF splitHalf THEN (i + half) % dim ELSE IF i % 2 = 0 THEN i + 1 ELSE i - 1
      Value(c) ==
        LET i == End(c, 1)
            own == x.el[c]
            other == x.el[Replaced(c, Len(c), Partner(i))]
        IN IF Pair(i) >= turned \div 2 THEN own
           ELSE Term(IF First(i) THEN "turn-x" ELSE "turn-y",
                     << RowPosition(x, positions, c), Pair(i), IF splitHalf THEN dim ELSE turned,
                        IF First(i) THEN own ELSE other, IF First(i) THEN other ELSE own >>)
  IN Make(x.shape, Value)

Normalised(kind, x, weights) ==
  Make(x.shape, LAMBDA c : Term(kind, <<x.el[c], Along(x, Len(c), c)>>
                                        \o [j \in DOMAIN weights |-> weights[j].el[<<End(c, 1)>>]]))

(***************************************************************************)
(* Experts.  A row of a packed tensor is a route, <<token, slot>>; rows go *)
(* by expert, then by token, then by slot.                                 *)
(***************************************************************************)
RowsByExpert(ids, lead) ==
  LET expert(r) == ids.el[lead \o r]
      Before(r, s) == \/ expert(r) < expert(s)
                      \/ expert(r) = expert(s) /\ (r[1] < s[1] \/ (r[1] = s[1] /\ r[2] < s[2]))
      n == Len(ids.shape)
  IN SetToSortSeq(CoordSet(SubSeq(ids.shape, n - 1, n)), Before)
PackedRows(ids) == [lead \in CoordSet(Front2(ids.shape)) |-> RowsByExpert(ids, lead)]
GatheredRows(x, ids, weights, experts) ==
  LET rows == PackedRows(ids)
      lead == Front2(x.shape)
      n == End(ids.shape, 1) * End(ids.shape, 2)
      Route(c, k) == rows[SubSeq(c, 1, Len(c) - k)][c[Len(c) + 1 - k] + 1]
      Lead(c, k) == SubSeq(c, 1, Len(c) - k)
      Below(c) == {r \in DOMAIN rows[Lead(c, 1)] : ids.el[Lead(c, 1) \o rows[Lead(c, 1)][r]] < End(c, 1)}
  IN << Make(lead \o <<n, End(x.shape, 1)>>, LAMBDA c : x.el[Lead(c, 2) \o <<Route(c, 2)[1], End(c, 1)>>]),
        Make(lead \o <<n>>, LAMBDA c : weights.el[Lead(c, 1) \o Route(c, 1)]),
        Make(lead \o <<n>>, LAMBDA c : Route(c, 1)[1]),
        Make(lead \o <<experts + 1>>, LAMBDA c : Cardinality(Below(c))) >>

MultiplyByExpert(x, offsets, weight, transRhs) ==
  LET ExpertOf(lead, row) ==
        CHOOSE e \in All(weight.shape[1]) : offsets.el[lead \o <<e>>] <= row /\ row < offsets.el[lead \o <<e + 1>>]
      W(e, i, o) == weight.el[IF transRhs THEN <<e, o, i>> ELSE <<e, i, o>>]
  IN Make([x.shape EXCEPT ![Len(x.shape)] = weight.shape[IF transRhs THEN 2 ELSE 3]],
          LAMBDA c : SumOfProducts({<<i, x.el[Replaced(c, Len(c), i)], W(ExpertOf(Front2(c), End(c, 2)), i, End(c, 1))>> :
                                      i \in All(End(x.shape, 1))}))

AddedUp(packed, weights, tokens, shape) ==
  LET Rows(c) == {row \in All(End(packed.shape, 2)) : tokens.el[Front2(c) \o <<row>>] = End(c, 2)}
  IN Make(shape, LAMBDA c : SumOfProducts({<<0, weights.el[Front2(c) \o <<row>>],
                                             packed.el[Front2(c) \o <<row, End(c, 1)>>]>> : row \in Rows(c)}))
=============================================================================
