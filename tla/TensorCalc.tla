----------------------------- MODULE TensorCalc -----------------------------
(***************************************************************************)
(* The reference kernels of src/core/TensorCalc.cpp: which elements each   *)
(* one reads, at which index it stores, and what it computes of them.      *)
(*                                                                         *)
(* A tensor is [shape, strides, offset, data]; data holds its storage.     *)
(* Integers of an index tensor are themselves, floating-point numbers are  *)
(* terms over the elements of the inputs.  A kernel returns a set of       *)
(* writes [at, value] per output, or Error.  Element types are left out.   *)
(***************************************************************************)
EXTENDS Shapes

Error == <<>>
At(index, value) == [at |-> index, value |-> value]

Strides(shape) == [a \in DOMAIN shape |-> Product(SubSeq(shape, a + 1, Len(shape)))]
Ref(shape, strides, offset, data) ==
  [shape |-> shape, strides |-> strides, offset |-> offset, data |-> data]
Dense(shape, data) == Ref(shape, Strides(shape), 0, data)

Dot(coords, strides) == FoldLeft(LAMBDA sum, a : sum + coords[a] * strides[a], 0,
                                 [a \in DOMAIN coords |-> a])
\* The coordinates of the i-th element in row-major order.
Coords(shape, i) == LET s == Strides(shape) IN [a \in DOMAIN shape |-> (i \div s[a]) % shape[a]]

Size(x) == Numel(x.shape)
All(n) == 0..(n - 1)
Indices(x) == All(Size(x))
StorageIndex(x, i) == x.offset + Dot(Coords(x.shape, i), x.strides)
Load(x, i) == x.data[StorageIndex(x, i) + 1]
IsContiguous(x) == x.offset = 0 /\ x.strides = Strides(x.shape)
\* The bytes reach to the last element.
RequireBytes(x) ==
  Size(x) = 0 \/ x.offset + Dot([a \in DOMAIN x.shape |-> x.shape[a] - 1], x.strides) < Len(x.data)

-----------------------------------------------------------------------------
(***************************************************************************)
(* Terms.  -infinity is what a mask stores; its exponential is Zero, and a *)
(* product with Zero adds nothing to a sum.                                *)
(***************************************************************************)
Zero == <<"zero">>
Masked == <<"-inf">>
Term(function, args) == <<function, args>>
\* A sum of products, named by the place of each in the loop.
SumOfProducts(terms) ==
  LET kept == {t \in terms : t[2] # Zero /\ t[3] # Zero}
  IN IF kept = {} THEN Zero ELSE Term("dot", kept)
\* One element of a softmax over the terms <<place, term>>.
SoftmaxOf(own, terms) ==
  IF own = Masked THEN Zero ELSE Term("softmax", <<own, {t \in terms : t[2] # Masked}>>)

-----------------------------------------------------------------------------
\* Element-wise kernels, whose operands broadcast.
BroadcastSourceIndex(i, outShape, shape) ==
  LET c == Coords(outShape, i)
      s == Strides(shape)
      shift == Len(outShape) - Len(shape)
  IN Dot([a \in DOMAIN shape |-> IF shape[a] = 1 THEN 0 ELSE c[a + shift]], s)

UnaryElementwise(op, x) == <<{At(i, Term(op, <<Load(x, i)>>)) : i \in Indices(x)}>>
BinaryElementwise(op, lhs, rhs) ==
  LET out == BroadcastShape(lhs.shape, rhs.shape)
      Operand(x, i) == Load(x, BroadcastSourceIndex(i, out, x.shape))
  IN IF out = NoShape THEN Error
     ELSE <<{At(i, Term(op, <<Operand(lhs, i), Operand(rhs, i)>>)) : i \in All(Product(out))}>>

-----------------------------------------------------------------------------
\* Matrix products.
Linear(x, weight, bias) ==
  LET in == FromRight(x.shape, 1)
      out == weight.shape[1]
      Acc(b, o) == SumOfProducts({<<i, Load(x, b * in + i), Load(weight, o * in + i)>> : i \in All(in)})
  IN IF \/ Len(x.shape) < 2 \/ Len(weight.shape) # 2 \/ Len(bias.shape) # 1
        \/ weight.shape[2] # in \/ bias.shape[1] # out THEN Error
     ELSE <<{At(b * out + o, Term("plus", <<Load(bias, o), Acc(b, o)>>)) :
              b \in All(Size(x) \div in), o \in All(out)}>>

\* Where the matrix of a batch begins; a smaller batch dimension is shared by groups.
MatMulBatchOffset(i, batch, shape) ==
  LET c == Coords(batch, i)
      s == Strides(shape)
      shift == Len(batch) - (Len(shape) - 2)
      Coord(a) == CASE shape[a] = 1 -> 0
                    [] shape[a] # batch[a + shift] -> c[a + shift] \div (batch[a + shift] \div shape[a])
                    [] OTHER -> c[a + shift]
  IN FoldLeft(LAMBDA sum, a : sum + Coord(a) * s[a], 0, [a \in 1..(Len(shape) - 2) |-> a])

\* What the two matrices of a product are: [batch, m, n, k], k = -1 if they do not fit.
ProductDims(lhs, rhs, transLhs, transRhs) ==
  LET l == lhs.shape r == rhs.shape
      k == FromRight(l, IF transLhs THEN 2 ELSE 1)
      batch == MatMulBatchShape(SubSeq(l, 1, Len(l) - 2), SubSeq(r, 1, Len(r) - 2))
  IN [batch |-> batch, m |-> FromRight(l, IF transLhs THEN 1 ELSE 2),
      n |-> FromRight(r, IF transRhs THEN 2 ELSE 1),
      k |-> IF \/ Len(l) < 2 \/ Len(r) < 2 \/ batch = NoShape
               \/ k # FromRight(r, IF transRhs THEN 1 ELSE 2) THEN -1 ELSE k]

MatMul(lhs, rhs, transLhs, transRhs) ==
  LET d == ProductDims(lhs, rhs, transLhs, transRhs)
      Element(x, b, row, col) ==
        Load(x, MatMulBatchOffset(b, d.batch, x.shape) + row * FromRight(x.shape, 1) + col)
      Left(b, row, k) == IF transLhs THEN Element(lhs, b, k, row) ELSE Element(lhs, b, row, k)
      Right(b, k, col) == IF transRhs THEN Element(rhs, b, col, k) ELSE Element(rhs, b, k, col)
  IN IF d.k < 0 THEN Error
     ELSE <<{At((b * d.m + row) * d.n + col,
                SumOfProducts({<<k, Left(b, row, k), Right(b, k, col)>> : k \in All(d.k)})) :
              b \in All(Product(d.batch)), row \in All(d.m), col \in All(d.n)}>>

\* cublasGemmEx, which is column-major: m x n of m x k times k x n.
Gemm(transA, transB, m, n, k, a, lda, b, ldb, ldc) ==
  LET A(i, l) == a.data[(IF transA THEN l + i * lda ELSE i + l * lda) + 1]
      B(l, j) == b.data[(IF transB THEN j + l * ldb ELSE l + j * ldb) + 1]
  IN <<{At(i + j * ldc, SumOfProducts({<<l, B(l, j), A(i, l)>> : l \in All(k)})) :
         i \in All(m), j \in All(n)}>>

\* The same product by cuBLAS: the transposed operands in the other order.
CanUseCublas(lhs, rhs, transLhs, transRhs) ==
  LET d == ProductDims(lhs, rhs, transLhs, transRhs)
  IN /\ d.k >= 0 /\ IsContiguous(lhs) /\ IsContiguous(rhs)
     /\ (~transLhs /\ Len(rhs.shape) = 2) \/ Product(d.batch) = 1
MatMulCublas(lhs, rhs, transLhs, transRhs) ==
  LET d == ProductDims(lhs, rhs, transLhs, transRhs)
      shared == ~transLhs /\ Len(rhs.shape) = 2
      rows == IF shared THEN Product(d.batch) * d.m ELSE d.m
  IN Gemm(transRhs, transLhs, d.n, rows, d.k, rhs, FromRight(rhs.shape, 1),
          lhs, FromRight(lhs.shape, 1), d.n)

-----------------------------------------------------------------------------
\* Layout kernels, which copy.
Transpose(x) ==
  LET out == Transposed(x.shape)
      s == Strides(out)
  IN <<{At(i, Load(x, (i % s[1]) * Strides(x.shape)[1] + i \div s[1])) : i \in All(Product(out))}>>
Reshape(x) == <<{At(i, Load(x, i)) : i \in Indices(x)}>>
Permute(x, dims) ==
  LET out == Permuted(x.shape, dims)
      Source(i) == LET c == Coords(out, i)
                   IN FoldLeft(LAMBDA sum, a : sum + c[a] * Strides(x.shape)[dims[a] + 1], 0,
                               [a \in DOMAIN dims |-> a])
  IN <<{At(i, Load(x, Source(i))) : i \in All(Product(out))}>>

-----------------------------------------------------------------------------
(***************************************************************************)
(* Attention.  Positions are <<>> or <<the index tensor>>.                 *)
(***************************************************************************)
AttentionDims(q, k) ==
  [batch |-> FromRight(q.shape, 4), heads |-> FromRight(q.shape, 3), kvHeads |-> FromRight(k.shape, 3),
   tq |-> FromRight(q.shape, 2), tk |-> FromRight(k.shape, 2), dim |-> FromRight(q.shape, 1)]
AttentionFits(q, k) ==
  LET d == AttentionDims(q, k)
  IN /\ Len(q.shape) \in {3, 4} /\ Len(k.shape) = Len(q.shape)
     /\ FromRight(k.shape, 4) = d.batch /\ FromRight(k.shape, 1) = d.dim
     /\ d.heads > 0 /\ d.kvHeads > 0 /\ d.heads % d.kvHeads = 0

\* Where a query stands: its place in the chunk, moved by the position of its
\* batch or of all of them, or given for each query.
ScorePosition(positions, rank, d, b, qi) ==
  CASE positions = <<>> -> qi
    [] rank = 4 /\ Size(positions[1]) = d.batch -> Load(positions[1], b) + qi
    [] Size(positions[1]) = 1 -> Load(positions[1], 0) + qi
    [] OTHER -> Load(positions[1], qi)

Visible(position, window, ki) ==
  /\ ki <= position
  /\ ki >= IF window > 0 THEN Max({0, position + 1 - window}) ELSE 0

\* Queries share a key head by groups.
QueryIndex(d, b, h, qi, e) == ((b * d.heads + h) * d.tq + qi) * d.dim + e
KeyIndex(d, b, h, ki, e) ==
  ((b * d.kvHeads + h \div (d.heads \div d.kvHeads)) * d.tk + ki) * d.dim + e
QueryKey(q, k, d, b, h, qi, ki) ==
  SumOfProducts({<<e, Load(q, QueryIndex(d, b, h, qi, e)), Load(k, KeyIndex(d, b, h, ki, e))>> : e \in All(d.dim)})

Score(q, k, positions, window) ==
  LET d == AttentionDims(q, k)
      Position(b, qi) == ScorePosition(positions, Len(q.shape), d, b, qi)
      counts == {1, d.tq} \cup (IF Len(q.shape) = 4 THEN {d.batch} ELSE {})
  IN IF \/ ~AttentionFits(q, k)
        \/ positions # <<>> /\ Size(positions[1]) \notin counts
        \/ \E b \in All(d.batch), qi \in All(d.tq) : Position(b, qi) < 0 THEN Error
     ELSE <<{At(((b * d.heads + h) * d.tq + qi) * d.tk + ki,
                IF Visible(Position(b, qi), window, ki) THEN QueryKey(q, k, d, b, h, qi, ki) ELSE Masked) :
              b \in All(d.batch), h \in All(d.heads), qi \in All(d.tq), ki \in All(d.tk)}>>

\* The same without a tensor of scores: a row that sees no key is zero.
Attention(q, k, v, offsets, window) ==
  LET d == AttentionDims(q, k)
      Base(b) == IF offsets = <<>> THEN 0 ELSE Load(offsets[1], IF Len(q.shape) = 4 THEN b ELSE 0)
      Seen(b, qi) == {ki \in All(d.tk) : Visible(Base(b) + qi, window, ki)}
      Scores(b, h, qi) == {<<ki, QueryKey(q, k, d, b, h, qi, ki)>> : ki \in Seen(b, qi)}
      Row(b, h, qi) ==
        LET scores == Scores(b, h, qi)
        IN {At(QueryIndex(d, b, h, qi, e),
               SumOfProducts({<<s[1], SoftmaxOf(s[2], scores), Load(v, KeyIndex(d, b, h, s[1], e))>> : s \in scores})) :
             e \in All(d.dim)}
  IN IF \/ ~AttentionFits(q, k) \/ v.shape # k.shape
        \/ offsets # <<>> /\ Size(offsets[1]) # d.batch
        \/ \E b \in All(d.batch) : Base(b) < 0 THEN Error
     ELSE <<UNION {Row(b, h, qi) : b \in All(d.batch), h \in All(d.heads), qi \in All(d.tq)}>>

-----------------------------------------------------------------------------
(***************************************************************************)
(* Kernels along one axis: the elements of lane (o, i) lie inner apart.    *)
(***************************************************************************)
Inner(shape, axis) == Product(SubSeq(shape, axis + 1, Len(shape)))
Lanes(shape, axis) ==
  All(Product(shape) \div (shape[axis] * Inner(shape, axis))) \X All(Inner(shape, axis))
LaneIndex(shape, axis, lane, a) ==
  lane[1] * shape[axis] * Inner(shape, axis) + lane[2] + a * Inner(shape, axis)
Lane(x, axis, lane) ==
  {<<a, Load(x, LaneIndex(x.shape, axis, lane, a))>> : a \in All(x.shape[axis])}

SoftmaxKernel(x, dim) ==
  LET axis == Axis(dim, Len(x.shape))
      Normalised(lane) ==
        LET terms == Lane(x, axis, lane)
        IN {At(LaneIndex(x.shape, axis, lane, e[1]), SoftmaxOf(e[2], terms)) : e \in terms}
  IN IF ~AxisInRange(dim, Len(x.shape)) THEN Error
     ELSE IF Size(x) = 0 THEN <<{}>>
     ELSE <<UNION {Normalised(lane) : lane \in Lanes(x.shape, axis)}>>

SumKernel(x, dim) ==
  LET axis == Axis(dim, Len(x.shape))
  IN IF ~AxisInRange(dim, Len(x.shape)) \/ x.shape[axis] = 0 THEN Error
     ELSE <<{At(lane[1] * Inner(x.shape, axis) + lane[2], Term("sum", Lane(x, axis, lane))) :
              lane \in Lanes(x.shape, axis)}>>

\* The k largest, equal ones by their place.  (Numbers are <<"num", n>>.)
Beats(e, f) == e[2][2] > f[2][2] \/ (e[2][2] = f[2][2] /\ e[1] < f[1])
TopK(x, k, dim) ==
  LET axis == Axis(dim, Len(x.shape))
      out == [x.shape EXCEPT ![axis] = k]
      Out(lane, f) == LET ranked == SetToSortSeq(Lane(x, axis, lane), Beats)
                      IN {At(LaneIndex(out, axis, lane, r), ranked[r + 1][f]) : r \in All(k)}
  IN IF ~AxisInRange(dim, Len(x.shape)) \/ k <= 0 \/ k > x.shape[axis] THEN Error
     ELSE << UNION {Out(lane, 2) : lane \in Lanes(x.shape, axis)},
             UNION {Out(lane, 1) : lane \in Lanes(x.shape, axis)} >>

-----------------------------------------------------------------------------
\* Rows of a table.
Embedding(ids, weight) ==
  LET hidden == IF Len(weight.shape) = 2 THEN weight.shape[2] ELSE 1
  IN IF \/ Len(weight.shape) \notin {1, 2}
        \/ \E i \in Indices(ids) : Load(ids, i) \notin All(weight.shape[1]) THEN Error
     ELSE <<{At(i * hidden + h, Load(weight, Load(ids, i) * hidden + h)) :
              i \in Indices(ids), h \in All(hidden)}>>

\* Rotations of pairs of a row by the position of the row.  The first
\* rotary numbers turn (0: all), or as many pairs of the two halves.
RoPEPosition(x, positions, vector) ==
  LET seq == FromRight(x.shape, 2)
      count == Size(positions[1])
      vectors == Size(x) \div FromRight(x.shape, 1)
  IN CASE positions = <<>> -> vector % seq
       [] count = 1 -> Load(positions[1], 0) + (vector % seq)
       [] count = vectors -> Load(positions[1], vector)
       [] OTHER -> Load(positions[1], vector % seq)

RoPE(x, positions, rotary, splitHalf) ==
  LET dim == FromRight(x.shape, 1)
      turned == IF rotary < 0 THEN dim ELSE rotary
      vectors == Size(x) \div dim
      \* the two places of a pair, and the number its frequency is divided by
      First(pair) == IF splitHalf THEN pair ELSE 2 * pair
      Second(pair) == IF splitHalf THEN dim \div 2 + pair ELSE 2 * pair + 1
      base == IF splitHalf THEN dim ELSE turned
      pairs == All(turned \div 2)
      kept == All(dim) \ ({First(pair) : pair \in pairs} \cup {Second(pair) : pair \in pairs})
      Turn(vector, pair, side) ==
        Term(side, <<RoPEPosition(x, positions, vector), pair, base,
                              Load(x, vector * dim + First(pair)), Load(x, vector * dim + Second(pair))>>)
      Row(vector) ==
        {At(vector * dim + First(pair), Turn(vector, pair, "turn-x")) : pair \in pairs}
        \cup {At(vector * dim + Second(pair), Turn(vector, pair, "turn-y")) : pair \in pairs}
        \cup {At(vector * dim + i, Load(x, vector * dim + i)) : i \in kept}
  IN IF \/ Len(x.shape) < 2 \/ dim = 0 \/ dim % 2 # 0 \/ turned <= 0 \/ turned % 2 # 0 \/ turned > dim
        \/ positions # <<>> /\ Size(positions[1]) \notin {1, FromRight(x.shape, 2), vectors}
        \/ \E vector \in All(vectors) : RoPEPosition(x, positions, vector) < 0 THEN Error
     ELSE <<UNION {Row(vector) : vector \in All(vectors)}>>

\* Normalisation of the rows; a bias only for the layer norm.
Norm(kind, x, weights) ==
  LET n == FromRight(x.shape, 1)
      Row(row) == {<<i, Load(x, row * n + i)>> : i \in All(n)}
  IN IF \E w \in ToSet(weights) : Len(w.shape) # 1 \/ w.shape[1] # n THEN Error
     ELSE <<UNION {{At(row * n + e[1], Term(kind, <<e[2], Row(row)>> \o [j \in DOMAIN weights |-> Load(weights[j], e[1])])) :
                     e \in Row(row)} : row \in All(Size(x) \div n)}>>

-----------------------------------------------------------------------------
(***************************************************************************)
(* Mixture of experts.  A route is a token's slot, number token * topK +   *)
(* slot; the rows are packed expert by expert, in the order of the routes. *)
(***************************************************************************)
RoutesOf(ids, b, routes, expert) ==
  SelectSeq([r \in 1..routes |-> r - 1], LAMBDA r : Load(ids, b * routes + r) = expert)

\* Mutant: rows are packed in the order of the tokens.
Packed_ByToken(ids, b, routes, experts) == [r \in 1..routes |-> r - 1]

Packed(ids, b, routes, experts) ==
  FoldLeft(LAMBDA packed, expert : packed \o RoutesOf(ids, b, routes, expert - 1), <<>>, [e \in 1..experts |-> e])

MoeGather(x, ids, weights, experts, topK) ==
  LET batch == FromRight(x.shape, 3)
      routes == FromRight(x.shape, 2) * topK
      hidden == FromRight(x.shape, 1)
      seq == FromRight(x.shape, 2)
      \* the kernels of each batch, row by row
      Rows(b) == LET packed == Packed(ids, b, routes, experts)
                 IN {<<b * routes + row - 1, b, packed[row]>> : row \in DOMAIN packed}
      rows == UNION {Rows(b) : b \in All(batch)}
      FirstRow(b, expert) == Len(Packed(ids, b, routes, expert))
  IN IF \/ Len(x.shape) \notin {2, 3} \/ experts <= 0 \/ topK <= 0
        \/ \E i \in Indices(ids) : Load(ids, i) \notin All(experts) THEN Error
     ELSE << {At(r[1] * hidden + h, Load(x, (r[2] * seq + r[3] \div topK) * hidden + h)) :
                r \in rows, h \in All(hidden)},
             {At(r[1], Load(weights, r[2] * routes + r[3])) : r \in rows},
             {At(r[1], r[3] \div topK) : r \in rows},
             {At(b * (experts + 1) + expert, FirstRow(b, expert)) : b \in All(batch), expert \in 0..experts} >>

MoeMatMul(x, offsets, weight, transRhs) ==
  LET batch == FromRight(x.shape, 3)
      rows == FromRight(x.shape, 2)
      in == FromRight(x.shape, 1)
      experts == weight.shape[1]
      out == weight.shape[IF transRhs THEN 2 ELSE 3]
      Offset(b, expert) == Load(offsets, b * (experts + 1) + expert)
      WeightAt(expert, o, i) == IF transRhs THEN (expert * out + o) * in + i ELSE (expert * in + i) * out + o
      Product2(b, row, expert, o) ==
        SumOfProducts({<<i, Load(x, (b * rows + row) * in + i), Load(weight, WeightAt(expert, o, i))>> : i \in All(in)})
      Expert(b, expert) ==
        {At((b * rows + row) * out + o, Product2(b, row, expert, o)) :
           row \in Offset(b, expert)..(Offset(b, expert + 1) - 1), o \in All(out)}
  IN IF \/ weight.shape[IF transRhs THEN 3 ELSE 2] # in
        \/ \E b \in All(batch), expert \in All(experts) :
             Offset(b, expert) < 0 \/ Offset(b, expert + 1) \notin Offset(b, expert)..rows THEN Error
     ELSE <<UNION {Expert(b, expert) : b \in All(batch), expert \in All(experts)}>>

\* Every token's rows, weighted and added up.
MoeScatterSum(packed, weights, tokens, out) ==
  LET batch == FromRight(out, 3)
      rows == FromRight(packed.shape, 2)
      hidden == FromRight(packed.shape, 1)
      Received(b, token, h) ==
        SumOfProducts({<<0, Load(weights, b * rows + row), Load(packed, (b * rows + row) * hidden + h)>> :
                         row \in {row \in All(rows) : Load(tokens, b * rows + row) = token}})
  IN IF \E i \in Indices(tokens) : Load(tokens, i) \notin All(FromRight(out, 2)) THEN Error
     ELSE <<{At((b * FromRight(out, 2) + token) * hidden + h, Received(b, token, h)) :
              b \in All(batch), token \in All(FromRight(out, 2)), h \in All(hidden)}>>
=============================================================================
