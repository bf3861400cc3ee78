------------------------------- MODULE Shapes -------------------------------
(***************************************************************************)
(* Shapes of tensors and the rules that combine them: core::Shape and the  *)
(* functions of src/core/ShapeUtil.cpp.  A dimension that the compiler     *)
(* does not know is Dynamic.  A rule that returns an error returns NoShape *)
(***************************************************************************)
EXTENDS Integers, SequencesExt

Dynamic == -1
NoShape == <<-2>>

HasDynamic(s) == \E i \in DOMAIN s : s[i] = Dynamic

Product(s) == FoldLeft(LAMBDA a, b : a * b, 1, s)
Numel(s) == IF HasDynamic(s) THEN Dynamic ELSE Product(s)

\* The k-th dimension from the right (1 is the last), 1 where there is none.
FromRight(s, k) == IF k <= Len(s) THEN s[Len(s) + 1 - k] ELSE 1

\* An operator on dimensions applied from the right; -2 stands for its error.
AlignRight(Dim(_, _), lhs, rhs) ==
  LET rank == Max({Len(lhs), Len(rhs)})
      dims == [i \in 1..rank |-> Dim(FromRight(lhs, rank + 1 - i), FromRight(rhs, rank + 1 - i))]
  IN IF \E i \in 1..rank : dims[i] = -2 THEN NoShape ELSE dims

BroadcastDim(l, r) ==
  CASE l = r -> l
    [] l = 1 -> r
    [] r = 1 -> l
    [] Dynamic \in {l, r} -> Dynamic
    [] OTHER -> -2

BroadcastShape(lhs, rhs) == AlignRight(BroadcastDim, lhs, rhs)

\* Batches of a product may also group: a multiple of the other side's is taken.
MatMulBatchDim(l, r) ==
  LET equal == BroadcastDim(l, r)
  IN IF equal # -2 THEN equal
     ELSE IF l > r /\ l % r = 0 THEN l
     ELSE IF r > l /\ r % l = 0 THEN r ELSE -2

MatMulBatchShape(lhs, rhs) == AlignRight(MatMulBatchDim, lhs, rhs)

InferReshapeShape(input, requested) ==
  LET open == {i \in DOMAIN requested : requested[i] = Dynamic}
      known == Product([i \in DOMAIN requested |-> IF i \in open THEN 1 ELSE requested[i]])
      \* several open dimensions: only leading ones, copied from the input
      leading == /\ open = 1..Cardinality(open)
                 /\ Cardinality(open) <= Len(input)
                 /\ \A i \in open : input[i] # Dynamic
      copied == [i \in DOMAIN requested |-> IF i \in open THEN input[i] ELSE requested[i]]
  IN CASE \E i \in DOMAIN requested : requested[i] < Dynamic -> NoShape
       [] HasDynamic(input) -> requested
       [] Cardinality(open) > 1 ->
            IF leading /\ Numel(copied) = Numel(input) THEN copied ELSE NoShape
       [] Cardinality(open) = 1 ->
            IF known # 0 /\ Numel(input) % known = 0
            THEN [i \in DOMAIN requested |->
                    IF i \in open THEN Numel(input) \div known ELSE requested[i]]
            ELSE NoShape
       [] OTHER -> IF Numel(requested) = Numel(input) THEN requested ELSE NoShape

-----------------------------------------------------------------------------
\* Two dimensions that both sides know are equal: the check that the compiler
\* makes wherever it relates dimensions of two operands.
Agree(a, b) == a < 0 \/ b < 0 \/ a = b

\* An axis counted from the left, or from the right when negative.
AxisInRange(axis, rank) == -rank <= axis /\ axis < rank
Axis(axis, rank) == (IF axis < 0 THEN axis + rank ELSE axis) + 1

Permuted(s, axes) == [i \in DOMAIN axes |-> s[axes[i] + 1]]
Transposed(s) == SubSeq(s, 1, Len(s) - 2) \o <<s[Len(s)], s[Len(s) - 1]>>
Without(s, axes) == LET kept == SelectSeq([i \in DOMAIN s |-> i], LAMBDA i : i \notin axes)
                    IN [i \in DOMAIN kept |-> s[kept[i]]]

\* A run-time shape that a compile-time shape stands for.
Refines(s, static) == /\ Len(s) = Len(static)
                      /\ \A i \in DOMAIN s : s[i] >= 0 /\ static[i] \in {Dynamic, s[i]}
=============================================================================
