------------------------------ MODULE CudaTopK -------------------------------
(***************************************************************************)
(* The k best elements of each row (src/device/cuda/CudaTopKKernels.cu).   *)
(* Long rows are cut into tiles: the warps of a block sort two elements per*)
(* lane each and merge their lists, and a second kernel merges the lists of*)
(* a row's tiles.  For short rows a block picks one element per round.     *)
(*                                                                         *)
(* A job is [kind, values, k, threshold, lanes, tileWarps, finalWarps,     *)
(* depth]; values[row + 1] is a row and 0 stands for -INFINITY.  The       *)
(* candidate of a column is its number; a block of the round kernel has    *)
(* 2^depth threads.                                                        *)
(***************************************************************************)
EXTENDS CudaStream

Rows == Len(job.values)
Axis == IF Rows = 0 THEN 0 ELSE Len(job.values[1])
Lanes == Numbers(job.lanes)
Capacity == 2 * job.lanes
NoCandidate == -1
InvalidCandidate == 1000000   \* the worst, with the last index

Value(row, c) == IF c \in Numbers(Axis) THEN job.values[row + 1][c + 1] ELSE 0
Better(row, lhs, rhs) ==
  /\ lhs # NoCandidate
  /\ \/ rhs = NoCandidate
     \/ Value(row, lhs) > Value(row, rhs)
     \/ Value(row, lhs) = Value(row, rhs) /\ lhs < rhs
Best(row, a, b) == IF Better(row, a, b) THEN a ELSE b
Worst(row, a, b) == IF Better(row, a, b) THEN b ELSE a
Select(row, mine, other, keepBetter) ==
  IF (IF keepBetter THEN Better(row, other, mine) ELSE Better(row, mine, other)) THEN other ELSE mine

-----------------------------------------------------------------------------
(***************************************************************************)
(* Networks of compare-and-exchange between the lanes of a warp.           *)
(***************************************************************************)
Lower(lane, stride) == (lane \div stride) % 2 = 0
Partner(lane, stride) == IF Lower(lane, stride) THEN lane + stride ELSE lane - stride

Powers == {n \in 1..job.lanes : \E i \in 0..job.lanes : n = 2 ^ i}
Strides == SetToSortSeq(Powers \ {job.lanes}, LAMBDA a, b : a > b)
Passes == SetToSortSeq({p \in Powers \X Powers : p[2] < p[1]},
                       LAMBDA p, q : p[1] < q[1] \/ (p[1] = q[1] /\ p[2] > q[2]))

\* warp_sort_32: the groups of each size alternate in direction.
WarpSort(row, values, descending) ==
  LET Pass(held, p) ==
        [l \in Lanes |-> Select(row, held[l], held[Partner(l, p[2])],
                                Lower(l, p[2]) = (Lower(l, p[1]) = descending))]
  IN FoldLeft(Pass, values, Passes)

\* What ends a bitonic merge: one candidate per lane, best first.
Settle(row, values) ==
  LET Exchange(held, stride) ==
        [l \in Lanes |-> Select(row, held[l], held[Partner(l, stride)], Lower(l, stride))]
  IN FoldLeft(Exchange, values, Strides)

\* Two registers per lane, as a list of Capacity candidates.
TwoPerLane(first, second) ==
  [i \in Numbers(Capacity) |-> IF i \in Lanes THEN first[i] ELSE second[i - job.lanes]]

\* warp_sort_64
SortTwo(row, first, second) ==
  LET up == WarpSort(row, first, TRUE)
      down == WarpSort(row, second, FALSE)
  IN TwoPerLane(Settle(row, [l \in Lanes |-> Best(row, up[l], down[l])]),
                Settle(row, [l \in Lanes |-> Worst(row, up[l], down[l])]))

\* warp_merge_topk_64, of which the better half is kept.
MergeFull(row, lhs, rhs) ==
  LET v0(l) == Best(row, lhs[l], rhs[Capacity - 1 - l])
      v1(l) == Best(row, lhs[l + job.lanes], rhs[job.lanes - 1 - l])
  IN TwoPerLane(Settle(row, [l \in Lanes |-> Best(row, v0(l), v1(l))]),
                Settle(row, [l \in Lanes |-> Worst(row, v0(l), v1(l))]))

\* merged_topk_rank: how many of the left list come before the rank, by bisection.
MergedRank(row, lhs, rhs, rank) ==
  LET k == job.k
      search[low \in 0..k, high \in -1..k] ==
        IF low > high THEN InvalidCandidate
        ELSE LET l == (low + high) \div 2
                 r == rank - l
             IN IF l > 0 /\ r < k /\ Better(row, rhs[r], lhs[l - 1]) THEN search[low, l - 1]
                ELSE IF r > 0 /\ l < k /\ Better(row, lhs[l], rhs[r - 1]) THEN search[l + 1, high]
                ELSE Best(row, IF l < k THEN lhs[l] ELSE InvalidCandidate, IF r < k THEN rhs[r] ELSE InvalidCandidate)
  IN search[IF rank > k THEN rank - k ELSE 0, IF rank < k THEN rank ELSE k]

\* warp_merge_topk: what a warp writes of a merged list.
Merge(row, lhs, rhs) ==
  IF job.k = Capacity THEN MergeFull(row, lhs, rhs)
  ELSE [rank \in Numbers(job.k) |-> MergedRank(row, lhs, rhs, rank)]
Begun(list) == [i \in Numbers(job.k) |-> list[i]]

-----------------------------------------------------------------------------
(***************************************************************************)
(* Tiles.  A thread is a warp; shared[b][bank][warp] is a list.            *)
(***************************************************************************)
TileElements == job.tileWarps * Capacity
Tiles == CeilDiv(Axis, TileElements)
Warps(name) == IF name = "tile" THEN job.tileWarps ELSE job.finalWarps
Row(name, b) == IF name = "tile" THEN b \div Tiles ELSE b
Rounds(name) == CHOOSE n \in 0..Warps(name) : 2 ^ n = Warps(name)

LaunchTopK ==
  LET Banks(name) == Zeros(2, Zeros(Warps(name), Zeros(job.k, 77)))
      Blocks(name, n) == Kernel(name, Numbers(n) \X Numbers(Warps(name)), <<>>, Banks(name))
  IN /\ todo # <<>> /\ Head(todo) = "topk"
     /\ Issue(IF Rows = 0 THEN <<>>
              ELSE IF Axis >= job.threshold /\ job.k > 1
              THEN <<Alloc("partials", Rows * Tiles), Blocks("tile", Rows * Tiles),
                     Blocks("finalize", Rows), Free("partials")>>
              ELSE <<Kernel("round", Numbers(Rows) \X Numbers(2 ^ job.depth), <<>>,
                            [best |-> Zeros(2 ^ job.depth, 77), selected |-> <<>>])>>)
     /\ UNCHANGED <<job, at, reg, shared, memory>>

SortTile(t) ==
  LET row == Row("tile", t[1])
      base == (t[1] % Tiles) * TileElements + t[2] * Capacity
      Load(offset) == [l \in Lanes |-> LET c == base + offset + l IN IF c < Axis THEN c ELSE InvalidCandidate]
  IN /\ Runs("tile", t) /\ at[t] = <<1, 1>>
     /\ shared' = [shared EXCEPT ![t[1]][0][t[2]] = Begun(SortTwo(row, Load(0), Load(job.lanes)))]
     /\ Goto(t, <<2, 2>>)
     /\ UNCHANGED <<job, todo, stream, reg, memory, failures>>

\* A warp of the second kernel merges every finalWarps-th list of its row,
\* from one of its banks to the other, and ends in the first.
MergeLists(t) ==
  LET row == t[1]
      first == row * Tiles + t[2]
      own == SelectSeq([i \in 1..Tiles |-> i - 1], LAMBDA i : i > t[2] /\ i % job.finalWarps = t[2])
      begun == IF t[2] < Tiles THEN Begun(memory.partials[first]) ELSE Zeros(job.k, InvalidCandidate)
      Step(merged, list) == Merge(row, merged, memory.partials[row * Tiles + list])
  IN /\ Runs("finalize", t) /\ at[t] = <<1, 1>>
     /\ shared' = [shared EXCEPT ![t[1]][0][t[2]] = FoldLeft(Step, begun, own)]
     /\ Goto(t, <<2, 2>>)
     /\ UNCHANGED <<job, todo, stream, reg, memory, failures>>

\* Mutant: a warp goes into the next round before the others have ended this one.
PhaseAfterRound_Same(phase) == phase

PhaseAfterRound(phase) == phase + 1

\* In each round half as many warps merge the lists of two.
MergeRound(name, t) ==
  LET round == at[t][2] - 1
      source == (round - 1) % 2
      lists == shared[t[1]][source]
      merging == t[2] < Warps(name) \div 2 ^ round
  IN /\ Runs(name, t) /\ round \in 1..Rounds(name)
     /\ shared' = IF merging
                  THEN [shared EXCEPT ![t[1]][1 - source][t[2]] =
                          Merge(Row(name, t[1]), lists[2 * t[2]], lists[2 * t[2] + 1])]
                  ELSE shared
     /\ Goto(t, <<PhaseAfterRound(at[t][1]), at[t][2] + 1>>)
     /\ UNCHANGED <<job, todo, stream, reg, memory, failures>>

\* The first warp stores the list of the last round.
StoreList(name, t) ==
  LET list == shared[t[1]][Rounds(name) % 2][0]
  IN /\ Runs(name, t) /\ at[t][2] = Rounds(name) + 2
     /\ memory' = IF t[2] # 0 THEN memory
                  ELSE IF name = "tile" THEN [memory EXCEPT !.partials[t[1]] = list]
                  ELSE [memory EXCEPT !.output[t[1]] = list]
     /\ Goto(t, Ended)
     /\ UNCHANGED <<job, todo, stream, reg, shared, failures>>

-----------------------------------------------------------------------------
(***************************************************************************)
(* Rounds.  Each picks the best of what no round has picked, in a phase to *)
(* publish, depth phases of a tree, and one to note the result.            *)
(***************************************************************************)
Rank(t) == (at[t][1] - 1) \div (job.depth + 2)
RoundStage(t) == (at[t][1] - 1) % (job.depth + 2)

Pick(t) ==
  LET selected == shared[t[1]].selected
      own == {c \in Numbers(Axis) : c % 2 ^ job.depth = t[2] /\ \A i \in DOMAIN selected : selected[i] # c}
      best == {c \in own : \A d \in own \ {c} : Better(t[1], c, d)}
  IN /\ Runs("round", t) /\ Rank(t) < job.k /\ RoundStage(t) = 0
     /\ shared' = [shared EXCEPT ![t[1]].best[t[2]] = IF own = {} THEN NoCandidate ELSE CHOOSE c \in best : TRUE]
     /\ Goto(t, <<at[t][1] + 1, 1>>)
     /\ UNCHANGED <<job, todo, stream, reg, memory, failures>>

Compare(t) ==
  LET stride == 2 ^ (job.depth - RoundStage(t))
      mine == shared[t[1]].best
  IN /\ Runs("round", t) /\ RoundStage(t) \in 1..job.depth
     /\ shared' = IF t[2] < stride /\ Better(t[1], mine[t[2] + stride], mine[t[2]])
                  THEN [shared EXCEPT ![t[1]].best[t[2]] = mine[t[2] + stride]] ELSE shared
     /\ Goto(t, <<at[t][1] + 1, 1>>)
     /\ UNCHANGED <<job, todo, stream, reg, memory, failures>>

Note(t) ==
  LET best == shared[t[1]].best[0]
  IN /\ Runs("round", t) /\ RoundStage(t) = job.depth + 1
     /\ IF t[2] = 0
        THEN /\ shared' = [shared EXCEPT ![t[1]].selected = Append(@, best)]
             /\ memory' = [memory EXCEPT !.output[t[1]] = (Rank(t) :> best) @@ @]
        ELSE UNCHANGED <<shared, memory>>
     /\ Goto(t, IF Rank(t) + 1 = job.k THEN Ended ELSE <<at[t][1] + 1, 1>>)
     /\ UNCHANGED <<job, todo, stream, reg, failures>>

TopKStep(t) ==
  \/ SortTile(t) \/ MergeLists(t)
  \/ \E name \in {"tile", "finalize"} : MergeRound(name, t) \/ StoreList(name, t)
  \/ Pick(t) \/ Compare(t) \/ Note(t)

TopKArrays == [output |-> Zeros(Rows, <<>>)]

-----------------------------------------------------------------------------
\* However a row is cut and in whatever order the warps run: the output of a run
\* without failure is the k greatest elements of the row, greatest first and of
\* equal ones the first first; and the lists of the tiles are given back.
BestChosen ==
  LET Ahead(row, c) == {d \in Numbers(Axis) : row[d + 1] > row[c + 1] \/ (row[d + 1] = row[c + 1] /\ d < c)}
  IN job.kind = "topk" /\ Done =>
       /\ DOMAIN memory = {"output"}
       /\ failures = {} => \A r \in Numbers(Rows) :
            LET chosen == memory.output[r]
            IN /\ DOMAIN chosen = Numbers(job.k)
               /\ \A rank \in Numbers(job.k) :
                    /\ chosen[rank] \in Numbers(Axis)
                    /\ Cardinality(Ahead(job.values[r + 1], chosen[rank])) = rank
=============================================================================
