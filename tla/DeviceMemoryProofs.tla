-------------------------- MODULE DeviceMemoryProofs -------------------------
(***************************************************************************)
(* Proofs about the memory that devices plan and share: ScratchPlan, for   *)
(* every program, every tensor size and every alignment, and CpuPages, for *)
(* every pool, every length and every chunk.                               *)
(*                                                                         *)
(* ScratchPlan: an operation finds its inputs in scratch as they were      *)
(* written, and nothing that the caller sees lies there.                   *)
(* That inputs are intact is not inductive: it looks at one operation of a *)
(* run, and the reason lies in the planning pass.  There, a value is live  *)
(* from its operation to the last one that reads it or a view of it, and   *)
(* the allocator keeps live values apart; so the layout keeps apart any    *)
(* two values of which the second is written while the first is needed,    *)
(* and in a run the values still needed keep what they hold.               *)
(*                                                                         *)
(* CpuPages: every page has one owner, and tensors are lists of rows.      *)
(* That takes where pages lie in the arena (one after another, all within  *)
(* it), that a tensor has pages for its rows, and what a refusal left of   *)
(* the pool.  Rows are then told apart by their places: page, row in the   *)
(* page and element are the digits of one number.                          *)
(***************************************************************************)
EXTENDS ScratchPlan, CpuPages, SequenceTheorems, WellFoundedInduction, TLAPS

A == INSTANCE ScratchAllocatorProofs
    WITH Values <- Ops, Sizes <- {StaticSize[v] : v \in Ops} \cup RunSizes

Private(v) == graph.kind[v] = "kernel" /\ ~Escaped(v)

TypeInv ==
    /\ graph \in Graphs
    /\ pass \in {"fixed", "dynamic", "run"}
    /\ index \in 1..(NumOps + 1)
    /\ placed \in BOOLEAN /\ (placed => Planning /\ index \in Ops)
    /\ runSize \in RunSizes

\* What a planning pass has placed so far, and how long it stays live.
PassInv ==
    /\ A!IInv /\ ~finalized
    /\ ~Planning => DOMAIN placements = {}
    /\ Planning => DOMAIN placements =
          {v \in Ops : Candidate(v) /\ (v < index \/ (v = index /\ placed))}
    /\ \A v \in live : LastUse(v) >= index
    /\ \A v \in DOMAIN placements :
          LastUse(v) > index \/ (LastUse(v) = index /\ ~placed) => v \in live
    /\ \A v, w \in DOMAIN placements :
          v < w /\ w <= LastUse(v) => A!Disjoint(placements[v], placements[w])

BufferOf(v) == IF v \in graph.dynamic THEN "dynamic" ELSE "fixed"

LayoutInv ==
    /\ DOMAIN layout =
          {v \in Ops : Private(v) /\ (pass = "run" \/ (pass = "dynamic" /\ v \notin graph.dynamic))}
    /\ \A v \in DOMAIN layout :
          layout[v].buffer = BufferOf(v) /\ layout[v].range \in A!MemoryRange
    /\ \A v, w \in DOMAIN layout :
          v < w /\ w <= LastUse(v) /\ BufferOf(v) = BufferOf(w)
              => A!Disjoint(layout[v].range, layout[w].range)

\* In a run, every value that is still to be read is where it was written.
MemoryInv ==
    pass = "run" =>
        \A v \in DOMAIN layout :
            v < index /\ index <= LastUse(v) =>
                \A cell \in CellsOf(v) : cell \in DOMAIN memory /\ memory[cell] = v

IInv == TypeInv /\ PassInv /\ LayoutInv /\ MemoryInv

-----------------------------------------------------------------------------
\* A set of numbers has a smallest one.
LEMMA Smallest ==
    ASSUME NEW T \in SUBSET Nat, T # {}
    PROVE  \E x \in T : \A y \in T : x <= y
<1> DEFINE R == OpToRel(<, Nat)
<1>1. IsWellFoundedOn(R, Nat)
  BY NatLessThanWellFounded, Zenon
<1>2. PICK x \in T : \A y \in T : ~(<<y, x>> \in R)
  <2> HIDE DEF R
  <2> QED BY <1>1, WFMin
<1>3. \A y \in T : <<y, x>> \in R <=> y < x
  BY DEF OpToRel
<1>4. \A y \in T : y \in Nat
  OBVIOUS
<1>5. \A y \in T : ~(y < x)
  BY <1>2, <1>3, Zenon
<1> HIDE DEF R
<1> QED BY <1>4, <1>5

\* A bounded one has a largest.
LEMMA Largest ==
    ASSUME NEW n \in Nat, NEW T \in SUBSET (0..n), T # {}
    PROVE  \E x \in T : \A y \in T : y <= x
<1> DEFINE U == {n - x : x \in T}
<1>1. U \in SUBSET Nat /\ U # {}
  <2>1. \A x \in T : n - x \in Nat
    OBVIOUS
  <2> QED BY <2>1
<1>2. PICK z \in U : \A y \in U : z <= y
  <2> HIDE DEF U
  <2> QED BY <1>1, Smallest
<1>3. PICK x \in T : z = n - x
  BY <1>2
<1>4. \A y \in T : n - x <= n - y
  BY <1>2, <1>3
<1>5. \A y \in T : y \in 0..n
  OBVIOUS
<1> QED BY <1>4, <1>5

LEMMA Induction ==
    ASSUME NEW T \in SUBSET Nat, 0 \in T, \A n \in T : n + 1 \in T
    PROVE  T = Nat
<1>1. SUFFICES ASSUME Nat \ T # {} PROVE FALSE
  OBVIOUS
<1>2. PICK x \in Nat \ T : \A y \in Nat \ T : x <= y
  BY <1>1, Smallest
<1>3. x # 0
  BY <1>2
<1>4. x - 1 \in T
  BY <1>2, <1>3
<1> QED BY <1>2, <1>4

\* What holds of 0 and of a number after one it holds of holds up to n.
LEMMA ByPrevious ==
    ASSUME NEW n \in Nat, NEW T, 0 \in T, \A k \in 1..n : k - 1 \in T => k \in T
    PROVE  \A k \in 0..n : k \in T
<1> SUFFICES ASSUME NEW m \in 0..n, m \notin T PROVE FALSE
  OBVIOUS
<1> DEFINE R == {k \in 0..n : k \notin T}
<1>1. R \in SUBSET Nat /\ R # {}
  OBVIOUS
<1>2. PICK x \in R : \A y \in R : x <= y
  <2> HIDE DEF R
  <2> QED BY <1>1, Smallest
<1>3. x \in 1..n /\ x \notin T
  BY <1>2
<1>4. x - 1 \in 0..n /\ ~(x <= x - 1)
  BY <1>3
<1>5. x - 1 \in T
  BY <1>2, <1>4
<1> QED BY <1>3, <1>5

-----------------------------------------------------------------------------
\* Roots, last uses and escapes depend on the program alone.
Viewed(g, v) == CHOOSE input \in g.inputs[v] : TRUE
StandsFor(g, root, v) == IF v # 0 /\ g.kind[v] = "alias" THEN root[Viewed(g, v)] ELSE v

RootsOf(g) == CHOOSE root : root = [v \in 0..NumOps |->
                  IF v # 0 /\ g.kind[v] = "alias"
                  THEN root[CHOOSE input \in g.inputs[v] : TRUE] ELSE v]
UsesOf(g, v) == {i \in Ops : \E input \in g.inputs[i] : RootsOf(g)[input] = v}
LastOf(g, v) == CHOOSE i \in UsesOf(g, v) \cup {v} : \A j \in UsesOf(g, v) : j <= i
EscapedIn(g, v) == \E value \in g.exports : RootsOf(g)[value] = RootsOf(g)[v]

LEMMA OfProgram ==
    /\ Root = RootsOf(graph)
    /\ \A v : LastUse(v) = LastOf(graph, v)
    /\ \A v : Escaped(v) <=> EscapedIn(graph, v)
<1>1. Root = RootsOf(graph)
  BY DEF Root, RootsOf
<1>2. \A v : LastUse(v) = LastOf(graph, v)
  BY <1>1, Zenon DEF LastUse, LastOf, UsesOf
<1>3. \A v : Escaped(v) <=> EscapedIn(graph, v)
  BY <1>1 DEF Escaped, EscapedIn
<1> QED BY <1>1, <1>2, <1>3

LEMMA OfProgramNext ==
    /\ Root' = RootsOf(graph')
    /\ \A v : LastUse(v)' = LastOf(graph', v)
    /\ \A v : Escaped(v)' <=> EscapedIn(graph', v)
<1>1. Root' = RootsOf(graph')
  BY DEF Root, RootsOf
<1>2. \A v : LastUse(v)' = LastOf(graph', v)
  BY <1>1, Zenon DEF LastUse, LastOf, UsesOf
<1>3. \A v : Escaped(v)' <=> EscapedIn(graph', v)
  BY <1>1 DEF Escaped, EscapedIn
<1> QED BY <1>1, <1>2, <1>3

LEMMA SameProgram ==
    ASSUME graph' = graph
    PROVE  /\ Root' = Root
           /\ \A v : LastUse(v)' = LastUse(v)
           /\ \A v : Escaped(v)' <=> Escaped(v)
           /\ \A v : Private(v)' <=> Private(v)
           /\ \A v : BufferOf(v)' = BufferOf(v)
<1> HIDE DEF Root
<1>1. /\ Root' = Root
      /\ \A v : LastUse(v)' = LastUse(v)
      /\ \A v : Escaped(v)' <=> Escaped(v)
  BY OfProgram, OfProgramNext, Zenon
<1> QED BY <1>1 DEF Private, BufferOf

\* Following views downwards ends: there is a table of roots.
LEMMA RootsExist ==
    ASSUME NEW g \in Graphs
    PROVE  \E root \in [0..NumOps -> 0..NumOps] :
              root = [v \in 0..NumOps |-> StandsFor(g, root, v)]
<1> DEFINE T == {n \in Nat : n <= NumOps =>
                    \E root \in [0..n -> 0..n] : \A v \in 0..n : root[v] = StandsFor(g, root, v)}
<1>1. NumOps \in Nat
  BY PlanAssumption
<1>2. 0 \in T
  <2>1. PICK root \in [0..0 -> 0..0] : root[0] = 0
    <3>1. [v \in 0..0 |-> 0] \in [0..0 -> 0..0] /\ [v \in 0..0 |-> 0][0] = 0
      OBVIOUS
    <3> QED BY <3>1
  <2>2. \A v \in 0..0 : v = 0
    OBVIOUS
  <2>3. StandsFor(g, root, 0) = 0
    BY DEF StandsFor
  <2> QED BY <2>1, <2>2, <2>3
<1>3. ASSUME NEW n \in T PROVE n + 1 \in T
  <2>1. n \in Nat /\ n + 1 \in Nat
    OBVIOUS
  <2>2. SUFFICES ASSUME n + 1 <= NumOps
                 PROVE  \E root \in [0..(n + 1) -> 0..(n + 1)] :
                           \A v \in 0..(n + 1) : root[v] = StandsFor(g, root, v)
    BY <2>1
  <2>3. PICK root \in [0..n -> 0..n] : \A v \in 0..n : root[v] = StandsFor(g, root, v)
    <3>1. n <= NumOps
      BY <1>1, <2>1, <2>2
    <3> QED BY <1>3, <3>1
  <2>4. PICK m \in Nat : m = n + 1
    BY <2>1
  <2>5. ASSUME NEW v \in 1..m, g.kind[v] = "alias" PROVE Viewed(g, v) \in 0..(v - 1)
    <3>1. v \in Ops
      BY <1>1, <2>1, <2>2, <2>4 DEF Ops
    <3>2. PICK w \in 0..(v - 1) : g.inputs[v] = {w}
      BY <3>1, <2>5, GraphsAssumption
    <3> QED BY <3>2 DEF Viewed
  <2>6. PICK new \in 0..m : new = StandsFor(g, root, m)
    <3>1. CASE g.kind[m] = "alias"
      <4>1. Viewed(g, m) \in 0..n
        BY <2>1, <2>4, <2>5, <3>1
      <4> QED BY <2>1, <2>3, <2>4, <3>1, <4>1 DEF StandsFor
    <3>2. CASE g.kind[m] # "alias"
      BY <2>4, <3>2 DEF StandsFor
    <3> QED BY <3>1, <3>2
  <2>7. PICK next \in [0..m -> 0..m] : next[m] = new /\ \A v \in 0..n : next[v] = root[v]
    <3> DEFINE f == [v \in 0..m |-> IF v = m THEN new ELSE root[v]]
    <3>1. \A v \in 0..m : v # m => v \in 0..n
      BY <2>1, <2>4
    <3>2. \A v \in 0..n : v \in 0..m /\ v # m
      BY <2>1, <2>4
    <3>3. \A v \in 0..m : f[v] \in 0..m
      <4>1. \A v \in 0..n : root[v] \in 0..m
        BY <2>1, <2>3, <2>4
      <4> QED BY <2>6, <3>1, <4>1
    <3>4. m \in 0..m
      BY <2>4
    <3>5. f \in [0..m -> 0..m] /\ f[m] = new /\ \A v \in 0..n : f[v] = root[v]
      BY <3>2, <3>3, <3>4
    <3> HIDE DEF f
    <3> QED BY <3>5
  <2>8. ASSUME NEW v \in 0..m PROVE next[v] = StandsFor(g, next, v)
    <3>1. CASE v # 0 /\ g.kind[v] = "alias"
      <4>1. v \in 1..m
        BY <2>4, <3>1
      <4>2. Viewed(g, v) \in 0..(v - 1)
        BY <2>5, <3>1, <4>1
      <4>3. Viewed(g, v) \in 0..n
        BY <2>1, <2>4, <4>2
      <4>4. next[Viewed(g, v)] = root[Viewed(g, v)]
        BY <2>7, <4>3
      <4>5. StandsFor(g, next, v) = StandsFor(g, root, v)
        BY <4>4 DEF StandsFor
      <4>6. v = m \/ v \in 0..n
        BY <2>1, <2>4
      <4> QED BY <2>3, <2>6, <2>7, <4>5, <4>6
    <3>2. CASE ~(v # 0 /\ g.kind[v] = "alias")
      <4>1. StandsFor(g, next, v) = v /\ StandsFor(g, root, v) = v
        BY <3>2 DEF StandsFor
      <4>2. v = m \/ v \in 0..n
        BY <2>1, <2>4
      <4> QED BY <2>3, <2>6, <2>7, <4>1, <4>2
    <3> QED BY <3>1, <3>2
  <2> QED BY <2>4, <2>7, <2>8
<1>4. NumOps \in T
  <2>1. T \in SUBSET Nat
    OBVIOUS
  <2> HIDE DEF T
  <2> QED BY <1>1, <1>2, <1>3, <2>1, Induction
<1>5. PICK root \in [0..NumOps -> 0..NumOps] :
         \A v \in 0..NumOps : root[v] = StandsFor(g, root, v)
  BY <1>1, <1>4
<1>6. root = [v \in 0..NumOps |-> root[v]]
  OBVIOUS
<1> QED BY <1>5, <1>6

\* The root of a value is not after it, and what is no view is its own root.
LEMMA RootsFacts ==
    ASSUME NEW g \in Graphs
    PROVE  \A v \in 0..NumOps :
              /\ RootsOf(g)[v] \in 0..v
              /\ v \in Ops /\ g.kind[v] # "alias" => RootsOf(g)[v] = v
<1>1. NumOps \in Nat
  BY PlanAssumption
<1>2. PICK root : root = [v \in 0..NumOps |-> StandsFor(g, root, v)] /\ root = RootsOf(g)
  <2> DEFINE P(r) == r = [v \in 0..NumOps |-> StandsFor(g, r, v)]
  <2>1. \E r : P(r)
    BY RootsExist
  <2>2. P(CHOOSE r : P(r))
    BY <2>1, Zenon
  <2>3. RootsOf(g) = CHOOSE r : P(r)
    BY DEF RootsOf, StandsFor, Viewed
  <2> QED BY <2>2, <2>3
<1>3. \A v \in 0..NumOps : root[v] = StandsFor(g, root, v)
  BY <1>2
<1>4. ASSUME NEW v \in 0..NumOps, v # 0, g.kind[v] = "alias"
      PROVE  Viewed(g, v) \in 0..(v - 1) /\ root[v] = root[Viewed(g, v)]
  <2>1. v \in Ops
    BY <1>1, <1>4 DEF Ops
  <2>2. PICK w \in 0..(v - 1) : g.inputs[v] = {w}
    BY <2>1, <1>4, GraphsAssumption
  <2>3. Viewed(g, v) \in 0..(v - 1)
    BY <2>2 DEF Viewed
  <2>4. root[v] = root[Viewed(g, v)]
    BY <1>3, <1>4 DEF StandsFor
  <2> QED BY <2>3, <2>4
<1>5. \A v \in 0..NumOps : ~(v # 0 /\ g.kind[v] = "alias") => root[v] = v
  BY <1>3 DEF StandsFor
<1>6. \A v \in 0..NumOps : root[v] \in 0..v
  <2> DEFINE Bad == {v \in 0..NumOps : root[v] \notin 0..v}
  <2>1. SUFFICES ASSUME Bad # {} PROVE FALSE
    OBVIOUS
  <2>2. PICK v \in Bad : \A u \in Bad : v <= u
    <3>1. Bad \in SUBSET Nat
      BY <1>1
    <3> HIDE DEF Bad
    <3> QED BY <2>1, <3>1, Smallest
  <2>3. v \in 0..NumOps /\ root[v] \notin 0..v
    OBVIOUS
  <2>4. v # 0 /\ g.kind[v] = "alias"
    BY <1>5, <2>3
  <2>5. PICK w \in 0..(v - 1) : w = Viewed(g, v) /\ root[v] = root[w]
    BY <1>4, <2>3, <2>4
  <2>6. w \in 0..NumOps /\ w < v
    BY <1>1, <2>3, <2>5
  <2>7. root[w] \in 0..w
    BY <1>1, <2>2, <2>3, <2>6
  <2> QED BY <2>3, <2>5, <2>6, <2>7
<1>7. \A v \in Ops : v \in 0..NumOps
  BY <1>1 DEF Ops
<1> QED BY <1>2, <1>5, <1>6, <1>7
\* A value is used last where it is made or later, and nobody reads it after.
LEMMA LastFacts ==
    ASSUME NEW g \in Graphs, NEW v \in Ops
    PROVE  /\ LastOf(g, v) \in Ops /\ v <= LastOf(g, v)
           /\ \A i \in Ops : \A input \in g.inputs[i] :
                 RootsOf(g)[input] = v => i <= LastOf(g, v)
<1>1. NumOps \in Nat
  BY PlanAssumption
<1>2. ASSUME NEW i \in UsesOf(g, v) PROVE v < i
  <2>1. PICK input \in g.inputs[i] : i \in Ops /\ RootsOf(g)[input] = v
    BY <1>2 DEF UsesOf
  <2>2. input \in 0..(i - 1)
    BY <2>1, GraphsAssumption
  <2>3. input \in 0..NumOps
    BY <1>1, <2>1, <2>2 DEF Ops
  <2>4. v \in 0..input
    BY <2>1, <2>3, RootsFacts
  <2> QED BY <1>1, <2>1, <2>2, <2>4 DEF Ops
<1>3. \E i \in UsesOf(g, v) \cup {v} : \A j \in UsesOf(g, v) : j <= i
  <2>1. UsesOf(g, v) \in SUBSET (0..NumOps)
    BY <1>1 DEF UsesOf, Ops
  <2>2. CASE UsesOf(g, v) = {}
    BY <2>2
  <2>3. CASE UsesOf(g, v) # {}
    BY <1>1, <2>1, <2>3, Largest
  <2> QED BY <2>2, <2>3
<1>4. PICK last : last = LastOf(g, v)
  OBVIOUS
<1>5. last \in UsesOf(g, v) \cup {v} /\ \A j \in UsesOf(g, v) : j <= last
  BY <1>3, <1>4 DEF LastOf
<1>6. last \in Ops /\ v <= last
  BY <1>1, <1>2, <1>5 DEF UsesOf, Ops
<1>7. ASSUME NEW i \in Ops, NEW input \in g.inputs[i], RootsOf(g)[input] = v
      PROVE  i <= last
  BY <1>5, <1>7 DEF UsesOf
<1> QED BY <1>4, <1>6, <1>7

LEMMA ProgramFacts ==
    ASSUME graph \in Graphs
    PROVE  /\ \A v \in Ops : LastUse(v) \in Ops /\ v <= LastUse(v)
           /\ \A i \in Ops : \A input \in graph.inputs[i] :
                 /\ input \in 0..NumOps /\ input < i
                 /\ Root[input] \in Ops => i <= LastUse(Root[input])
           /\ \A v \in 0..NumOps : Root[v] \in 0..v
           /\ \A v \in Ops : graph.kind[v] = "kernel" => Root[v] = v
<1> HIDE DEF Root
<1>1. NumOps \in Nat
  BY PlanAssumption
<1>2. \A v \in Ops : LastUse(v) \in Ops /\ v <= LastUse(v)
  BY OfProgram, LastFacts
<1>3. ASSUME NEW i \in Ops, NEW input \in graph.inputs[i]
      PROVE  /\ input \in 0..NumOps /\ input < i
             /\ Root[input] \in Ops => i <= LastUse(Root[input])
  <2>1. input \in 0..(i - 1)
    BY GraphsAssumption
  <2>2. Root[input] \in Ops => i <= LastUse(Root[input])
    BY OfProgram, LastFacts
  <2> QED BY <1>1, <2>1, <2>2 DEF Ops
<1>4. \A v \in 0..NumOps : Root[v] \in 0..v
  BY OfProgram, RootsFacts
<1>5. ASSUME NEW v \in Ops, graph.kind[v] = "kernel" PROVE Root[v] = v
  <2>1. v \in 0..NumOps
    BY <1>1 DEF Ops
  <2> QED BY <1>5, <2>1, OfProgram, RootsFacts
<1> QED BY <1>2, <1>3, <1>4, <1>5

-----------------------------------------------------------------------------
\* What the allocator does for the plan, from its own invariant.
LEMMA AllocatorAssumption == A!ScratchAssumption
  <1>1. \A v \in Ops : StaticSize[v] \in Nat \ {0}
    BY PlanAssumption
  <1> QED BY <1>1, PlanAssumption DEF A!ScratchAssumption

LEMMA AllocStep ==
    ASSUME A!IInv, NEW value \in Ops,
           NEW size \in {StaticSize[v] : v \in Ops} \cup RunSizes,
           Allocator!Alloc(value, size)
    PROVE  /\ A!IInv' /\ finalized' = finalized
           /\ DOMAIN placements' = DOMAIN placements \cup {value}
           /\ \A v \in DOMAIN placements : placements'[v] = placements[v]
           /\ live' = live \cup {value}
           /\ value \notin DOMAIN placements
<1>1. A!IInv'
  <2>1. CASE Allocator!AllocFromFree(value, size)
    <3>1. A!AllocFromFree(value, size)
      BY <2>1 DEF Allocator!AllocFromFree, Allocator!CanAlloc, Allocator!IsBestFit,
                  Allocator!Fitting, Allocator!Carve, Allocator!Place, Allocator!AlignUp,
                  Allocator!Larger, A!AllocFromFree, A!CanAlloc, A!IsBestFit, A!Fitting,
                  A!Carve, A!Place, A!AlignUp, A!Larger
    <3> QED BY <3>1, AllocatorAssumption, A!AllocFromFreeIInv
  <2>2. CASE Allocator!AllocAtCursor(value, size)
    <3>1. A!AllocAtCursor(value, size)
      BY <2>2 DEF Allocator!AllocAtCursor, Allocator!CanAlloc, Allocator!MustGrow,
                  Allocator!Fitting, Allocator!Place, Allocator!AlignUp, Allocator!Larger,
                  A!AllocAtCursor, A!CanAlloc, A!MustGrow, A!Fitting, A!Place, A!AlignUp,
                  A!Larger
    <3> QED BY <3>1, AllocatorAssumption, A!AllocAtCursorIInv
  <2> QED BY <2>1, <2>2 DEF Allocator!Alloc
<1>2. PICK offset, bytes : Allocator!Place(value, offset, bytes) /\ Allocator!CanAlloc(value)
  BY DEF Allocator!Alloc, Allocator!AllocFromFree, Allocator!AllocAtCursor
<1> QED BY <1>1, <1>2 DEF Allocator!Place, Allocator!CanAlloc

LEMMA FreeStep ==
    ASSUME A!IInv, NEW value \in Ops, Allocator!Free(value)
    PROVE  /\ A!IInv' /\ finalized' = finalized
           /\ placements' = placements /\ live' = live \ {value}
<1>1. A!Free(value)
  BY DEF Allocator!Free, Allocator!CanFree, Allocator!Merged, Allocator!TouchesLeft,
         Allocator!TouchesRight, Allocator!End, A!Free, A!CanFree, A!Merged, A!TouchesLeft,
         A!TouchesRight, A!End
<1>2. A!IInv'
  BY <1>1, AllocatorAssumption, A!FreeIInv
<1> QED BY <1>2 DEF Allocator!Free

\* Its invariant holds before anything is placed.
LEMMA FreshAllocator ==
    ASSUME freeRanges = {}, placements = <<>>, live = {}, cursor = 0, finalized = FALSE
    PROVE  A!IInv
<1>1. A!Init
  BY DEF A!Init
<1> QED BY <1>1, AllocatorAssumption, A!InitIInv

LEMMA FreshAllocatorNext ==
    ASSUME freeRanges' = {}, placements' = <<>>, live' = {}, cursor' = 0, finalized' = FALSE
    PROVE  A!IInv'
<1>1. A!Init'
  BY DEF A!Init
<1> QED BY <1>1, AllocatorAssumption, A!InitIInv, PTL
LEMMA AllocatorStays == A!IInv /\ UNCHANGED allocatorVars => A!IInv'
<1>1. UNCHANGED allocatorVars => UNCHANGED A!vars
  BY DEF allocatorVars, A!vars
<1> QED BY <1>1, AllocatorAssumption, A!NextIInv

-----------------------------------------------------------------------------
\* Init and the steps.
LEMMA InitIInv == Init => IInv
<1> SUFFICES ASSUME Init PROVE IInv
  OBVIOUS
<1> HIDE DEF Root
<1>1. /\ graph \in Graphs /\ pass = "fixed" /\ index = 1 /\ placed = FALSE
      /\ runSize \in RunSizes /\ layout = <<>>
      /\ freeRanges = {} /\ placements = <<>> /\ live = {} /\ cursor = 0 /\ finalized = FALSE
  BY DEF Init, Allocator!Init
<1>2. DOMAIN <<>> = {}
  OBVIOUS
<1>3. TypeInv
  <2>1. 1 \in 1..(NumOps + 1)
    BY PlanAssumption
  <2> QED BY <1>1, <2>1 DEF TypeInv
<1>4. PassInv
  <2>1. A!IInv
    BY <1>1, FreshAllocator
  <2>2. \A v \in Ops : ~(v < index \/ (v = index /\ placed))
    BY <1>1 DEF Ops
  <2> QED BY <1>1, <1>2, <2>1, <2>2 DEF PassInv, Planning
<1>5. LayoutInv
  BY <1>1, <1>2 DEF LayoutInv
<1>6. MemoryInv
  BY <1>1 DEF MemoryInv
<1> QED BY <1>3, <1>4, <1>5, <1>6 DEF IInv

LEMMA TypeMoves == IInv /\ [Next]_vars => TypeInv' /\ graph' = graph
<1> SUFFICES ASSUME IInv, [Next]_vars PROVE TypeInv' /\ graph' = graph
  OBVIOUS
<1>1. TypeInv /\ NumOps \in Nat \ {0}
  BY PlanAssumption DEF IInv
<1>2. CASE PlaceOutput
  BY <1>1, <1>2 DEF PlaceOutput, TypeInv, Planning
<1>3. CASE Release
  BY <1>1, <1>3 DEF Release, TypeInv, Planning
<1>4. CASE NextOp
  <2>1. index \in 1..NumOps => index + 1 \in 1..(NumOps + 1)
    BY <1>1
  <2>2. index \in 1..NumOps /\ index' = index + 1 /\ placed' = FALSE
        /\ UNCHANGED <<graph, pass, runSize>>
    BY <1>4 DEF NextOp, Ops
  <2> QED BY <1>1, <2>1, <2>2 DEF TypeInv
<1>5. CASE Instantiate
  BY <1>1, <1>5 DEF Instantiate, TypeInv, Planning, Ops
<1>6. CASE Execute
  BY <1>1, <1>6 DEF Execute, TypeInv, Planning, Ops
<1>7. CASE RunAgain
  BY <1>1, <1>7 DEF RunAgain, TypeInv, Planning, Ops
<1>8. CASE UNCHANGED vars
  BY <1>1, <1>8 DEF vars, TypeInv, Planning
<1> QED BY <1>2, <1>3, <1>4, <1>5, <1>6, <1>7, <1>8 DEF Next

LEMMA PassMoves == IInv /\ [Next]_vars => PassInv'
<1> SUFFICES ASSUME IInv, [Next]_vars PROVE PassInv'
  OBVIOUS
<1> HIDE DEF Root
<1>0. /\ graph \in Graphs /\ graph' = graph /\ NumOps \in Nat \ {0}
      /\ TypeInv /\ PassInv /\ index \in Nat /\ placed \in BOOLEAN
      /\ \A v \in Ops : v \in Nat
  BY TypeMoves, PlanAssumption DEF IInv, TypeInv, Ops
<1>1. /\ \A v : LastUse(v)' = LastUse(v)
      /\ \A v : Candidate(v)' <=>
            graph.kind[v] = "kernel" /\ ~Escaped(v) /\ (pass' = "fixed" <=> v \notin graph.dynamic)
  BY <1>0, SameProgram DEF Candidate
<1>2. \A v \in Ops : LastUse(v) \in Ops /\ v <= LastUse(v)
  BY <1>0, ProgramFacts
<1>3. live \subseteq DOMAIN placements /\ DOMAIN placements \subseteq Ops
  BY <1>0 DEF PassInv, A!IInv, A!TypeOK
<1>4. CASE PlaceOutput /\ Candidate(index)
  <2>1. /\ Planning /\ index \in Ops /\ ~placed /\ placed'
        /\ pass' = pass /\ index' = index /\ Allocator!Alloc(index, SizeOf(index))
    BY <1>4 DEF PlaceOutput
  <2>2. SizeOf(index) \in {StaticSize[v] : v \in Ops} \cup RunSizes
    BY <1>0, <2>1 DEF SizeOf, TypeInv
  <2>3. /\ A!IInv' /\ finalized' = finalized
        /\ DOMAIN placements' = DOMAIN placements \cup {index}
        /\ \A v \in DOMAIN placements : placements'[v] = placements[v]
        /\ live' = live \cup {index}
        /\ index \notin DOMAIN placements
    BY <1>0, <2>1, <2>2, AllocStep DEF PassInv
  <2>4. \A v \in DOMAIN placements : v < index /\ (LastUse(v) >= index => v \in live)
    BY <1>0, <1>2, <1>3, <2>1 DEF PassInv, Ops
  <2>5. DOMAIN placements' =
          {v \in Ops : Candidate(v)' /\ (v < index' \/ (v = index' /\ placed'))}
    <3>1. \A v : Candidate(v)' <=> Candidate(v)
      BY <1>1, <2>1 DEF Candidate
    <3>2. DOMAIN placements = {v \in Ops : Candidate(v) /\ v < index}
      BY <1>0, <2>1 DEF PassInv
    <3> HIDE DEF Ops
    <3> QED BY <1>4, <2>1, <2>3, <3>1, <3>2
  <2>6. \A v \in live' : LastUse(v) >= index
    BY <1>0, <1>2, <2>1, <2>3 DEF PassInv
  <2>7. \A v \in DOMAIN placements' : LastUse(v) > index => v \in live'
    BY <1>2, <1>3, <2>1, <2>3, <2>4 DEF Ops
  <2>8. ASSUME NEW v \in DOMAIN placements', NEW w \in DOMAIN placements',
               v < w, w <= LastUse(v)
        PROVE  A!Disjoint(placements'[v], placements'[w])
    <3>1. v \in DOMAIN placements
      <4>1. v \in DOMAIN placements \/ (v = index /\ w \in DOMAIN placements)
        BY <1>0, <2>3, <2>8
      <4>2. w \in DOMAIN placements => w < index /\ w \in Nat
        BY <1>0, <1>3, <2>4
      <4> QED BY <1>0, <2>8, <4>1, <4>2
    <3>2. CASE w = index
      <4>1. v \in live' /\ w \in live' /\ v # w
        BY <2>3, <2>4, <2>8, <3>1, <3>2
      <4> QED BY <2>3, <4>1 DEF A!IInv, A!LiveDisjoint, A!Disjoint, A!End
    <3>3. CASE w # index
      BY <1>0, <2>3, <2>8, <3>1, <3>3 DEF PassInv, A!Disjoint, A!End
    <3> QED BY <3>2, <3>3
  <2> QED BY <1>0, <1>1, <2>1, <2>3, <2>5, <2>6, <2>7, <2>8 DEF PassInv, Planning
<1>5. CASE PlaceOutput /\ ~Candidate(index)
  <2>1. /\ Planning /\ index \in Ops /\ ~placed /\ placed' /\ pass' = pass /\ index' = index
        /\ UNCHANGED allocatorVars /\ placements' = placements /\ live' = live
        /\ finalized' = finalized
    BY <1>5 DEF PlaceOutput, allocatorVars
  <2>2. A!IInv'
    BY <1>0, <2>1, AllocatorStays DEF PassInv
  <2>3. \A v : Candidate(v)' <=> Candidate(v)
    BY <1>1, <2>1 DEF Candidate
  <2> QED BY <1>0, <1>1, <1>5, <2>1, <2>2, <2>3 DEF PassInv, Planning, A!Disjoint, A!End
<1>6. CASE Release
  <2>1. PICK v \in Releasable : Allocator!Free(v)
    BY <1>6 DEF Release
  <2>2. /\ Planning /\ placed /\ index \in Ops /\ pass' = pass /\ index' = index
        /\ placed' = placed /\ v \in live /\ LastUse(v) = index
    BY <1>6, <2>1 DEF Release, MayRelease, Releasable
  <2>3. /\ A!IInv' /\ finalized' = finalized
        /\ placements' = placements /\ live' = live \ {v}
    BY <1>0, <1>3, <2>1, <2>2, FreeStep DEF PassInv
  <2>4. \A u : Candidate(u)' <=> Candidate(u)
    BY <1>1, <2>2 DEF Candidate
  <2>5. \A u \in DOMAIN placements' : LastUse(u) > index => u \in live'
    BY <1>0, <1>2, <1>3, <2>2, <2>3 DEF PassInv
  <2> QED BY <1>0, <1>1, <2>2, <2>3, <2>4, <2>5 DEF PassInv, Planning, A!Disjoint, A!End
<1>7. CASE NextOp
  <2>1. /\ Planning /\ index \in Ops /\ placed /\ ~placed' /\ index' = index + 1 /\ pass' = pass
        /\ Releasable = {} /\ UNCHANGED allocatorVars /\ placements' = placements
        /\ live' = live /\ finalized' = finalized
    BY <1>7 DEF NextOp, allocatorVars
  <2>2. A!IInv'
    BY <1>0, <2>1, AllocatorStays DEF PassInv
  <2>3. \A v : Candidate(v)' <=> Candidate(v)
    BY <1>1, <2>1 DEF Candidate
  <2>4. \A v \in Ops : v < index + 1 <=> v < index \/ v = index
    BY <1>0
  <2>5. \A v \in live : LastUse(v) >= index + 1
    <3>1. \A v \in live : LastUse(v) >= index /\ LastUse(v) # index /\ LastUse(v) \in Nat
      BY <1>0, <1>2, <1>3, <2>1 DEF PassInv, Releasable
    <3> QED BY <1>0, <3>1
  <2>6. \A v \in DOMAIN placements : LastUse(v) >= index + 1 => v \in live
    BY <1>0, <1>2, <1>3 DEF PassInv
  <2>7. DOMAIN placements = {v \in Ops : Candidate(v)' /\ (v < index' \/ (v = index' /\ placed'))}
    BY <1>0, <2>1, <2>3, <2>4 DEF PassInv
  <2>8. \A v \in DOMAIN placements : LastUse(v) > index + 1 => LastUse(v) >= index + 1
    BY <1>0, <1>2, <1>3
  <2> QED BY <1>0, <1>1, <2>1, <2>2, <2>5, <2>6, <2>7, <2>8
          DEF PassInv, Planning, A!Disjoint, A!End
<1>8. CASE Instantiate
  <2>1. /\ freeRanges' = {} /\ placements' = <<>> /\ live' = {} /\ cursor' = 0
        /\ finalized' = FALSE /\ index' = 1 /\ ~placed'
    BY <1>0, <1>8 DEF Instantiate, TypeInv, Ops
  <2>2. A!IInv'
    BY <2>1, FreshAllocatorNext
  <2>3. DOMAIN placements' = {}
    BY <2>1
  <2>4. \A v \in Ops : ~(v < index' \/ (v = index' /\ placed'))
    BY <2>1 DEF Ops
  <2> QED BY <2>1, <2>2, <2>3, <2>4 DEF PassInv
<1>9. CASE Execute \/ RunAgain
  <2>1. /\ ~Planning /\ ~placed' /\ UNCHANGED allocatorVars
        /\ DOMAIN placements' = {} /\ live' = {} /\ ~finalized'
        /\ ~Planning' \/ index' = 1
    BY <1>0, <1>3, <1>9 DEF Execute, RunAgain, allocatorVars, PassInv, Planning, TypeInv
  <2>2. A!IInv'
    BY <1>0, <2>1, AllocatorStays DEF PassInv
  <2>3. index' = 1 => \A v \in Ops : ~(v < index' \/ (v = index' /\ placed'))
    BY <2>1 DEF Ops
  <2> QED BY <2>1, <2>2, <2>3 DEF PassInv
<1>10. CASE UNCHANGED vars
  <2>1. A!IInv'
    BY <1>0, <1>10, AllocatorStays DEF PassInv, vars
  <2>2. /\ placements' = placements /\ live' = live /\ finalized' = finalized
        /\ pass' = pass /\ index' = index /\ placed' = placed
    BY <1>10 DEF vars, allocatorVars
  <2>3. \A v : Candidate(v)' <=> Candidate(v)
    BY <1>1, <2>2 DEF Candidate
  <2> QED BY <1>0, <1>1, <2>1, <2>2, <2>3 DEF PassInv, Planning, A!Disjoint, A!End
<1> QED BY <1>4, <1>5, <1>6, <1>7, <1>8, <1>9, <1>10 DEF Next
LEMMA LayoutMoves == IInv /\ [Next]_vars => LayoutInv'
<1> SUFFICES ASSUME IInv, [Next]_vars PROVE LayoutInv'
  OBVIOUS
<1> HIDE DEF Root
<1>0. /\ graph' = graph /\ NumOps \in Nat \ {0} /\ TypeInv /\ PassInv /\ LayoutInv
  BY TypeMoves, PlanAssumption DEF IInv
<1>1. /\ \A v : LastUse(v)' = LastUse(v)
      /\ \A v : Private(v)' <=> Private(v)
      /\ \A v : BufferOf(v)' = BufferOf(v)
  BY <1>0, SameProgram
<1>2. ASSUME layout' = layout, pass' = pass PROVE LayoutInv'
  BY <1>0, <1>1, <1>2 DEF LayoutInv, A!Disjoint, A!End, A!MemoryRange
<1>3. CASE Instantiate
  <2>1. /\ pass \in {"fixed", "dynamic"} /\ index > NumOps
        /\ pass' = (IF pass = "fixed" THEN "dynamic" ELSE "run")
        /\ layout' = [v \in DOMAIN layout \cup DOMAIN placements |->
                        IF v \in DOMAIN placements
                        THEN [buffer |-> pass, range |-> placements[v]]
                        ELSE layout[v]]
    BY <1>3 DEF Instantiate, Planning
  <2>2. \A v \in Ops : v < index
    BY <1>0, <2>1 DEF Ops, TypeInv
  <2>3. DOMAIN placements = {v \in Ops : Candidate(v)}
    BY <1>0, <2>1, <2>2 DEF PassInv, Planning
  <2>4. \A v : Candidate(v) <=> Private(v) /\ BufferOf(v) = pass
    BY <2>1 DEF Candidate, Private, BufferOf
  <2>5. \A v \in DOMAIN layout : BufferOf(v) # pass /\ v \in Ops
    BY <1>0, <2>1 DEF LayoutInv, BufferOf
  <2>6. \A v \in DOMAIN layout' :
           /\ v \in DOMAIN placements <=> BufferOf(v) = pass
           /\ v \in DOMAIN placements =>
                 layout'[v].buffer = pass /\ layout'[v].range = placements[v]
           /\ v \notin DOMAIN placements => v \in DOMAIN layout /\ layout'[v] = layout[v]
    BY <2>1, <2>3, <2>4, <2>5
  <2>7. DOMAIN layout' =
          {v \in Ops : Private(v) /\ (pass' = "run" \/ (pass' = "dynamic" /\ v \notin graph.dynamic))}
    <3>1. DOMAIN layout' = DOMAIN layout \cup DOMAIN placements
      BY <2>1
    <3>2. CASE pass = "fixed"
      <4>1. DOMAIN layout = {} /\ pass' = "dynamic"
        BY <1>0, <2>1, <3>2 DEF LayoutInv
      <4>2. \A v : BufferOf(v) = pass <=> v \notin graph.dynamic
        BY <3>2 DEF BufferOf
      <4> QED BY <2>3, <2>4, <3>1, <4>1, <4>2
    <3>3. CASE pass = "dynamic"
      <4>1. DOMAIN layout = {v \in Ops : Private(v) /\ v \notin graph.dynamic} /\ pass' = "run"
        BY <1>0, <2>1, <3>3 DEF LayoutInv
      <4>2. \A v : BufferOf(v) = pass <=> v \in graph.dynamic
        BY <3>3 DEF BufferOf
      <4> QED BY <2>3, <2>4, <3>1, <4>1, <4>2
    <3> QED BY <2>1, <3>2, <3>3
  <2>8. \A v \in DOMAIN layout' : layout'[v].buffer = BufferOf(v) /\ layout'[v].range \in A!MemoryRange
    <3>1. \A v \in DOMAIN placements : placements[v] \in A!MemoryRange
      BY <1>0 DEF PassInv, A!IInv, A!TypeOK
    <3> QED BY <1>0, <2>6, <3>1 DEF LayoutInv
  <2>9. ASSUME NEW v \in DOMAIN layout', NEW w \in DOMAIN layout',
               v < w, w <= LastUse(v), BufferOf(v) = BufferOf(w)
        PROVE  A!Disjoint(layout'[v].range, layout'[w].range)
    BY <1>0, <2>6, <2>9 DEF PassInv, LayoutInv, A!Disjoint, A!End
  <2> QED BY <1>0, <1>1, <2>7, <2>8, <2>9 DEF LayoutInv, A!MemoryRange, A!Disjoint, A!End
<1>4. CASE RunAgain
  <2>1. /\ pass = "run" /\ pass' = "dynamic"
        /\ layout' = [v \in {w \in DOMAIN layout : layout[w].buffer = "fixed"} |-> layout[v]]
    BY <1>4 DEF RunAgain
  <2>2. /\ DOMAIN layout = {v \in Ops : Private(v)}
        /\ \A v \in DOMAIN layout : layout[v].buffer = BufferOf(v)
    BY <1>0, <2>1 DEF LayoutInv
  <2>3. DOMAIN layout' = {v \in Ops : Private(v) /\ v \notin graph.dynamic}
    <3>1. \A v : BufferOf(v) = "fixed" <=> v \notin graph.dynamic
      BY DEF BufferOf
    <3> QED BY <2>1, <2>2, <3>1
  <2>4. \A v \in DOMAIN layout' : v \in DOMAIN layout /\ layout'[v] = layout[v]
    BY <2>1
  <2> QED BY <1>0, <1>1, <2>1, <2>3, <2>4 DEF LayoutInv, A!MemoryRange, A!Disjoint, A!End
<1>5. ASSUME PlaceOutput \/ Release \/ NextOp \/ Execute \/ UNCHANGED vars PROVE LayoutInv'
  BY <1>2, <1>5 DEF PlaceOutput, Release, NextOp, Execute, vars
<1> QED BY <1>3, <1>4, <1>5 DEF Next

LEMMA ApartCells ==
    ASSUME NEW r \in A!MemoryRange, NEW s \in A!MemoryRange, A!Disjoint(r, s)
    PROVE  Allocator!Bytes(r) \cap Allocator!Bytes(s) = {}
  BY DEF A!MemoryRange, A!Disjoint, A!End, Allocator!Bytes, Allocator!End

\* What a kernel writes lies apart from every value that is still needed.
LEMMA KernelsWriteApart ==
    ASSUME LayoutInv, graph \in Graphs, NEW v \in DOMAIN layout, NEW w \in DOMAIN layout,
           v < w, w <= LastUse(v)
    PROVE  CellsOf(v) \cap CellsOf(w) = {}
<1>1. /\ layout[v].buffer = BufferOf(v) /\ layout[w].buffer = BufferOf(w)
      /\ layout[v].range \in A!MemoryRange /\ layout[w].range \in A!MemoryRange
  BY DEF LayoutInv
<1>2. CASE BufferOf(v) = BufferOf(w)
  <2>1. A!Disjoint(layout[v].range, layout[w].range)
    BY <1>2 DEF LayoutInv
  <2>2. Allocator!Bytes(layout[v].range) \cap Allocator!Bytes(layout[w].range) = {}
    BY <1>1, <2>1, ApartCells
  <2> QED BY <2>2 DEF CellsOf
<1>3. CASE BufferOf(v) # BufferOf(w)
  BY <1>1, <1>3 DEF CellsOf
<1> QED BY <1>2, <1>3

LEMMA MemoryMoves == IInv /\ [Next]_vars => MemoryInv'
<1> SUFFICES ASSUME IInv, [Next]_vars PROVE MemoryInv'
  OBVIOUS
<1> HIDE DEF Root
<1>0. /\ graph' = graph /\ graph \in Graphs /\ NumOps \in Nat \ {0}
      /\ TypeInv /\ LayoutInv /\ MemoryInv
  BY TypeMoves, PlanAssumption DEF IInv, TypeInv
<1>1. \A v : LastUse(v)' = LastUse(v)
  BY <1>0, SameProgram
<1>2. \A v \in Ops : LastUse(v) \in Ops /\ (graph.kind[v] = "kernel" => Root[v] = v)
  BY <1>0, ProgramFacts
<1>3. DOMAIN layout \subseteq Ops /\ \A v \in Ops : v \in Nat
  BY <1>0 DEF LayoutInv, Ops
<1>4. CASE Execute
  <2>1. /\ pass = "run" /\ pass' = pass /\ index \in Ops /\ index' = index + 1
        /\ layout' = layout
    BY <1>4 DEF Execute
  <2>2. SUFFICES ASSUME NEW v \in DOMAIN layout, v < index + 1, index + 1 <= LastUse(v),
                        NEW cell \in CellsOf(v)
                 PROVE  cell \in DOMAIN memory' /\ memory'[cell] = v
    BY <1>1, <2>1 DEF MemoryInv, CellsOf
  <2>3. CASE v = index
    <3>1. graph.kind[index] = "kernel" /\ InScratch(index)
      BY <1>0, <1>2, <2>1, <2>3 DEF LayoutInv, Private, InScratch
    <3>2. memory' = [c \in DOMAIN memory \cup CellsOf(index) |->
                        IF c \in CellsOf(index) THEN index ELSE memory[c]]
      BY <1>4, <3>1 DEF Execute
    <3> QED BY <2>2, <2>3, <3>2
  <2>4. CASE v # index
    <3>1. v < index /\ index <= LastUse(v)
      BY <1>2, <1>3, <2>1, <2>2, <2>4
    <3>2. cell \in DOMAIN memory /\ memory[cell] = v
      BY <1>0, <2>1, <2>2, <3>1 DEF MemoryInv
    <3>3. CASE graph.kind[index] = "kernel" /\ InScratch(index)
      <4>1. index \in DOMAIN layout
        BY <1>2, <2>1, <3>3 DEF InScratch
      <4>2. cell \notin CellsOf(index)
        BY <1>0, <2>2, <3>1, <4>1, KernelsWriteApart
      <4>3. memory' = [c \in DOMAIN memory \cup CellsOf(index) |->
                          IF c \in CellsOf(index) THEN index ELSE memory[c]]
        BY <1>4, <3>3 DEF Execute
      <4> QED BY <3>2, <4>2, <4>3
    <3>4. CASE ~(graph.kind[index] = "kernel" /\ InScratch(index))
      BY <1>4, <3>2, <3>4 DEF Execute
    <3> QED BY <3>3, <3>4
  <2> QED BY <2>3, <2>4
<1>5. CASE Instantiate
  <2>1. index' = 1 /\ DOMAIN layout' \subseteq Ops
    BY <1>5, LayoutMoves DEF Instantiate, LayoutInv
  <2> QED BY <1>3, <2>1 DEF MemoryInv, Ops
<1>6. CASE PlaceOutput \/ Release \/ NextOp \/ RunAgain
  <2>1. pass' # "run"
    BY <1>6 DEF PlaceOutput, Release, NextOp, RunAgain, Planning
  <2> QED BY <2>1 DEF MemoryInv
<1>7. CASE UNCHANGED vars
  BY <1>0, <1>1, <1>7 DEF vars, MemoryInv, CellsOf
<1> QED BY <1>4, <1>5, <1>6, <1>7 DEF Next

LEMMA Invariant == Spec => []IInv
<1>1. IInv /\ [Next]_vars => IInv'
  BY TypeMoves, PassMoves, LayoutMoves, MemoryMoves DEF IInv
<1> QED BY InitIInv, <1>1, PTL DEF Spec

-----------------------------------------------------------------------------
\* When an operation is about to run, every input it reads from scratch holds
\* what its producer wrote, also through views, and its own output lies apart
\* from them: however many programs, sizes and runs there are.
THEOREM InputsStayIntact == Spec => []InputsIntact
<1>1. ASSUME IInv PROVE InputsIntact
  <2> HIDE DEF Root
  <2>0. /\ graph \in Graphs /\ LayoutInv /\ MemoryInv /\ NumOps \in Nat
    BY <1>1, PlanAssumption DEF IInv, TypeInv
  <2> SUFFICES ASSUME pass = "run", index \in Ops,
                      NEW input \in graph.inputs[index], InScratch(input)
               PROVE  /\ \A cell \in CellsOf(Root[input]) :
                            cell \in DOMAIN memory /\ memory[cell] = Root[input]
                      /\ graph.kind[index] = "kernel" /\ InScratch(index) =>
                            CellsOf(Root[input]) \cap CellsOf(index) = {}
    BY DEF InputsIntact
  <2>1. PICK v \in DOMAIN layout : v = Root[input] /\ v \in Ops
    BY <2>0 DEF InScratch, LayoutInv
  <2>2. v < index /\ index <= LastUse(v)
    <3>1. /\ input \in 0..NumOps /\ input < index /\ Root[input] \in 0..input
          /\ index <= LastUse(Root[input])
      BY <2>0, <2>1, ProgramFacts
    <3> QED BY <2>1, <3>1 DEF Ops
  <2>3. \A cell \in CellsOf(v) : cell \in DOMAIN memory /\ memory[cell] = v
    BY <2>0, <2>2 DEF MemoryInv
  <2>4. ASSUME graph.kind[index] = "kernel", InScratch(index)
        PROVE  CellsOf(v) \cap CellsOf(index) = {}
    <3>1. index \in DOMAIN layout
      BY <2>0, <2>4, ProgramFacts DEF InScratch
    <3> QED BY <2>0, <2>2, <3>1, KernelsWriteApart
  <2> QED BY <2>1, <2>3, <2>4
<1> QED BY <1>1, Invariant, PTL

\* Nothing the caller sees, directly or through a view, lies in scratch, and a
\* plan ends with all that it placed released.
THEOREM ExportsOutlive == Spec => []OnlyExportsOutlive
<1>1. ASSUME IInv PROVE OnlyExportsOutlive
  <2> HIDE DEF Root
  <2>0. /\ graph \in Graphs /\ LayoutInv /\ PassInv /\ NumOps \in Nat /\ index \in Nat
    BY <1>1, PlanAssumption DEF IInv, TypeInv
  <2>1. ASSUME NEW value \in graph.exports PROVE ~InScratch(value)
    <3> SUFFICES ASSUME InScratch(value) PROVE FALSE
      OBVIOUS
    <3>1. PICK v \in DOMAIN layout : v = Root[value]
      BY DEF InScratch
    <3>2. v \in Ops /\ Private(v)
      BY <2>0 DEF LayoutInv
    <3>3. Root[v] = v
      BY <2>0, <3>2, ProgramFacts DEF Private
    <3> QED BY <3>1, <3>2, <3>3 DEF Private, Escaped
  <2>2. ASSUME index > NumOps PROVE live = {}
    <3>1. \A v \in live : v \in Ops /\ LastUse(v) >= index
      BY <2>0 DEF PassInv, A!IInv, A!TypeOK
    <3>2. \A v \in live : LastUse(v) \in Ops
      BY <2>0, <3>1, ProgramFacts
    <3> QED BY <2>0, <2>2, <3>1, <3>2 DEF Ops
  <2> QED BY <2>1, <2>2 DEF OnlyExportsOutlive
<1> QED BY <1>1, Invariant, PTL

-----------------------------------------------------------------------------
\* Division with a remainder undoes a sum of a multiple and a rest, and ends.
LEMMA DivSum ==
    ASSUME NEW a \in Nat, NEW b \in Nat \ {0}, NEW c \in 0..(b - 1)
    PROVE  (a * b + c) \div b = a /\ (a * b + c) % b = c
<1>1. (b * a + c) \div b = a /\ (b * a + c) % b = c
  BY SMTT(60)
<1>2. a * b = b * a
  OBVIOUS
<1> QED BY <1>1, <1>2

LEMMA DivSplit ==
    ASSUME NEW n \in Nat, NEW b \in Nat \ {0}
    PROVE  n \div b \in Nat /\ n % b \in 0..(b - 1) /\ n = (n \div b) * b + (n % b)
<1>1. PICK q \in Nat : q = n \div b
  BY SMTT(30)
<1>2. PICK r \in 0..(b - 1) : r = n % b
  BY SMTT(30)
<1>3. n = b * q + r
  BY <1>1, <1>2, SMTT(60)
<1>4. b * q = q * b /\ q * b \in Nat
  OBVIOUS
<1> DEFINE x == q * b
<1> HIDE DEF x
<1>5. n = x + r
  BY <1>3, <1>4 DEF x
<1>6. n = q * b + r
  BY <1>5 DEF x
<1> QED BY <1>1, <1>2, <1>6, Zenon

\* No rest: a number is its quotient times the divisor.
LEMMA DivExact ==
    ASSUME NEW n \in Nat, NEW b \in Nat \ {0}, n % b = 0
    PROVE  n \div b \in Nat /\ n = (n \div b) * b
<1>1. n \div b \in Nat /\ n = (n \div b) * b + (n % b)
  BY DivSplit
<1>2. (n \div b) * b \in Nat
  BY <1>1
<1> DEFINE x == (n \div b) * b
<1> HIDE DEF x
<1>3. x \in Nat /\ n = x + (n % b)
  BY <1>1, <1>2 DEF x
<1>4. n = x
  BY <1>3
<1> QED BY <1>1, <1>4 DEF x

\* Aligned up, a number is the next multiple, and itself if it is one.
LEMMA AlignUpFacts ==
    ASSUME NEW n \in Nat, NEW align \in Nat \ {0}
    PROVE  /\ AlignUp(n, align) \in Nat /\ AlignUp(n, align) >= n
           /\ n % align = 0 => AlignUp(n, align) = n
<1> DEFINE q == (n + align - 1) \div align
<1>1. q \in Nat /\ n + align - 1 < q * align + align
  <2>1. n + align - 1 \in Nat
    OBVIOUS
  <2> DEFINE m == n + align - 1
  <2> HIDE DEF m
  <2>2. m \in Nat
    BY <2>1 DEF m
  <2>3. m \div align \in Nat /\ m % align \in 0..(align - 1) /\ m = (m \div align) * align + (m % align)
    BY <2>2, DivSplit
  <2> DEFINE x == (m \div align) * align
  <2>4. x \in Nat
    BY <2>3
  <2> HIDE DEF x
  <2>5. m < x + align
    BY <2>2, <2>3, <2>4 DEF x
  <2> QED BY <2>3, <2>5 DEF m, x
<1>2. AlignUp(n, align) = q * align
  BY DEF AlignUp
<1>3. q * align \in Nat
  BY <1>1
<1>4. ASSUME n % align = 0 PROVE q * align = n
  <2> DEFINE k == n \div align
  <2>1. k \in Nat /\ n = k * align
    BY <1>4, DivExact
  <2> HIDE DEF k
  <2>2. n = k * align /\ align - 1 \in 0..(align - 1)
    BY <2>1
  <2>3. (k * align + (align - 1)) \div align = k
    BY <2>1, <2>2, DivSum
  <2>4. n + align - 1 = k * align + (align - 1)
    BY <2>2
  <2>5. q = k
    BY <2>3, <2>4
  <2> QED BY <2>2, <2>5
<1> HIDE DEF q
<1> QED BY <1>1, <1>2, <1>3, <1>4

\* Enough pages for that many rows.
LEMMA CeilDivFacts ==
    ASSUME NEW n \in Nat, NEW d \in Nat \ {0}
    PROVE  CeilDiv(n, d) \in Nat /\ n <= CeilDiv(n, d) * d
<1>1. n + d - 1 \in Nat
  OBVIOUS
<1> DEFINE m == n + d - 1
<1> HIDE DEF m
<1>2. m \in Nat /\ CeilDiv(n, d) = m \div d
  BY <1>1 DEF m, CeilDiv
<1>3. m \div d \in Nat /\ m % d \in 0..(d - 1) /\ m = (m \div d) * d + (m % d)
  BY <1>2, DivSplit
<1> DEFINE x == (m \div d) * d
<1>4. x \in Nat
  BY <1>3
<1> HIDE DEF x
<1>5. n <= x
  BY <1>2, <1>3, <1>4 DEF x, m
<1> QED BY <1>2, <1>3, <1>5 DEF x

\* A page holds something.
LEMMA PageElementsNat ==
    ASSUME NEW p, p.prefix \in Nat \ {0}, p.pageSize \in Nat \ {0}, p.trailing \in Nat \ {0}
    PROVE  PageElements(p) \in Nat \ {0}
<1> DEFINE a == p.prefix * p.pageSize
<1>1. a \in Nat \ {0}
  OBVIOUS
<1>2. PageElements(p) = a * p.trailing
  BY DEF PageElements
<1> HIDE DEF a
<1> QED BY <1>1, <1>2

-----------------------------------------------------------------------------
\* A pool with its pages.
PoolShape(p) ==
  p \in [prefix : Nat \ {0}, trailing : Nat \ {0}, pageSize : Nat \ {0}, align : Nat \ {0},
         max : Nat, used : Nat, data : {p.data}, offsets : Seq(Nat), free : Seq(Nat)]
PoolInv(p) ==
  /\ PoolShape(p)
  /\ DOMAIN p.data = 1..p.used
  /\ ToSet(p.free) \subseteq DOMAIN p.offsets /\ IsInjective(p.free)
  /\ \A i \in DOMAIN p.offsets : p.offsets[i] + PageElements(p) <= p.used
  /\ \A i, j \in DOMAIN p.offsets : i < j => p.offsets[i] + PageElements(p) <= p.offsets[j]
  /\ PageElements(p) % p.align = 0 => p.used = Len(p.offsets) * PageElements(p)
  /\ p.max > 0 => Len(p.offsets) <= p.max

\* A pool q that p became: of the same shape, with all its pages and elements.
Grown(p, q) ==
  /\ q.prefix = p.prefix /\ q.trailing = p.trailing /\ q.pageSize = p.pageSize
  /\ q.align = p.align /\ q.max = p.max
  /\ Len(p.offsets) <= Len(q.offsets)
  /\ \A i \in DOMAIN p.offsets : q.offsets[i] = p.offsets[i]
  /\ DOMAIN p.data \subseteq DOMAIN q.data
  /\ \A i \in DOMAIN p.data : q.data[i] = p.data[i]
NewPages(p, q) == (Len(p.offsets) + 1)..Len(q.offsets)

\* The fields of a pool, one by one.
LEMMA PoolFacts ==
    ASSUME NEW p, PoolShape(p)
    PROVE  /\ p.prefix \in Nat \ {0} /\ p.trailing \in Nat \ {0} /\ p.pageSize \in Nat \ {0}
           /\ p.align \in Nat \ {0} /\ p.max \in Nat /\ p.used \in Nat
           /\ p.offsets \in Seq(Nat) /\ p.free \in Seq(Nat)
           /\ Len(p.offsets) \in Nat /\ DOMAIN p.offsets = 1..Len(p.offsets)
           /\ \A i \in DOMAIN p.offsets : p.offsets[i] \in Nat
           /\ PageElements(p) \in Nat \ {0}
<1>1. /\ p.prefix \in Nat \ {0} /\ p.trailing \in Nat \ {0} /\ p.pageSize \in Nat \ {0}
      /\ p.align \in Nat \ {0} /\ p.max \in Nat /\ p.used \in Nat
      /\ p.offsets \in Seq(Nat) /\ p.free \in Seq(Nat)
  BY DEF PoolShape
<1>2. PageElements(p) \in Nat \ {0}
  BY <1>1, PageElementsNat
<1>3. Len(p.offsets) \in Nat /\ DOMAIN p.offsets = 1..Len(p.offsets)
  BY <1>1, LenProperties
<1>4. \A i \in DOMAIN p.offsets : p.offsets[i] \in Nat
  BY <1>1, <1>3, ElementOfSeq
<1> QED BY <1>1, <1>2, <1>3, <1>4

\* A page is added at the end of the arena, or refused with nothing changed.
LEMMA AddPageFacts ==
    ASSUME NEW p, PoolInv(p)
    PROVE  LET r == AddPage(p)
           IN /\ r.page = 0 => r.pool = p
              /\ r.page # 0 => /\ r.page = Len(p.offsets) + 1 /\ PoolInv(r.pool) /\ Grown(p, r.pool)
                               /\ Len(r.pool.offsets) = Len(p.offsets) + 1 /\ r.pool.free = p.free
<1> DEFINE at == AlignUp(p.used, p.align)
           size == PageElements(p)
           end == at + size
           n == Len(p.offsets)
           full == p.max > 0 /\ (Len(p.offsets) >= p.max \/ end > p.max * PageElements(p))
           resized == [i \in 1..end |-> IF i \in DOMAIN p.data THEN p.data[i] ELSE <<"zero">>]
           q == [p EXCEPT !.used = end, !.data = resized, !.offsets = Append(@, at)]
<1>1. AddPage(p) = IF full THEN [pool |-> p, page |-> 0] ELSE [pool |-> q, page |-> n + 1]
  BY DEF AddPage
<1>2. PoolShape(p) /\ DOMAIN p.data = 1..p.used
  BY DEF PoolInv
<1>3. /\ p.prefix \in Nat \ {0} /\ p.trailing \in Nat \ {0} /\ p.pageSize \in Nat \ {0}
      /\ p.align \in Nat \ {0} /\ p.max \in Nat /\ p.used \in Nat
      /\ p.offsets \in Seq(Nat) /\ p.free \in Seq(Nat)
      /\ n \in Nat /\ DOMAIN p.offsets = 1..n
      /\ \A i \in DOMAIN p.offsets : p.offsets[i] \in Nat
      /\ size \in Nat \ {0}
  BY <1>2, PoolFacts
<1>4. at \in Nat /\ at >= p.used /\ (p.used % p.align = 0 => at = p.used)
  BY <1>3, AlignUpFacts
<1>5. end \in Nat /\ end > p.used
  BY <1>3, <1>4
<1>6. CASE full
  BY <1>1, <1>6
<1>7. CASE ~full
  <2>1. /\ q.prefix = p.prefix /\ q.trailing = p.trailing /\ q.pageSize = p.pageSize
        /\ q.align = p.align /\ q.max = p.max /\ q.free = p.free
        /\ q.used = end /\ q.data = resized /\ q.offsets = Append(p.offsets, at)
        /\ q = [prefix |-> p.prefix, trailing |-> p.trailing, pageSize |-> p.pageSize, align |-> p.align,
                max |-> p.max, used |-> end, data |-> resized, offsets |-> Append(p.offsets, at), free |-> p.free]
    <3> HIDE DEF at, end, size, resized
    <3>1. q = [prefix |-> p.prefix, trailing |-> p.trailing, pageSize |-> p.pageSize, align |-> p.align,
               max |-> p.max, used |-> end, data |-> resized, offsets |-> Append(p.offsets, at), free |-> p.free]
      <4> DEFINE o == Append(p.offsets, at)
      <4> HIDE DEF o
      <4>1. p = [prefix |-> p.prefix, trailing |-> p.trailing, pageSize |-> p.pageSize, align |-> p.align,
                 max |-> p.max, used |-> p.used, data |-> p.data, offsets |-> p.offsets, free |-> p.free]
        BY <1>2 DEF PoolShape
      <4>2. q = [p EXCEPT !.used = end, !.data = resized, !.offsets = o]
        BY DEF o
      <4> HIDE DEF q
      <4> QED BY <4>1, <4>2 DEF o
    <3> HIDE DEF q
    <3> QED BY <3>1
  <2>2. /\ Append(p.offsets, at) \in Seq(Nat) /\ Len(Append(p.offsets, at)) = n + 1
        /\ \A i \in 1..n : Append(p.offsets, at)[i] = p.offsets[i]
        /\ Append(p.offsets, at)[n + 1] = at
    BY <1>3, <1>4, AppendProperties
  <2>3. DOMAIN resized = 1..end /\ \A i \in 1..p.used : resized[i] = p.data[i]
    BY <1>2, <1>3, <1>5
  <2>4. PageElements(q) = size
    BY <2>1 DEF PageElements
  <2> HIDE DEF q, at, end, size, resized
  <2>5. PoolShape(q)
    BY <1>3, <1>5, <2>1, <2>2 DEF PoolShape
  <2>6. DOMAIN q.offsets = 1..(n + 1) /\ Len(q.offsets) = n + 1
    BY <2>1, <2>2, LenProperties
  <2>7. Grown(p, q)
    BY <1>2, <1>3, <1>5, <2>1, <2>2, <2>3, <2>6 DEF Grown
  <2>8. \A i \in 1..n : p.offsets[i] + size <= p.used
    BY <1>3 DEF PoolInv, size
  <2>9. \A i \in 1..(n + 1) : q.offsets[i] + PageElements(q) <= q.used
    <3> TAKE i \in 1..(n + 1)
    <3>1. CASE i \in 1..n
      <4>1. q.offsets[i] = p.offsets[i] /\ p.offsets[i] \in Nat
        BY <1>3, <2>1, <2>2, <3>1
      <4>2. p.offsets[i] + size <= p.used
        BY <2>8, <3>1
      <4>3. q.used = end
        BY <2>1
      <4> QED BY <1>3, <1>5, <2>4, <4>1, <4>2, <4>3
    <3>2. CASE i = n + 1
      BY <1>3, <1>4, <2>1, <2>2, <2>4, <3>2 DEF end
    <3> QED BY <1>3, <3>1, <3>2
  <2>10. \A i, j \in 1..(n + 1) : i < j => q.offsets[i] + PageElements(q) <= q.offsets[j]
    <3>1. \A i, j \in 1..n : i < j => p.offsets[i] + size <= p.offsets[j]
      BY <1>3 DEF PoolInv, size
    <3> TAKE i, j \in 1..(n + 1)
    <3> HAVE i < j
    <3>2. i \in 1..n
      BY <1>3
    <3>5. q.offsets[i] = p.offsets[i] /\ p.offsets[i] \in Nat
      BY <1>3, <2>1, <2>2, <3>2
    <3>3. CASE j \in 1..n
      BY <2>1, <2>2, <2>4, <3>1, <3>2, <3>3, <3>5
    <3>4. CASE j = n + 1
      <4>1. q.offsets[j] = at
        BY <2>1, <2>2, <3>4
      <4>2. p.offsets[i] + size <= p.used
        BY <2>8, <3>2
      <4> QED BY <1>3, <1>4, <2>4, <3>5, <4>1, <4>2
    <3>6. j \in 1..n \/ j = n + 1
      <4>1. n \in Nat
        BY <1>3
      <4> HIDE DEF n
      <4> QED BY <4>1
    <3> QED BY <3>3, <3>4, <3>6
  <2>11. PageElements(q) % q.align = 0 => q.used = Len(q.offsets) * PageElements(q)
    <3>1. SUFFICES ASSUME size % p.align = 0 PROVE end = (n + 1) * size
      BY <2>1, <2>4, <2>6
    <3>2. p.used = n * size
      BY <3>1 DEF PoolInv, size
    <3>3. p.used % p.align = 0
      <4> DEFINE k == size \div p.align
      <4>2. k \in Nat /\ size = k * p.align
        BY <1>3, <3>1, DivExact
      <4> HIDE DEF k
      <4>3. n * (k * p.align) = (n * k) * p.align /\ n * k \in Nat
        BY <1>3, <4>2
      <4> DEFINE m == n * k
      <4>4. m \in Nat /\ p.used = m * p.align + 0
        BY <1>3, <3>2, <4>2, <4>3
      <4> HIDE DEF m
      <4>5. (m * p.align + 0) % p.align = 0
        <5>1. 0 \in 0..(p.align - 1)
          BY <1>3
        <5> QED BY <1>3, <4>4, <5>1, DivSum
      <4> QED BY <4>4, <4>5
    <3>4. end = n * size + size
      BY <1>4, <3>2, <3>3 DEF end
    <3> QED BY <1>3, <3>4
  <2>12. q.max > 0 => Len(q.offsets) <= q.max
    BY <1>3, <1>7, <2>1, <2>6
  <2>13. ToSet(q.free) \subseteq DOMAIN q.offsets /\ IsInjective(q.free)
    BY <1>3, <2>1, <2>6 DEF PoolInv
  <2>14. PoolInv(q)
    BY <2>1, <2>3, <2>5, <2>6, <2>9, <2>10, <2>11, <2>12, <2>13 DEF PoolInv
  <2> QED BY <1>1, <1>3, <1>7, <2>1, <2>6, <2>7, <2>14
<1> HIDE DEF full, q
<1> QED BY <1>6, <1>7

-----------------------------------------------------------------------------
\* The elements of a list, by their positions.
LEMMA ToSetFacts ==
    ASSUME NEW S, NEW s \in Seq(S)
    PROVE  /\ \A x : x \in ToSet(s) <=> \E i \in 1..Len(s) : s[i] = x
           /\ ToSet(s) \subseteq S /\ DOMAIN s = 1..Len(s) /\ Len(s) \in Nat
           /\ IsInjective(s) <=> \A i, j \in 1..Len(s) : s[i] = s[j] => i = j
<1>1. DOMAIN s = 1..Len(s) /\ Len(s) \in Nat
  BY LenProperties
<1>2. \A i \in 1..Len(s) : s[i] \in S
  BY <1>1, ElementOfSeq
<1> QED BY <1>1, <1>2 DEF ToSet, IsInjective

\* A list without its last element.
LEMMA FrontFacts ==
    ASSUME NEW S, NEW s \in Seq(S), s # <<>>
    PROVE  /\ Front(s) \in Seq(S) /\ Len(Front(s)) = Len(s) - 1 /\ Len(s) \in Nat \ {0}
           /\ \A i \in 1..(Len(s) - 1) : Front(s)[i] = s[i]
           /\ Last(s) = s[Len(s)] /\ Last(s) \in S
<1>1. Len(s) \in Nat \ {0} /\ \A i \in 1..Len(s) : s[i] \in S
  BY LenProperties, EmptySeq, ElementOfSeq
<1>2. /\ SubSeq(s, 1, Len(s) - 1) \in Seq(S)
      /\ Len(SubSeq(s, 1, Len(s) - 1)) = Len(s) - 1
      /\ \A i \in 1..(Len(s) - 1) : SubSeq(s, 1, Len(s) - 1)[i] = s[i]
  <2> DEFINE m == Len(s) - 1
  <2>1. m \in Nat /\ 1 \in Int /\ m \in Int /\ \A i \in 1..m : s[i] \in S
    BY <1>1
  <2> HIDE DEF m
  <2>2. /\ SubSeq(s, 1, m) \in Seq(S)
        /\ Len(SubSeq(s, 1, m)) = IF 1 <= m THEN m - 1 + 1 ELSE 0
        /\ \A i \in 1..(m - 1 + 1) : SubSeq(s, 1, m)[i] = s[1 + i - 1]
    BY <2>1, SubSeqProperties
  <2>3. Len(SubSeq(s, 1, m)) = m /\ \A i \in 1..m : SubSeq(s, 1, m)[i] = s[i]
    BY <2>1, <2>2
  <2> QED BY <2>2, <2>3 DEF m
<1> QED BY <1>1, <1>2 DEF Front, Last

\* Growing twice is growing.
LEMMA GrownTrans ==
    ASSUME NEW p, NEW q, NEW r, PoolInv(p), PoolInv(q), PoolInv(r), Grown(p, q), Grown(q, r)
    PROVE  Grown(p, r) /\ NewPages(p, r) = NewPages(p, q) \cup NewPages(q, r)
<1>1. /\ Len(p.offsets) \in Nat /\ DOMAIN p.offsets = 1..Len(p.offsets)
      /\ Len(q.offsets) \in Nat /\ DOMAIN q.offsets = 1..Len(q.offsets)
      /\ Len(r.offsets) \in Nat
  BY PoolFacts DEF PoolInv
<1>2. Len(p.offsets) <= Len(q.offsets) /\ Len(q.offsets) <= Len(r.offsets)
  BY DEF Grown
<1>3. NewPages(p, r) = NewPages(p, q) \cup NewPages(q, r)
  BY <1>1, <1>2 DEF NewPages
<1>4. \A i \in DOMAIN p.offsets : i \in DOMAIN q.offsets
  BY <1>1, <1>2
<1>5. \A i \in DOMAIN p.offsets : r.offsets[i] = p.offsets[i]
  BY <1>4 DEF Grown
<1>6. DOMAIN p.data \subseteq DOMAIN r.data /\ \A i \in DOMAIN p.data : r.data[i] = p.data[i]
  BY DEF Grown
<1>7. /\ r.prefix = p.prefix /\ r.trailing = p.trailing /\ r.pageSize = p.pageSize
      /\ r.align = p.align /\ r.max = p.max
  BY DEF Grown
<1> QED BY <1>1, <1>2, <1>3, <1>5, <1>6, <1>7 DEF Grown

LEMMA GrownSelf == ASSUME NEW p, PoolInv(p) PROVE Grown(p, p) /\ NewPages(p, p) = {}
<1>1. Len(p.offsets) \in Nat
  BY PoolFacts DEF PoolInv
<1> QED BY <1>1 DEF Grown, NewPages

\* The pool with another stack of free pages.
LEMMA WithFree ==
    ASSUME NEW p, PoolInv(p), NEW free \in Seq(Nat), ToSet(free) \subseteq DOMAIN p.offsets, IsInjective(free)
    PROVE  LET q == [p EXCEPT !.free = free]
           IN PoolInv(q) /\ Grown(p, q) /\ q.free = free /\ NewPages(p, q) = {} /\ q.data = p.data
                /\ q.offsets = p.offsets
<1> DEFINE q == [p EXCEPT !.free = free]
<1>1. PoolShape(p)
  BY DEF PoolInv
<1>2. q = [prefix |-> p.prefix, trailing |-> p.trailing, pageSize |-> p.pageSize, align |-> p.align,
           max |-> p.max, used |-> p.used, data |-> p.data, offsets |-> p.offsets, free |-> free]
  <2>1. p = [prefix |-> p.prefix, trailing |-> p.trailing, pageSize |-> p.pageSize, align |-> p.align,
             max |-> p.max, used |-> p.used, data |-> p.data, offsets |-> p.offsets, free |-> p.free]
    BY <1>1 DEF PoolShape
  <2>2. q = [p EXCEPT !.free = free]
    OBVIOUS
  <2> HIDE DEF q
  <2> QED BY <2>1, <2>2
<1>3. /\ q.prefix = p.prefix /\ q.trailing = p.trailing /\ q.pageSize = p.pageSize
      /\ q.align = p.align /\ q.max = p.max /\ q.free = free
      /\ q.used = p.used /\ q.data = p.data /\ q.offsets = p.offsets
  <2> HIDE DEF q
  <2> QED BY <1>2
<1>4. /\ p.prefix \in Nat \ {0} /\ p.trailing \in Nat \ {0} /\ p.pageSize \in Nat \ {0}
      /\ p.align \in Nat \ {0} /\ p.max \in Nat /\ p.used \in Nat
      /\ p.offsets \in Seq(Nat) /\ Len(p.offsets) \in Nat
  BY <1>1, PoolFacts
<1> HIDE DEF q
<1>5. PoolShape(q)
  BY <1>2, <1>3, <1>4 DEF PoolShape
<1>6. PageElements(q) = PageElements(p)
  BY <1>3 DEF PageElements
<1>7. PoolInv(q)
  BY <1>3, <1>5, <1>6 DEF PoolInv
<1>8. Grown(p, q) /\ NewPages(p, q) = {}
  BY <1>3, <1>4 DEF Grown, NewPages
<1> QED BY <1>3, <1>7, <1>8 DEF q

\* A page comes from the stack, or is new.
LEMMA AllocatePageFacts ==
    ASSUME NEW p, PoolInv(p)
    PROVE  LET r == AllocatePage(p)
           IN /\ r.page = 0 => r.pool = p /\ p.free = <<>> /\ AddPage(p).page = 0
              /\ r.page # 0 => /\ PoolInv(r.pool) /\ Grown(p, r.pool)
                               /\ r.page \in DOMAIN r.pool.offsets /\ r.page \notin ToSet(r.pool.free)
                               /\ \A x : x \in ToSet(r.pool.free) \/ x = r.page <=>
                                         x \in ToSet(p.free) \/ x \in NewPages(p, r.pool)
<1>1. PoolShape(p) /\ ToSet(p.free) \subseteq DOMAIN p.offsets /\ IsInjective(p.free)
  BY DEF PoolInv
<1>2. /\ p.free \in Seq(Nat) /\ Len(p.offsets) \in Nat /\ DOMAIN p.offsets = 1..Len(p.offsets)
  BY <1>1, PoolFacts
<1> DEFINE s == p.free
<1>3. /\ \A x : x \in ToSet(s) <=> \E i \in 1..Len(s) : s[i] = x
      /\ Len(s) \in Nat /\ \A i, j \in 1..Len(s) : s[i] = s[j] => i = j
  BY <1>1, <1>2, ToSetFacts
<1>4. CASE s # <<>>
  <2> DEFINE f == Front(s)
             page == Last(s)
             q == [p EXCEPT !.free = f]
  <2>1. AllocatePage(p) = [pool |-> q, page |-> page]
    BY <1>4 DEF AllocatePage
  <2>2. /\ f \in Seq(Nat) /\ Len(f) = Len(s) - 1 /\ Len(s) \in Nat \ {0}
        /\ \A i \in 1..(Len(s) - 1) : f[i] = s[i]
        /\ page = s[Len(s)]
    BY <1>2, <1>4, FrontFacts
  <2>3. /\ \A x : x \in ToSet(f) <=> \E i \in 1..Len(f) : f[i] = x
        /\ IsInjective(f) <=> \A i, j \in 1..Len(f) : f[i] = f[j] => i = j
    BY <2>2, ToSetFacts
  <2> HIDE DEF f, page, s
  <2>4. IsInjective(f)
    BY <1>3, <2>2, <2>3
  <2>5. \A x : x \in ToSet(f) \/ x = page <=> x \in ToSet(s)
    <3>1. \A i \in 1..Len(s) : i = Len(s) \/ i \in 1..Len(f)
      BY <2>2
    <3>2. \A i \in 1..Len(f) : i \in 1..Len(s) /\ f[i] = s[i]
      BY <2>2
    <3>3. Len(s) \in 1..Len(s)
      BY <2>2
    <3>4. ASSUME NEW x, x \in ToSet(f) PROVE x \in ToSet(s)
      <4>1. PICK i \in 1..Len(f) : f[i] = x
        BY <2>3, <3>4
      <4> QED BY <1>3, <3>2, <4>1
    <3>5. page \in ToSet(s)
      BY <1>3, <2>2, <3>3
    <3>6. ASSUME NEW x, x \in ToSet(s) PROVE x \in ToSet(f) \/ x = page
      <4>1. PICK i \in 1..Len(s) : s[i] = x
        BY <1>3, <3>6
      <4>2. CASE i = Len(s)
        BY <2>2, <4>1, <4>2
      <4>3. CASE i \in 1..Len(f)
        BY <2>3, <3>2, <4>1, <4>3
      <4> QED BY <3>1, <4>2, <4>3
    <3> QED BY <3>4, <3>5, <3>6
  <2>6. page \notin ToSet(f)
    <3>1. SUFFICES ASSUME NEW i \in 1..Len(f), f[i] = page PROVE FALSE
      BY <2>3
    <3>2. i \in 1..Len(s) /\ Len(s) \in 1..Len(s) /\ f[i] = s[i] /\ i # Len(s)
      BY <2>2
    <3> QED BY <1>3, <2>2, <3>1, <3>2
  <2>7. ToSet(f) \subseteq DOMAIN p.offsets /\ page \in DOMAIN p.offsets
    BY <1>1, <2>5 DEF s
  <2>8. PoolInv(q) /\ Grown(p, q) /\ q.free = f /\ NewPages(p, q) = {} /\ q.offsets = p.offsets
    BY <2>2, <2>4, <2>7, WithFree
  <2> HIDE DEF q
  <2>9. page # 0
    BY <1>2, <2>7
  <2> QED BY <2>1, <2>5, <2>6, <2>7, <2>8, <2>9 DEF s
<1>5. CASE s = <<>>
  <2> DEFINE r == AddPage(p)
  <2>1. AllocatePage(p) = r
    BY <1>5 DEF AllocatePage
  <2>2. /\ r.page = 0 => r.pool = p
        /\ r.page # 0 => /\ r.page = Len(p.offsets) + 1 /\ PoolInv(r.pool) /\ Grown(p, r.pool)
                         /\ Len(r.pool.offsets) = Len(p.offsets) + 1 /\ r.pool.free = p.free
    BY AddPageFacts
  <2> HIDE DEF r
  <2>3. ToSet(s) = {}
    BY <1>5 DEF ToSet
  <2>4. CASE r.page # 0
    <3>1. DOMAIN r.pool.offsets = 1..(Len(p.offsets) + 1)
      BY <2>2, <2>4, PoolFacts DEF PoolInv
    <3>2. NewPages(p, r.pool) = {r.page}
      BY <1>2, <2>2, <2>4 DEF NewPages
    <3>3. r.page \in DOMAIN r.pool.offsets
      BY <1>2, <2>2, <2>4, <3>1
    <3> QED BY <2>1, <2>2, <2>3, <2>4, <3>2, <3>3
  <2>5. CASE r.page = 0
    BY <1>5, <2>1, <2>2, <2>5 DEF r
  <2> QED BY <2>4, <2>5
<1> QED BY <1>4, <1>5

-----------------------------------------------------------------------------

\* What pool and tensor have after pages were taken for a tensor that had these.
Taken(p, pages, r) ==
  /\ r.ok \in BOOLEAN
  /\ PoolInv(r.pool) /\ Grown(p, r.pool)
  /\ r.pages \in Seq(Nat) /\ IsInjective(r.pages)
  /\ Len(pages) <= Len(r.pages) /\ \A i \in 1..Len(pages) : r.pages[i] = pages[i]
  /\ \A x \in ToSet(r.pages) : x \notin ToSet(r.pool.free)
  /\ \A x : x \in ToSet(r.pages) \/ x \in ToSet(r.pool.free) <=>
            x \in ToSet(pages) \/ x \in ToSet(p.free) \/ x \in NewPages(p, r.pool)
  /\ ~r.ok => r.pool.free = <<>> /\ AddPage(r.pool).page = 0

TakeOne(r) ==
  LET got == AllocatePage(r.pool)
  IN IF ~r.ok \/ got.page = 0 THEN [pool |-> r.pool, pages |-> r.pages, ok |-> FALSE]
     ELSE [pool |-> got.pool, pages |-> Append(r.pages, got.page), ok |-> TRUE]

\* One more page is taken, or none is to be had and what is taken is kept.
LEMMA TakeOneFacts ==
    ASSUME NEW p, PoolInv(p), NEW pages \in Seq(Nat), ToSet(pages) \subseteq DOMAIN p.offsets,
           NEW r, Taken(p, pages, r)
    PROVE  /\ Taken(p, pages, TakeOne(r))
           /\ TakeOne(r).ok => r.ok /\ Len(TakeOne(r).pages) = Len(r.pages) + 1
<1> DEFINE got == AllocatePage(r.pool)
           q == r.pool
           u == got.pool
           page == got.page
           longer == Append(r.pages, page)
<1>1. /\ PoolInv(q) /\ Grown(p, q) /\ r.pages \in Seq(Nat) /\ IsInjective(r.pages)
      /\ Len(pages) \in Nat /\ Len(pages) <= Len(r.pages)
      /\ \A i \in 1..Len(pages) : r.pages[i] = pages[i]
      /\ \A x \in ToSet(r.pages) : x \notin ToSet(q.free)
      /\ \A x : x \in ToSet(r.pages) \/ x \in ToSet(q.free) <=>
                x \in ToSet(pages) \/ x \in ToSet(p.free) \/ x \in NewPages(p, q)
  BY LenProperties DEF Taken
<1>2. /\ page = 0 => u = q /\ q.free = <<>> /\ AddPage(q).page = 0
      /\ page # 0 => /\ PoolInv(u) /\ Grown(q, u)
                     /\ page \in DOMAIN u.offsets /\ page \notin ToSet(u.free)
                     /\ \A x : x \in ToSet(u.free) \/ x = page <=>
                               x \in ToSet(q.free) \/ x \in NewPages(q, u)
  BY <1>1, AllocatePageFacts
<1>3. CASE ~r.ok \/ page = 0
  <2>1. TakeOne(r) = [pool |-> q, pages |-> r.pages, ok |-> FALSE]
    BY <1>3 DEF TakeOne
  <2>2. q.free = <<>> /\ AddPage(q).page = 0
    BY <1>2, <1>3 DEF Taken
  <2> DEFINE w == TakeOne(r)
  <2>3. w.pool = q /\ w.pages = r.pages /\ w.ok = FALSE
    BY <2>1
  <2> HIDE DEF w, q
  <2> QED BY <1>1, <2>2, <2>3 DEF Taken, w
<1>4. CASE r.ok /\ page # 0
  <2> DEFINE w == TakeOne(r)
  <2>1. w.pool = u /\ w.pages = longer /\ w.ok = TRUE
    BY <1>4 DEF TakeOne
  <2> HIDE DEF w, got, page, u, q
  <2>2. DOMAIN u.offsets \subseteq Nat
    <3>1. PoolInv(u)
      BY <1>2, <1>4
    <3>2. PoolShape(u)
      BY <3>1 DEF PoolInv
    <3>3. DOMAIN u.offsets = 1..Len(u.offsets)
      BY <3>2, PoolFacts
    <3> QED BY <3>3
  <2>3. page \in Nat
    BY <1>2, <1>4, <2>2
  <2>4. /\ longer \in Seq(Nat) /\ Len(longer) = Len(r.pages) + 1
        /\ \A i \in 1..Len(r.pages) : longer[i] = r.pages[i]
        /\ longer[Len(r.pages) + 1] = page
    BY <1>1, <2>3, AppendProperties
  <2>5. /\ \A x : x \in ToSet(r.pages) <=> \E i \in 1..Len(r.pages) : r.pages[i] = x
        /\ Len(r.pages) \in Nat
        /\ \A i, j \in 1..Len(r.pages) : r.pages[i] = r.pages[j] => i = j
    BY <1>1, ToSetFacts
  <2> HIDE DEF longer
  <2>6. /\ \A x : x \in ToSet(longer) <=> \E i \in 1..Len(longer) : longer[i] = x
        /\ IsInjective(longer) <=> \A i, j \in 1..Len(longer) : longer[i] = longer[j] => i = j
    BY <2>4, ToSetFacts
  <2>7. \A x : x \in ToSet(longer) <=> x \in ToSet(r.pages) \/ x = page
    <3>1. \A i \in 1..Len(longer) : i \in 1..Len(r.pages) \/ i = Len(r.pages) + 1
      BY <2>4, <2>5
    <3>2. \A i \in 1..Len(r.pages) : i \in 1..Len(longer)
      BY <2>4, <2>5
    <3>3. Len(r.pages) + 1 \in 1..Len(longer)
      BY <2>4, <2>5
    <3> TAKE x
    <3>4. ASSUME x \in ToSet(longer) PROVE x \in ToSet(r.pages) \/ x = page
      <4>1. PICK i \in 1..Len(longer) : longer[i] = x
        BY <2>6, <3>4
      <4> QED BY <2>4, <2>5, <3>1, <4>1
    <3>5. ASSUME x \in ToSet(r.pages) PROVE x \in ToSet(longer)
      <4>1. PICK i \in 1..Len(r.pages) : r.pages[i] = x
        BY <2>5, <3>5
      <4> QED BY <2>4, <2>6, <3>2, <4>1
    <3>6. page \in ToSet(longer)
      BY <2>4, <2>6, <3>3
    <3> QED BY <3>4, <3>5, <3>6
  <2>8. page \notin ToSet(r.pages)
    <3>1. SUFFICES ASSUME page \in ToSet(r.pages) PROVE FALSE
      OBVIOUS
    <3>2. page \notin ToSet(q.free)
      BY <1>1, <3>1
    <3>3. page \in NewPages(q, u)
      BY <1>2, <1>4, <3>2
    <3>4. page \in ToSet(pages) \/ page \in ToSet(p.free) \/ page \in NewPages(p, q)
      BY <1>1, <3>1
    <3>5. page \in DOMAIN p.offsets \/ page \in NewPages(p, q)
      BY <3>4 DEF PoolInv
    <3>6. /\ Len(p.offsets) \in Nat /\ DOMAIN p.offsets = 1..Len(p.offsets)
          /\ Len(q.offsets) \in Nat /\ Len(p.offsets) <= Len(q.offsets)
      BY <1>1, PoolFacts DEF PoolInv, Grown
    <3> QED BY <3>3, <3>5, <3>6 DEF NewPages
  <2>9. IsInjective(longer)
    <3>1. \A i \in 1..Len(longer) : i \in 1..Len(r.pages) \/ i = Len(r.pages) + 1
      BY <2>4, <2>5
    <3>2. SUFFICES ASSUME NEW i \in 1..Len(longer), NEW j \in 1..Len(longer), longer[i] = longer[j] PROVE i = j
      BY <2>6
    <3>3. CASE i \in 1..Len(r.pages) /\ j \in 1..Len(r.pages)
      BY <2>4, <2>5, <3>2, <3>3
    <3>4. \A k \in 1..Len(r.pages) : longer[k] # page
      BY <2>4, <2>5, <2>8
    <3> QED BY <2>4, <3>1, <3>2, <3>3, <3>4
  <2>10. Grown(p, u) /\ NewPages(p, u) = NewPages(p, q) \cup NewPages(q, u)
    BY <1>1, <1>2, <1>4, GrownTrans
  <2>11. \A x \in ToSet(longer) : x \notin ToSet(u.free)
    <3> TAKE x \in ToSet(longer)
    <3>1. CASE x = page
      BY <1>2, <1>4, <3>1
    <3>2. CASE x \in ToSet(r.pages) /\ x # page
      <4>1. x \notin ToSet(q.free)
        BY <1>1, <3>2
      <4>2. x \in ToSet(pages) \/ x \in ToSet(p.free) \/ x \in NewPages(p, q)
        BY <1>1, <3>2
      <4>3. x \in DOMAIN p.offsets \/ x \in NewPages(p, q)
        BY <4>2 DEF PoolInv
      <4>4. /\ Len(p.offsets) \in Nat /\ DOMAIN p.offsets = 1..Len(p.offsets)
            /\ Len(q.offsets) \in Nat /\ Len(p.offsets) <= Len(q.offsets)
        BY <1>1, PoolFacts DEF PoolInv, Grown
      <4>5. x \notin NewPages(q, u)
        BY <4>3, <4>4 DEF NewPages
      <4> QED BY <1>2, <1>4, <3>2, <4>1, <4>5
    <3> QED BY <2>7, <3>1, <3>2
  <2>12. \A x : x \in ToSet(longer) \/ x \in ToSet(u.free) <=>
               x \in ToSet(pages) \/ x \in ToSet(p.free) \/ x \in NewPages(p, u)
    <3> TAKE x
    <3>1. x \in ToSet(u.free) \/ x = page <=> x \in ToSet(q.free) \/ x \in NewPages(q, u)
      BY <1>2, <1>4
    <3>2. x \in ToSet(r.pages) \/ x \in ToSet(q.free) <=>
                x \in ToSet(pages) \/ x \in ToSet(p.free) \/ x \in NewPages(p, q)
      BY <1>1
    <3>3. x \in NewPages(p, u) <=> x \in NewPages(p, q) \/ x \in NewPages(q, u)
      BY <2>10
    <3> QED BY <2>7, <3>1, <3>2, <3>3
  <2>13. Len(pages) <= Len(longer) /\ \A i \in 1..Len(pages) : longer[i] = pages[i]
    BY <1>1, <2>4, <2>5
  <2>14. PoolInv(u)
    BY <1>2, <1>4
  <2>15. Taken(p, pages, w)
    BY <2>1, <2>4, <2>9, <2>10, <2>11, <2>12, <2>13, <2>14 DEF Taken
  <2> QED BY <1>4, <2>1, <2>4, <2>15 DEF w
<1>5. r.ok \in BOOLEAN
  BY DEF Taken
<1> QED BY <1>3, <1>4, <1>5

\* f follows n pages taken one by one, from z.
Taking(f, n, z) == f = [i \in 0..n |-> IF i = 0 THEN z ELSE TakeOne(f[i - 1])]

\* There is such an f, so the one that Reserve chooses is one.
LEMMA TakingExists == ASSUME NEW n \in Nat, NEW z PROVE \E f : Taking(f, n, z)
<1> DEFINE T == {m \in 0..n : \E f : Taking(f, m, z)}
<1>1. 0 \in T
  <2> DEFINE f == [i \in 0..0 |-> z]
  <2>1. Taking(f, 0, z)
    BY DEF Taking
  <2> HIDE DEF f
  <2> QED BY <2>1
<1>2. ASSUME NEW m \in 1..n, m - 1 \in T PROVE m \in T
  <2>1. PICK f : Taking(f, m - 1, z)
    BY <1>2
  <2> DEFINE g == [i \in 0..m |-> IF i = m THEN TakeOne(f[m - 1]) ELSE f[i]]
  <2>2. \A i \in 0..(m - 1) : g[i] = f[i] /\ f[i] = IF i = 0 THEN z ELSE TakeOne(f[i - 1])
    BY <2>1 DEF Taking
  <2>3. \A i \in 0..m : g[i] = IF i = 0 THEN z ELSE TakeOne(g[i - 1])
    <3> TAKE i \in 0..m
    <3>1. CASE i = m
      <4>1. m - 1 \in 0..(m - 1) /\ m # 0
        OBVIOUS
      <4> QED BY <2>2, <3>1, <4>1
    <3>2. CASE i # m /\ i # 0
      <4>1. i \in 0..(m - 1) /\ i - 1 \in 0..(m - 1)
        BY <3>2
      <4>2. g[i] = f[i] /\ g[i - 1] = f[i - 1] /\ f[i] = TakeOne(f[i - 1])
        BY <2>2, <3>2, <4>1
      <4> HIDE DEF g
      <4> QED BY <3>2, <4>2
    <3>3. CASE i = 0 /\ i # m
      <4>1. 0 \in 0..(m - 1)
        OBVIOUS
      <4> QED BY <2>2, <3>3, <4>1
    <3> QED BY <3>1, <3>2, <3>3
  <2>4. DOMAIN g = 0..m /\ g = [i \in 0..m |-> g[i]]
    OBVIOUS
  <2> HIDE DEF g
  <2>5. Taking(g, m, z)
    BY <2>3, <2>4 DEF Taking
  <2> QED BY <2>5
<1>3. n \in T
  <2> HIDE DEF T
  <2> QED BY <1>1, <1>2, ByPrevious
<1> QED BY <1>3

\* reservePaged takes pages that nobody has, until there are n or none is left.
LEMMA ReserveFacts ==
    ASSUME NEW p, PoolInv(p), NEW pages \in Seq(Nat), ToSet(pages) \subseteq DOMAIN p.offsets,
           IsInjective(pages), \A x \in ToSet(pages) : x \notin ToSet(p.free), NEW n \in Nat
    PROVE  /\ Taken(p, pages, Reserve(p, pages, n))
           /\ Reserve(p, pages, n).ok => n <= Len(Reserve(p, pages, n).pages)
<1> DEFINE missing == IF n > Len(pages) THEN n - Len(pages) ELSE 0
           z == [pool |-> p, pages |-> pages, ok |-> TRUE]
           f == CHOOSE h : Taking(h, missing, z)
<1>1. missing \in Nat /\ Len(pages) \in Nat /\ n <= Len(pages) + missing
  BY LenProperties
<1>2. Reserve(p, pages, n) = f[missing]
  BY DEF Reserve, TakeOne, Taking
<1>3. Taking(f, missing, z)
  <2> HIDE DEF missing, z
  <2>1. \E g : Taking(g, missing, z)
    BY <1>1, TakingExists
  <2> QED BY <2>1
<1>4. \A i \in 0..missing : f[i] = IF i = 0 THEN z ELSE TakeOne(f[i - 1])
  <2> HIDE DEF z, f
  <2> QED BY <1>3 DEF Taking
<1> HIDE DEF f, missing
<1>5. Taken(p, pages, z)
  <2>1. z.ok = TRUE /\ z.pool = p /\ z.pages = pages
    OBVIOUS
  <2>2. Grown(p, p) /\ NewPages(p, p) = {}
    BY GrownSelf
  <2> HIDE DEF z
  <2>3. \A x : x \in ToSet(pages) \/ x \in ToSet(p.free) <=>
              x \in ToSet(pages) \/ x \in ToSet(p.free) \/ x \in NewPages(p, p)
    BY <2>2
  <2>4. \A x \in ToSet(z.pages) : x \notin ToSet(z.pool.free)
    BY <2>1
  <2>5. z.ok \in BOOLEAN /\ (z.ok = TRUE) /\ PoolInv(z.pool) /\ Grown(p, z.pool)
    BY <2>1, <2>2
  <2>6. /\ z.pages \in Seq(Nat) /\ IsInjective(z.pages)
        /\ Len(pages) <= Len(z.pages) /\ \A i \in 1..Len(pages) : z.pages[i] = pages[i]
    BY <1>1, <2>1
  <2> QED BY <2>1, <2>3, <2>4, <2>5, <2>6 DEF Taken
<1> DEFINE T == {i \in 0..missing : Taken(p, pages, f[i]) /\ (f[i].ok => Len(f[i].pages) = Len(pages) + i)}
<1>6. 0 \in T
  BY <1>1, <1>4, <1>5
<1>7. ASSUME NEW k \in 1..missing, k - 1 \in T PROVE k \in T
  <2>1. Taken(p, pages, f[k - 1]) /\ (f[k - 1].ok => Len(f[k - 1].pages) = Len(pages) + (k - 1))
    BY <1>7
  <2>2. f[k] = TakeOne(f[k - 1])
    BY <1>1, <1>4
  <2>3. /\ Taken(p, pages, f[k])
        /\ f[k].ok => f[k - 1].ok /\ Len(f[k].pages) = Len(f[k - 1].pages) + 1
    BY <2>1, <2>2, TakeOneFacts
  <2>4. f[k].ok => Len(f[k].pages) = Len(pages) + k
    BY <1>1, <2>1, <2>3
  <2> QED BY <2>3, <2>4
<1>8. missing \in T
  <2> HIDE DEF T
  <2>1. \A k \in 0..missing : k \in T
    BY <1>1, <1>6, <1>7, ByPrevious
  <2> QED BY <1>1, <2>1
<1> QED BY <1>1, <1>2, <1>8

-----------------------------------------------------------------------------
Described(desc, p) ==
  /\ p.prefix = desc.prefix /\ p.trailing = desc.trailing /\ p.pageSize = desc.pageSize
  /\ p.align = desc.align /\ p.max = desc.max

\* A new pool: all its pages are free.
Fresh(desc, p) == PoolInv(p) /\ Described(desc, p) /\ ToSet(p.free) = DOMAIN p.offsets

AddOne(r) ==
  LET added == AddPage(r.pool)
  IN IF ~r.ok \/ added.page = 0 THEN [pool |-> r.pool, ok |-> FALSE]
     ELSE [pool |-> DeallocatePage(added.pool, added.page), ok |-> TRUE]

\* A page that is added to a new pool is put on its stack.
LEMMA AddOneFacts ==
    ASSUME NEW desc, NEW r, Fresh(desc, r.pool)
    PROVE  Fresh(desc, AddOne(r).pool)
<1> DEFINE p == r.pool
           added == AddPage(p)
           q == added.pool
           page == added.page
<1>1. PoolInv(p) /\ Described(desc, p) /\ ToSet(p.free) = DOMAIN p.offsets
  BY DEF Fresh
<1>2. page # 0 => /\ page = Len(p.offsets) + 1 /\ PoolInv(q) /\ Grown(p, q)
                  /\ Len(q.offsets) = Len(p.offsets) + 1 /\ q.free = p.free
  BY <1>1, AddPageFacts
<1>3. CASE ~r.ok \/ page = 0
  <2>1. AddOne(r).pool = p
    BY <1>3 DEF AddOne
  <2> QED BY <2>1
<1>4. CASE r.ok /\ page # 0
  <2>1. AddOne(r).pool = DeallocatePage(q, page)
    BY <1>4 DEF AddOne
  <2> DEFINE free == Append(q.free, page)
  <2>2. DeallocatePage(q, page) = [q EXCEPT !.free = free]
    BY DEF DeallocatePage
  <2> HIDE DEF added, q, page, p
  <2>3. /\ p.free \in Seq(Nat) /\ Len(p.offsets) \in Nat /\ DOMAIN p.offsets = 1..Len(p.offsets)
        /\ DOMAIN q.offsets = 1..(Len(p.offsets) + 1)
    <3>1. PoolShape(p) /\ PoolShape(q)
      BY <1>1, <1>2, <1>4 DEF PoolInv
    <3>2. /\ p.free \in Seq(Nat) /\ Len(p.offsets) \in Nat /\ DOMAIN p.offsets = 1..Len(p.offsets)
      BY <3>1, PoolFacts
    <3>3. DOMAIN q.offsets = 1..Len(q.offsets)
      BY <3>1, PoolFacts
    <3> QED BY <1>2, <1>4, <3>2, <3>3
  <2> DEFINE s == p.free
             n == Len(s)
  <2>4. q.free = s /\ page \in Nat /\ page = Len(p.offsets) + 1
    BY <1>2, <1>4, <2>3
  <2>5. /\ Append(s, page) \in Seq(Nat) /\ Len(Append(s, page)) = Len(s) + 1
        /\ \A i \in 1..Len(s) : Append(s, page)[i] = s[i]
        /\ Append(s, page)[Len(s) + 1] = page
    BY <2>3, <2>4, AppendProperties
  <2>6. /\ free \in Seq(Nat) /\ Len(free) = n + 1
        /\ \A i \in 1..n : free[i] = s[i]
        /\ free[n + 1] = page
    BY <2>4, <2>5
  <2>7. /\ \A x : x \in ToSet(s) <=> \E i \in 1..Len(s) : s[i] = x
        /\ n \in Nat /\ IsInjective(s) <=> \A i, j \in 1..Len(s) : s[i] = s[j] => i = j
    BY <2>3, ToSetFacts
  <2> HIDE DEF free, s
  <2>8. /\ \A x : x \in ToSet(free) <=> \E i \in 1..Len(free) : free[i] = x
        /\ IsInjective(free) <=> \A i, j \in 1..Len(free) : free[i] = free[j] => i = j
    BY <2>6, ToSetFacts
  <2>9. /\ \A i \in 1..Len(free) : i \in 1..n \/ i = n + 1
        /\ \A i \in 1..n : i \in 1..Len(free)
        /\ n + 1 \in 1..Len(free)
    BY <2>6, <2>7
  <2>10. ToSet(s) = DOMAIN p.offsets /\ IsInjective(s)
    BY <1>1 DEF s, PoolInv
  <2>11. \A x : x \in ToSet(free) <=> x \in DOMAIN p.offsets \/ x = page
    <3> TAKE x
    <3>1. ASSUME x \in ToSet(free) PROVE x \in DOMAIN p.offsets \/ x = page
      <4>1. PICK i \in 1..Len(free) : free[i] = x
        BY <2>8, <3>1
      <4> QED BY <2>6, <2>7, <2>9, <2>10, <4>1
    <3>2. ASSUME x \in DOMAIN p.offsets PROVE x \in ToSet(free)
      <4>1. PICK i \in 1..n : s[i] = x
        BY <2>7, <2>10, <3>2
      <4> QED BY <2>6, <2>8, <2>9, <4>1
    <3>3. page \in ToSet(free)
      BY <2>6, <2>8, <2>9
    <3> QED BY <3>1, <3>2, <3>3
  <2>12. ToSet(free) = DOMAIN q.offsets
    <3>1. \A x : x \in DOMAIN q.offsets <=> x \in DOMAIN p.offsets \/ x = page
      BY <2>3, <2>4
    <3> QED BY <2>11, <3>1
  <2>13. IsInjective(free)
    <3>1. SUFFICES ASSUME NEW i \in 1..Len(free), NEW j \in 1..Len(free), free[i] = free[j] PROVE i = j
      BY <2>8
    <3>2. \A k \in 1..n : free[k] # page
      <4>1. \A k \in 1..n : free[k] \in DOMAIN p.offsets
        BY <2>6, <2>7, <2>10
      <4>2. page \notin DOMAIN p.offsets
        BY <2>3, <2>4
      <4> QED BY <4>1, <4>2
    <3>3. CASE i \in 1..n /\ j \in 1..n
      BY <2>6, <2>7, <2>10, <3>1, <3>3
    <3> QED BY <2>6, <2>9, <3>1, <3>2, <3>3
  <2> DEFINE u == [q EXCEPT !.free = free]
  <2>14. PoolInv(q)
    BY <1>2, <1>4
  <2>15. PoolInv(u) /\ Grown(q, u) /\ u.free = free /\ u.offsets = q.offsets
    BY <2>6, <2>12, <2>13, <2>14, WithFree
  <2> HIDE DEF u
  <2>16. Described(desc, u)
    BY <1>1, <1>2, <1>4, <2>15 DEF Described, Grown
  <2>17. AddOne(r).pool = u
    BY <2>1, <2>2 DEF u
  <2> QED BY <2>12, <2>15, <2>16, <2>17 DEF Fresh
<1> QED BY <1>3, <1>4

\* A pool before it has pages.
LEMMA EmptyPoolFacts ==
    ASSUME NEW desc \in PoolDescs
    PROVE  Fresh(desc, EmptyPool(desc))
<1> DEFINE p == EmptyPool(desc)
<1>1. /\ desc.prefix \in Nat \ {0} /\ desc.trailing \in Nat \ {0} /\ desc.pageSize \in Nat \ {0}
      /\ desc.align \in Nat \ {0} /\ desc.max \in Nat
  BY PagesAssumption
<1>2. /\ p.prefix = desc.prefix /\ p.trailing = desc.trailing /\ p.pageSize = desc.pageSize
      /\ p.align = desc.align /\ p.max = desc.max
      /\ p.used = 0 /\ p.data = <<>> /\ p.offsets = <<>> /\ p.free = <<>>
      /\ p = [prefix |-> desc.prefix, trailing |-> desc.trailing, pageSize |-> desc.pageSize,
              align |-> desc.align, max |-> desc.max,
              used |-> 0, data |-> <<>>, offsets |-> <<>>, free |-> <<>>]
  BY DEF EmptyPool
<1> HIDE DEF p
<1>3. <<>> \in Seq(Nat) /\ Len(<<>>) = 0 /\ DOMAIN <<>> = {} /\ 1..0 = {} /\ ToSet(<<>>) = {} /\ IsInjective(<<>>)
  BY EmptySeq, LenProperties DEF ToSet, IsInjective
<1>4. PoolShape(p)
  <2> DEFINE e == <<>>
  <2>1. e \in Seq(Nat)
    BY <1>3
  <2> HIDE DEF e
  <2>2. /\ p.data = e
        /\ p = [prefix |-> desc.prefix, trailing |-> desc.trailing, pageSize |-> desc.pageSize,
                align |-> desc.align, max |-> desc.max, used |-> 0, data |-> e, offsets |-> e, free |-> e]
    BY <1>2 DEF e
  <2> QED BY <1>1, <2>1, <2>2 DEF PoolShape
<1>5. PageElements(p) \in Nat \ {0}
  BY <1>4, PoolFacts
<1>6. 0 * PageElements(p) = 0
  BY <1>5
<1>7. PoolInv(p)
  BY <1>1, <1>2, <1>3, <1>4, <1>6 DEF PoolInv
<1> QED BY <1>2, <1>3, <1>7 DEF Fresh, Described, p

\* f follows n pages added one by one, from z.
Adding(f, n, z) == f = [i \in 0..n |-> IF i = 0 THEN z ELSE AddOne(f[i - 1])]

LEMMA AddingExists == ASSUME NEW n \in Nat, NEW z PROVE \E f : Adding(f, n, z)
<1> DEFINE T == {m \in 0..n : \E f : Adding(f, m, z)}
<1>1. 0 \in T
  <2> DEFINE f == [i \in 0..0 |-> z]
  <2>1. Adding(f, 0, z)
    BY DEF Adding
  <2> HIDE DEF f
  <2> QED BY <2>1
<1>2. ASSUME NEW m \in 1..n, m - 1 \in T PROVE m \in T
  <2>1. PICK f : Adding(f, m - 1, z)
    BY <1>2
  <2> DEFINE g == [i \in 0..m |-> IF i = m THEN AddOne(f[m - 1]) ELSE f[i]]
  <2>2. \A i \in 0..(m - 1) : g[i] = f[i] /\ f[i] = IF i = 0 THEN z ELSE AddOne(f[i - 1])
    BY <2>1 DEF Adding
  <2>3. \A i \in 0..m : g[i] = IF i = 0 THEN z ELSE AddOne(g[i - 1])
    <3> TAKE i \in 0..m
    <3>1. CASE i = m
      <4>1. m - 1 \in 0..(m - 1) /\ m # 0
        OBVIOUS
      <4> QED BY <2>2, <3>1, <4>1
    <3>2. CASE i # m /\ i # 0
      <4>1. i \in 0..(m - 1) /\ i - 1 \in 0..(m - 1)
        BY <3>2
      <4>2. g[i] = f[i] /\ g[i - 1] = f[i - 1] /\ f[i] = AddOne(f[i - 1])
        BY <2>2, <3>2, <4>1
      <4> HIDE DEF g
      <4> QED BY <3>2, <4>2
    <3>3. CASE i = 0 /\ i # m
      <4>1. 0 \in 0..(m - 1)
        OBVIOUS
      <4> QED BY <2>2, <3>3, <4>1
    <3> QED BY <3>1, <3>2, <3>3
  <2>4. DOMAIN g = 0..m /\ g = [i \in 0..m |-> g[i]]
    OBVIOUS
  <2> HIDE DEF g
  <2>5. Adding(g, m, z)
    BY <2>3, <2>4 DEF Adding
  <2> QED BY <2>5
<1>3. n \in T
  <2> HIDE DEF T
  <2> QED BY <1>1, <1>2, ByPrevious
<1> QED BY <1>3

\* What initialize makes, whether or not it made all pages.
LEMMA InitializeFacts ==
    ASSUME NEW desc \in PoolDescs
    PROVE  Fresh(desc, Initialize(desc).pool)
<1> DEFINE n == desc.initial
           z == [pool |-> EmptyPool(desc), ok |-> TRUE]
           f == CHOOSE h : Adding(h, n, z)
<1>1. n \in Nat
  BY PagesAssumption
<1>2. Initialize(desc) = f[n]
  BY DEF Initialize, AddOne, Adding
<1>3. Adding(f, n, z)
  <2> HIDE DEF n, z
  <2>1. \E g : Adding(g, n, z)
    BY <1>1, AddingExists
  <2> QED BY <2>1
<1>4. \A i \in 0..n : f[i] = IF i = 0 THEN z ELSE AddOne(f[i - 1])
  <2> HIDE DEF z, f
  <2> QED BY <1>3 DEF Adding
<1> HIDE DEF f, n
<1> DEFINE T == {i \in 0..n : Fresh(desc, f[i].pool)}
<1>5. 0 \in T
  <2>1. f[0] = z /\ z.pool = EmptyPool(desc)
    <3>1. 0 \in 0..n
      BY <1>1
    <3>2. f[0] = z
      BY <1>4, <3>1
    <3> QED BY <3>2
  <2>2. Fresh(desc, z.pool)
    BY <2>1, EmptyPoolFacts
  <2> HIDE DEF z
  <2> QED BY <1>1, <2>1, <2>2
<1>6. ASSUME NEW k \in 1..n, k - 1 \in T PROVE k \in T
  <2>1. Fresh(desc, f[k - 1].pool) /\ f[k] = AddOne(f[k - 1])
    BY <1>1, <1>4, <1>6
  <2>2. Fresh(desc, f[k].pool)
    BY <2>1, AddOneFacts
  <2> QED BY <2>2
<1>7. n \in T
  <2> HIDE DEF T
  <2>1. \A k \in 0..n : k \in T
    BY <1>1, <1>5, <1>6, ByPrevious
  <2> QED BY <1>1, <2>1
<1> QED BY <1>2, <1>7

-----------------------------------------------------------------------------
\* The inductive invariant: a tensor has pages for its rows, every page one
\* owner, and a pool that refused a page has none and can add none.
TensorInv(t) ==
  /\ tensors[t] \in [pages : Seq(Nat), length : Nat]
  /\ tensors[t].length <= Len(tensors[t].pages) * pool.pageSize

PagesInv ==
  /\ tensors = [t \in PagedTensors |-> tensors[t]]
  /\ pool = NoPool => Live = {} /\ lost = {}
  /\ pool # NoPool =>
       /\ PoolInv(pool) /\ \E desc \in PoolDescs : Described(desc, pool)
       /\ \A t \in Live : TensorInv(t)
       /\ OwnedOnce
       /\ refused => pool.free = <<>> /\ AddPage(pool).page = 0

LEMMA IsPool == ASSUME NEW p, PoolInv(p) PROVE p # NoPool
<1>1. p.pageSize # 0
  BY DEF PoolInv, PoolShape
<1> QED BY <1>1 DEF NoPool

LEMMA IsTensor == ASSUME NEW pages, NEW len \in Nat PROVE [pages |-> pages, length |-> len] # NoTensor
<1> DEFINE r == [pages |-> pages, length |-> len]
<1>1. r.length = len
  OBVIOUS
<1>2. NoTensor.length = -1
  BY DEF NoTensor
<1> HIDE DEF r
<1>3. r # NoTensor
  BY <1>1, <1>2
<1> QED BY <1>3 DEF r

\* A tensor has pages of the pool, its own.
LEMMA OfTensor ==
    ASSUME PagesInv, NEW t \in Live
    PROVE  /\ pool # NoPool /\ PoolInv(pool) /\ t \in PagedTensors
           /\ tensors[t].pages \in Seq(Nat) /\ tensors[t].length \in Nat
           /\ ToSet(tensors[t].pages) \subseteq DOMAIN pool.offsets
           /\ IsInjective(tensors[t].pages)
           /\ \A x \in ToSet(tensors[t].pages) : x \notin ToSet(pool.free)
<1>1. pool # NoPool /\ t \in PagedTensors
  BY DEF PagesInv, Live
<1>2. PoolInv(pool) /\ TensorInv(t) /\ OwnedOnce
  BY <1>1 DEF PagesInv
<1>3. tensors[t].pages \in Seq(Nat) /\ tensors[t].length \in Nat
  BY <1>2 DEF TensorInv
<1>4. Owned(t) \subseteq DOMAIN pool.offsets /\ IsInjective(tensors[t].pages) /\ Owned(t) \cap ToSet(pool.free) = {}
  BY <1>2 DEF OwnedOnce
<1> QED BY <1>1, <1>2, <1>3, <1>4 DEF Owned

\* Pages that were taken for one tensor are nobody else's.
LEMMA TakenApart ==
    ASSUME NEW p, PoolInv(p), NEW pages, NEW r, Taken(p, pages, r),
           NEW x \in DOMAIN p.offsets, x \notin ToSet(pages), x \notin ToSet(p.free)
    PROVE  x \notin ToSet(r.pages) /\ x \notin ToSet(r.pool.free)
<1>1. Len(p.offsets) \in Nat /\ DOMAIN p.offsets = 1..Len(p.offsets)
  BY PoolFacts DEF PoolInv
<1>2. x \notin NewPages(p, r.pool)
  BY <1>1 DEF NewPages
<1> QED BY <1>2 DEF Taken

\* Taking pages numbers the new ones after those there are.
LEMMA TakenDomain ==
    ASSUME NEW p, PoolInv(p), NEW pages, NEW r, Taken(p, pages, r)
    PROVE  DOMAIN r.pool.offsets = DOMAIN p.offsets \cup NewPages(p, r.pool)
<1>1. PoolInv(r.pool) /\ Grown(p, r.pool)
  BY DEF Taken
<1>2. /\ Len(p.offsets) \in Nat /\ DOMAIN p.offsets = 1..Len(p.offsets)
      /\ Len(r.pool.offsets) \in Nat /\ DOMAIN r.pool.offsets = 1..Len(r.pool.offsets)
      /\ Len(p.offsets) <= Len(r.pool.offsets)
  BY <1>1, PoolFacts DEF PoolInv, Grown
<1> QED BY <1>2 DEF NewPages

\* Pages are owned once when a tensor is given those taken for it.
LEMMA TakenOwnedOnce ==
    ASSUME PagesInv, pool # NoPool, NEW t \in PagedTensors, NEW pages, NEW r, Taken(pool, pages, r),
           \/ t \notin Live /\ ToSet(pages) = {}
           \/ t \in Live /\ ToSet(pages) = Owned(t),
           pool'.free = r.pool.free, pool'.offsets = r.pool.offsets, lost' = lost,
           NEW len \in Nat, tensors' = [tensors EXCEPT ![t] = [pages |-> r.pages, length |-> len]]
    PROVE  /\ OwnedOnce' /\ Live' = Live \cup {t}
           /\ tensors'[t] = [pages |-> r.pages, length |-> len]
           /\ \A u \in Live \ {t} : tensors'[u] = tensors[u]
<1>1. PoolInv(pool) /\ OwnedOnce /\ tensors = [u \in PagedTensors |-> tensors[u]]
  BY DEF PagesInv
<1>2. /\ tensors'[t] = [pages |-> r.pages, length |-> len]
      /\ \A u \in PagedTensors \ {t} : tensors'[u] = tensors[u]
  BY <1>1
<1>3. tensors'[t] # NoTensor
  BY <1>2, IsTensor
<1>4. Live' = Live \cup {t}
  BY <1>2, <1>3 DEF Live
<1>5. \A u \in Live \ {t} : u \in PagedTensors /\ tensors'[u] = tensors[u]
  BY <1>2 DEF Live
<1> DEFINE mine == ToSet(r.pages)
           free == ToSet(r.pool.free)
           new == NewPages(pool, r.pool)
<1>6. /\ Owned(t)' = mine /\ \A u \in Live \ {t} : Owned(u)' = Owned(u)
  <2>1. tensors'[t].pages = r.pages
    BY <1>2
  <2> QED BY <1>5, <2>1 DEF Owned
<1>7. /\ IsInjective(r.pages) /\ PoolInv(r.pool) /\ \A x \in mine : x \notin free
      /\ \A x : x \in mine \/ x \in free <=> x \in ToSet(pages) \/ x \in ToSet(pool.free) \/ x \in new
  BY DEF Taken
<1>8. DOMAIN r.pool.offsets = DOMAIN pool.offsets \cup new
  BY <1>1, TakenDomain
<1>9. \A x \in DOMAIN pool.offsets : x \notin ToSet(pages) /\ x \notin ToSet(pool.free) => x \notin mine /\ x \notin free
  BY <1>1, TakenApart
<1>10. DOMAIN pool.offsets = ToSet(pool.free) \cup lost \cup UNION {Owned(u) : u \in Live}
  BY <1>1 DEF OwnedOnce
<1>11. \A u \in Live \ {t} : \A x \in Owned(u) : x \in DOMAIN pool.offsets /\ x \notin ToSet(pages) /\ x \notin ToSet(pool.free)
                                                 /\ x \notin lost
  <2> TAKE u \in Live \ {t}
  <2>1. Owned(u) \cap ToSet(pages) = {}
    BY <1>1 DEF OwnedOnce
  <2>2. Owned(u) \cap (ToSet(pool.free) \cup lost) = {} /\ Owned(u) \subseteq DOMAIN pool.offsets
    BY <1>1 DEF OwnedOnce
  <2> QED BY <2>1, <2>2
<1>12. \A x \in lost : x \in DOMAIN pool.offsets /\ x \notin ToSet(pages) /\ x \notin ToSet(pool.free)
  <2>1. lost \cap ToSet(pages) = {} /\ ToSet(pool.free) \cap lost = {}
    BY <1>1 DEF OwnedOnce
  <2> QED BY <1>10, <2>1
<1> HIDE DEF mine, free, new
<1>13. IsInjective(pool'.free) /\ \A u \in Live' : IsInjective(tensors'[u].pages)
  <2>1. IsInjective(r.pool.free) /\ \A u \in Live : IsInjective(tensors[u].pages)
    BY <1>1, <1>7 DEF PoolInv, OwnedOnce
  <2>2. tensors'[t].pages = r.pages
    BY <1>2
  <2> QED BY <1>4, <1>5, <1>7, <2>1, <2>2
<1>14. \A u, w \in Live' : u # w => Owned(u)' \cap Owned(w)' = {}
  <2>1. \A u \in Live \ {t} : Owned(u) \cap mine = {}
    BY <1>9, <1>11
  <2>2. \A u, w \in Live : u # w => Owned(u) \cap Owned(w) = {}
    BY <1>1 DEF OwnedOnce
  <2> QED BY <1>4, <1>6, <2>1, <2>2
<1>15. \A u \in Live' : Owned(u)' \cap (free \cup lost) = {}
  <2>1. mine \cap (free \cup lost) = {}
    BY <1>7, <1>9, <1>12
  <2>2. \A u \in Live \ {t} : Owned(u) \cap (free \cup lost) = {}
    BY <1>9, <1>11
  <2> QED BY <1>4, <1>6, <2>1, <2>2
<1>16. free \cap lost = {}
  BY <1>9, <1>12
<1>17. DOMAIN r.pool.offsets = free \cup lost \cup UNION {Owned(u)' : u \in Live'}
  <2>1. \A x : x \in UNION {Owned(u)' : u \in Live'} <=> x \in mine \/ \E u \in Live \ {t} : x \in Owned(u)
    BY <1>4, <1>6
  <2>2. \A x : x \in UNION {Owned(u) : u \in Live} <=> x \in ToSet(pages) \/ \E u \in Live \ {t} : x \in Owned(u)
    OBVIOUS
  <2>3. \A x : x \in DOMAIN r.pool.offsets <=> x \in free \cup lost \cup UNION {Owned(u)' : u \in Live'}
    BY <1>7, <1>8, <1>10, <2>1, <2>2
  <2> QED BY <2>3
<1>18. OwnedOnce'
  BY <1>13, <1>14, <1>15, <1>16, <1>17 DEF OwnedOnce, free
<1> QED BY <1>2, <1>4, <1>5, <1>18

\* A tensor that could not have all its pages is forgotten with them.
LEMMA LostOwnedOnce ==
    ASSUME PagesInv, pool # NoPool, NEW pages, ToSet(pages) = {}, NEW r, Taken(pool, pages, r),
           pool' = r.pool, lost' = lost \cup ToSet(r.pages), tensors' = tensors
    PROVE  OwnedOnce'
<1>1. PoolInv(pool) /\ OwnedOnce
  BY DEF PagesInv
<1>2. Live' = Live /\ \A u \in Live : Owned(u)' = Owned(u)
  BY DEF Live, Owned
<1> DEFINE mine == ToSet(r.pages)
           free == ToSet(r.pool.free)
           new == NewPages(pool, r.pool)
<1>7. /\ PoolInv(r.pool) /\ \A x \in mine : x \notin free
      /\ \A x : x \in mine \/ x \in free <=> x \in ToSet(pages) \/ x \in ToSet(pool.free) \/ x \in new
  BY DEF Taken
<1>8. DOMAIN r.pool.offsets = DOMAIN pool.offsets \cup new
  BY <1>1, TakenDomain
<1>9. \A x \in DOMAIN pool.offsets : x \notin ToSet(pages) /\ x \notin ToSet(pool.free) => x \notin mine /\ x \notin free
  BY <1>1, TakenApart
<1>10. DOMAIN pool.offsets = ToSet(pool.free) \cup lost \cup UNION {Owned(u) : u \in Live}
  BY <1>1 DEF OwnedOnce
<1>11. \A u \in Live : \A x \in Owned(u) : x \in DOMAIN pool.offsets /\ x \notin ToSet(pool.free) /\ x \notin lost
  BY <1>1 DEF OwnedOnce
<1>12. \A x \in lost : x \in DOMAIN pool.offsets /\ x \notin ToSet(pool.free)
  BY <1>1 DEF OwnedOnce
<1>13. IsInjective(pool'.free) /\ \A u \in Live' : IsInjective(tensors'[u].pages)
  BY <1>1, <1>2, <1>7 DEF PoolInv, OwnedOnce
<1>14. \A u, w \in Live' : u # w => Owned(u)' \cap Owned(w)' = {}
  BY <1>1, <1>2 DEF OwnedOnce
<1> HIDE DEF mine, free, new
<1>15. \A u \in Live' : Owned(u)' \cap (free \cup lost') = {}
  BY <1>2, <1>9, <1>11 DEF mine
<1>16. free \cap lost' = {}
  BY <1>7, <1>9, <1>12 DEF mine
<1>17. DOMAIN pool'.offsets = free \cup lost' \cup UNION {Owned(u)' : u \in Live'}
  <2>1. UNION {Owned(u)' : u \in Live'} = UNION {Owned(u) : u \in Live}
    BY <1>2
  <2>2. \A x : x \in DOMAIN r.pool.offsets <=> x \in free \cup lost' \cup UNION {Owned(u) : u \in Live}
    BY <1>7, <1>8, <1>10 DEF mine
  <2> QED BY <2>1, <2>2
<1> QED BY <1>13, <1>14, <1>15, <1>16, <1>17 DEF OwnedOnce, free

\* The elements of two lists in a row.
LEMMA ConcatFacts ==
    ASSUME NEW s \in Seq(Nat), NEW u \in Seq(Nat)
    PROVE  /\ s \o u \in Seq(Nat)
           /\ \A x : x \in ToSet(s \o u) <=> x \in ToSet(s) \/ x \in ToSet(u)
           /\ IsInjective(s) /\ IsInjective(u) /\ (\A x \in ToSet(u) : x \notin ToSet(s)) => IsInjective(s \o u)
<1> DEFINE c == s \o u
           m == Len(s)
           n == Len(u)
<1>1. /\ c \in Seq(Nat) /\ Len(c) = m + n
      /\ \A i \in 1..(m + n) : c[i] = IF i <= m THEN s[i] ELSE u[i - m]
  BY ConcatProperties
<1>2. m \in Nat /\ n \in Nat
  BY LenProperties
<1>3. /\ \A x : x \in ToSet(s) <=> \E i \in 1..m : s[i] = x
      /\ IsInjective(s) <=> \A i, j \in 1..m : s[i] = s[j] => i = j
  BY ToSetFacts
<1>4. /\ \A x : x \in ToSet(u) <=> \E i \in 1..n : u[i] = x
      /\ IsInjective(u) <=> \A i, j \in 1..n : u[i] = u[j] => i = j
  BY ToSetFacts
<1> HIDE DEF c
<1>5. /\ \A x : x \in ToSet(c) <=> \E i \in 1..Len(c) : c[i] = x
      /\ IsInjective(c) <=> \A i, j \in 1..Len(c) : c[i] = c[j] => i = j
  BY <1>1, ToSetFacts
<1> HIDE DEF m, n
<1>6. \A i \in 1..(m + n) : \/ i \in 1..m /\ c[i] = s[i]
                            \/ i - m \in 1..n /\ i \notin 1..m /\ c[i] = u[i - m]
  BY <1>1, <1>2
<1>7. \A x : x \in ToSet(c) <=> x \in ToSet(s) \/ x \in ToSet(u)
  <2> TAKE x
  <2>1. ASSUME x \in ToSet(c) PROVE x \in ToSet(s) \/ x \in ToSet(u)
    <3>1. PICK i \in 1..(m + n) : c[i] = x
      BY <1>1, <1>5, <2>1
    <3> QED BY <1>3, <1>4, <1>6, <3>1
  <2>2. ASSUME x \in ToSet(s) PROVE x \in ToSet(c)
    <3>1. PICK i \in 1..m : s[i] = x
      BY <1>3, <2>2
    <3>2. i \in 1..(m + n) /\ c[i] = x
      BY <1>1, <1>2, <3>1
    <3> QED BY <1>1, <1>5, <3>2
  <2>3. ASSUME x \in ToSet(u) PROVE x \in ToSet(c)
    <3>1. PICK i \in 1..n : u[i] = x
      BY <1>4, <2>3
    <3>2. i + m \in 1..(m + n) /\ ~(i + m <= m) /\ i + m - m = i
      BY <1>2, <3>1
    <3>3. c[i + m] = u[i]
      <4> DEFINE k == i + m
      <4>1. k \in 1..(m + n) /\ ~(k <= m)
        BY <3>2
      <4> HIDE DEF k
      <4>2. c[k] = u[k - m]
        BY <1>1, <4>1
      <4>3. k - m = i
        BY <1>2 DEF k
      <4> QED BY <4>2, <4>3 DEF k
    <3>4. c[i + m] = x
      BY <3>1, <3>2, <3>3
    <3> QED BY <1>1, <1>5, <3>2, <3>4
  <2> QED BY <2>1, <2>2, <2>3
<1>8. ASSUME IsInjective(s), IsInjective(u), \A x \in ToSet(u) : x \notin ToSet(s) PROVE IsInjective(c)
  <2>1. SUFFICES ASSUME NEW i \in 1..(m + n), NEW j \in 1..(m + n), c[i] = c[j] PROVE i = j
    BY <1>1, <1>5
  <2>2. \A k \in 1..m : \A l \in 1..n : s[k] # u[l]
    BY <1>3, <1>4, <1>8
  <2>3. CASE i \in 1..m /\ j \in 1..m
    BY <1>2, <1>3, <1>6, <1>8, <2>1, <2>3
  <2>4. CASE i \notin 1..m /\ j \notin 1..m
    <3>1. i - m \in 1..n /\ j - m \in 1..n /\ u[i - m] = u[j - m]
      BY <1>6, <2>1, <2>4
    <3>2. i - m = j - m
      BY <1>4, <1>8, <3>1
    <3> QED BY <1>2, <3>2
  <2> QED BY <1>6, <2>1, <2>2, <2>3, <2>4
<1> QED BY <1>1, <1>7, <1>8 DEF c

\* Pages are owned once when a tensor gives its own back.
LEMMA GivenBackOwnedOnce ==
    ASSUME PagesInv, NEW t \in Live, lost' = lost,
           pool' = [pool EXCEPT !.free = @ \o tensors[t].pages],
           tensors' = [tensors EXCEPT ![t] = NoTensor]
    PROVE  /\ PoolInv(pool') /\ OwnedOnce' /\ Live' = Live \ {t} /\ Grown(pool, pool')
           /\ pool'.data = pool.data /\ pool'.offsets = pool.offsets
           /\ tensors'[t] = NoTensor /\ \A u \in Live' : tensors'[u] = tensors[u]
<1> DEFINE s == pool.free
           u == tensors[t].pages
           free == s \o u
<1>1. /\ pool # NoPool /\ PoolInv(pool) /\ t \in PagedTensors
      /\ u \in Seq(Nat) /\ ToSet(u) \subseteq DOMAIN pool.offsets
      /\ IsInjective(u) /\ \A x \in ToSet(u) : x \notin ToSet(s)
  BY OfTensor
<1>2. /\ OwnedOnce /\ tensors = [w \in PagedTensors |-> tensors[w]]
  BY <1>1 DEF PagesInv
<1>3. s \in Seq(Nat) /\ ToSet(s) \subseteq DOMAIN pool.offsets /\ IsInjective(s)
  BY <1>1, PoolFacts DEF PoolInv
<1>4. /\ free \in Seq(Nat) /\ IsInjective(free)
      /\ \A x : x \in ToSet(free) <=> x \in ToSet(s) \/ x \in ToSet(u)
  BY <1>1, <1>3, ConcatFacts
<1>5. ToSet(free) \subseteq DOMAIN pool.offsets
  BY <1>1, <1>3, <1>4
<1>6. pool' = [pool EXCEPT !.free = free]
  <2>1. pool' = [pool EXCEPT !.free = pool.free \o tensors[t].pages]
    BY Zenon
  <2> QED BY <2>1
<1> HIDE DEF free
<1>7. /\ PoolInv(pool') /\ Grown(pool, pool') /\ pool'.free = free
      /\ pool'.data = pool.data /\ pool'.offsets = pool.offsets
  <2> DEFINE q == [pool EXCEPT !.free = free]
  <2>1. /\ PoolInv(q) /\ Grown(pool, q) /\ q.free = free
        /\ q.data = pool.data /\ q.offsets = pool.offsets
    BY <1>1, <1>4, <1>5, WithFree
  <2>2. pool' = q
    BY <1>6
  <2> HIDE DEF q
  <2> QED BY <2>1, <2>2
<1>8. tensors'[t] = NoTensor /\ \A w \in PagedTensors \ {t} : tensors'[w] = tensors[w]
  BY <1>1, <1>2
<1>9. Live' = Live \ {t} /\ \A w \in Live' : tensors'[w] = tensors[w]
  BY <1>8 DEF Live
<1>10. \A w \in Live' : Owned(w)' = Owned(w)
  BY <1>9 DEF Owned
<1>11. \A w \in Live \ {t} : Owned(w) \cap ToSet(u) = {} /\ Owned(w) \cap (ToSet(s) \cup lost) = {}
  BY <1>2 DEF OwnedOnce, Owned
<1>12. ToSet(u) \cap lost = {} /\ ToSet(s) \cap lost = {}
  BY <1>2 DEF OwnedOnce, Owned
<1>13. IsInjective(free) /\ \A w \in Live' : IsInjective(tensors'[w].pages)
  BY <1>2, <1>4, <1>9 DEF OwnedOnce
<1>14. \A v, w \in Live' : v # w => Owned(v)' \cap Owned(w)' = {}
  BY <1>2, <1>9, <1>10 DEF OwnedOnce
<1>15. \A w \in Live' : Owned(w)' \cap (ToSet(free) \cup lost) = {}
  BY <1>4, <1>9, <1>10, <1>11
<1>16. ToSet(free) \cap lost = {}
  BY <1>4, <1>12
<1>17. DOMAIN pool.offsets = ToSet(free) \cup lost \cup UNION {Owned(w)' : w \in Live'}
  <2>1. DOMAIN pool.offsets = ToSet(s) \cup lost \cup UNION {Owned(w) : w \in Live}
    BY <1>2 DEF OwnedOnce
  <2>2. \A x : x \in UNION {Owned(w)' : w \in Live'} <=> \E w \in Live \ {t} : x \in Owned(w)
    BY <1>9, <1>10
  <2>3. Owned(t) = ToSet(u)
    BY DEF Owned
  <2>4. \A x : x \in UNION {Owned(w) : w \in Live} <=> x \in ToSet(u) \/ \E w \in Live \ {t} : x \in Owned(w)
    BY <2>3
  <2>5. \A x : x \in DOMAIN pool.offsets <=> x \in ToSet(free) \cup lost \cup UNION {Owned(w)' : w \in Live'}
    BY <1>4, <2>1, <2>2, <2>4
  <2> QED BY <2>5
<1>18. OwnedOnce'
  BY <1>7, <1>13, <1>14, <1>15, <1>16, <1>17 DEF OwnedOnce
<1> QED BY <1>7, <1>8, <1>9, <1>18

\* The pool with other elements.
LEMMA WithData ==
    ASSUME NEW p, PoolInv(p), NEW data, DOMAIN data = DOMAIN p.data
    PROVE  LET q == [p EXCEPT !.data = data]
           IN /\ PoolInv(q) /\ Described(p, q) /\ q.free = p.free /\ q.offsets = p.offsets
              /\ q.data = data /\ q.used = p.used
<1> DEFINE q == [p EXCEPT !.data = data]
<1>1. PoolShape(p)
  BY DEF PoolInv
<1>2. q = [prefix |-> p.prefix, trailing |-> p.trailing, pageSize |-> p.pageSize, align |-> p.align,
           max |-> p.max, used |-> p.used, data |-> data, offsets |-> p.offsets, free |-> p.free]
  <2>1. p = [prefix |-> p.prefix, trailing |-> p.trailing, pageSize |-> p.pageSize, align |-> p.align,
             max |-> p.max, used |-> p.used, data |-> p.data, offsets |-> p.offsets, free |-> p.free]
    BY <1>1 DEF PoolShape
  <2>2. q = [p EXCEPT !.data = data]
    OBVIOUS
  <2> HIDE DEF q
  <2> QED BY <2>1, <2>2
<1>3. /\ q.prefix = p.prefix /\ q.trailing = p.trailing /\ q.pageSize = p.pageSize
      /\ q.align = p.align /\ q.max = p.max /\ q.free = p.free
      /\ q.used = p.used /\ q.data = data /\ q.offsets = p.offsets
  <2> HIDE DEF q
  <2> QED BY <1>2
<1>4. /\ p.prefix \in Nat \ {0} /\ p.trailing \in Nat \ {0} /\ p.pageSize \in Nat \ {0}
      /\ p.align \in Nat \ {0} /\ p.max \in Nat /\ p.used \in Nat
      /\ p.offsets \in Seq(Nat) /\ p.free \in Seq(Nat)
  BY <1>1, PoolFacts
<1> HIDE DEF q
<1>5. PoolShape(q)
  BY <1>2, <1>3, <1>4 DEF PoolShape
<1>6. PageElements(q) = PageElements(p)
  BY <1>3 DEF PageElements
<1>7. PoolInv(q)
  BY <1>3, <1>5, <1>6 DEF PoolInv
<1> QED BY <1>3, <1>7 DEF q, Described

Copied(p, chunk) == (0..(p.prefix - 1)) \X (0..(ChunkLength(p, chunk) - 1)) \X (0..(p.trailing - 1))
PlaceOf(p, pages, from, c) == Place(p, pages, c[1], from + c[2], c[3])
SourceOf(p, chunk, c) == chunk[(c[1] * ChunkLength(p, chunk) + c[2]) * p.trailing + c[3] + 1]
DataWith(p, pages, from, chunk) ==
  [i \in DOMAIN p.data |->
     IF \E c \in Copied(p, chunk) : PlaceOf(p, pages, from, c) = i
     THEN SourceOf(p, chunk, CHOOSE c \in Copied(p, chunk) : PlaceOf(p, pages, from, c) = i) ELSE p.data[i]]

\* A chunk is written over elements of the arena, and changes nothing else.
LEMMA WriteFacts ==
    ASSUME NEW p, PoolInv(p), NEW pages, NEW from, NEW chunk
    PROVE  LET q == WriteChunk(p, pages, from, chunk)
           IN /\ PoolInv(q) /\ Described(p, q) /\ q.free = p.free /\ q.offsets = p.offsets
              /\ q.data = DataWith(p, pages, from, chunk) /\ DOMAIN q.data = DOMAIN p.data /\ q.used = p.used
<1> DEFINE data == DataWith(p, pages, from, chunk)
<1>1. WriteChunk(p, pages, from, chunk) = [p EXCEPT !.data = data]
  BY DEF WriteChunk, DataWith, Copied, PlaceOf, SourceOf
<1>2. DOMAIN data = DOMAIN p.data
  BY DEF DataWith
<1> HIDE DEF data
<1> DEFINE q == [p EXCEPT !.data = data]
<1>3. /\ PoolInv(q) /\ Described(p, q) /\ q.free = p.free /\ q.offsets = p.offsets
      /\ q.data = data /\ q.used = p.used
  BY <1>2, WithData
<1> HIDE DEF q
<1> QED BY <1>1, <1>2, <1>3 DEF q, data

\* A page is refused when the pool may have no more, or has no room left for
\* one; where pages follow each other without a gap, that is the same.
LEMMA RefusedIsFull ==
    ASSUME NEW p, PoolInv(p), AddPage(p).page = 0, PageElements(p) % p.align = 0
    PROVE  Len(p.offsets) = p.max
<1> DEFINE at == AlignUp(p.used, p.align)
           size == PageElements(p)
           n == Len(p.offsets)
<1>1. /\ p.align \in Nat \ {0} /\ p.max \in Nat /\ p.used \in Nat
      /\ n \in Nat /\ size \in Nat \ {0}
  BY PoolFacts DEF PoolInv
<1>2. p.used = n * size /\ (p.max > 0 => n <= p.max)
  BY DEF PoolInv
<1>3. at = p.used
  <2>1. size = (size \div p.align) * p.align /\ size \div p.align \in Nat
    BY <1>1, DivExact
  <2> DEFINE k == size \div p.align
  <2> HIDE DEF k
  <2>2. k \in Nat /\ size = k * p.align
    BY <2>1 DEF k
  <2>3. n * (k * p.align) = (n * k) * p.align /\ n * k \in Nat
    BY <1>1, <2>2
  <2> DEFINE m == n * k
  <2> HIDE DEF size, n
  <2>4. m \in Nat /\ p.used = m * p.align
    BY <1>2, <2>2, <2>3
  <2> HIDE DEF m
  <2>5. m * p.align \in Nat /\ 0 \in 0..(p.align - 1)
    BY <1>1, <2>4
  <2>6. (m * p.align + 0) % p.align = 0
    BY <1>1, <2>4, <2>5, DivSum
  <2>7. p.used % p.align = 0
    BY <2>4, <2>5, <2>6
  <2> QED BY <1>1, <2>7, AlignUpFacts
<1>4. p.max > 0 /\ (n >= p.max \/ at + size > p.max * size)
  <2>1. n + 1 # 0
    BY <1>1
  <2> QED BY <2>1 DEF AddPage
<1>5. ASSUME n * size + size > p.max * size, n < p.max PROVE FALSE
  <2>1. n + 1 <= p.max
    BY <1>1, <1>5
  <2> DEFINE d == p.max - (n + 1)
  <2>2. d \in Nat /\ p.max = n + 1 + d
    BY <1>1, <2>1
  <2> HIDE DEF d, n, size
  <2>3. (n + 1 + d) * size = n * size + size + d * size
    BY <1>1, <2>2
  <2>4. d * size \in Nat /\ n * size \in Nat
    BY <1>1, <2>2
  <2>5. p.max * size = n * size + size + d * size
    BY <2>2, <2>3
  <2> DEFINE x == n * size
             y == d * size
             z == p.max * size
  <2>6. x \in Nat /\ y \in Nat /\ z = x + size + y /\ x + size > z
    BY <1>5, <2>4, <2>5
  <2> HIDE DEF x, y, z
  <2> QED BY <1>1, <2>6
<1> HIDE DEF at
<1>6. p.max > 0 /\ n <= p.max /\ (n >= p.max \/ n * size + size > p.max * size)
  BY <1>2, <1>3, <1>4
<1> HIDE DEF n, size
<1>7. n = p.max
  BY <1>1, <1>5, <1>6
<1> QED BY <1>7 DEF n

-----------------------------------------------------------------------------
\* PagesInv holds first, and after every operation.
LEMMA InitPagesInv == PagesInit => PagesInv
<1> SUFFICES ASSUME PagesInit PROVE PagesInv
  OBVIOUS
<1>1. Live = {}
  BY DEF PagesInit, Live
<1>2. tensors = [t \in PagedTensors |-> tensors[t]]
  BY DEF PagesInit
<1> QED BY <1>1, <1>2 DEF PagesInit, PagesInv

LEMMA CreateKeeps ==
    ASSUME PagesInv, NEW desc \in PoolDescs, CreatePagedPool(desc)
    PROVE  PagesInv' /\ Live' = {} /\ Live = {}
<1> DEFINE made == Initialize(desc)
<1>1. /\ pool = NoPool /\ pool' = IF made.ok THEN made.pool ELSE NoPool
      /\ refused' = ~made.ok /\ tensors' = tensors /\ lost' = lost
  BY DEF CreatePagedPool
<1>2. Live = {} /\ lost = {} /\ tensors = [t \in PagedTensors |-> tensors[t]]
  BY <1>1 DEF PagesInv
<1>3. Live' = {} /\ lost' = {} /\ tensors' = [t \in PagedTensors |-> tensors'[t]]
  BY <1>1, <1>2 DEF Live
<1>4. CASE made.ok
  <2>1. Fresh(desc, pool')
    BY <1>1, <1>4, InitializeFacts
  <2>2. PoolInv(pool') /\ Described(desc, pool') /\ ToSet(pool'.free) = DOMAIN pool'.offsets
    BY <2>1 DEF Fresh
  <2>3. ~refused'
    BY <1>1, <1>4
  <2>4. IsInjective(pool'.free)
    BY <2>2 DEF PoolInv
  <2>5. OwnedOnce'
    BY <1>3, <2>2, <2>4 DEF OwnedOnce
  <2>6. pool' # NoPool
    BY <2>2, IsPool
  <2> QED BY <1>2, <1>3, <2>2, <2>3, <2>5, <2>6 DEF PagesInv
<1>5. CASE ~made.ok
  <2>1. pool' = NoPool
    BY <1>1, <1>5
  <2> QED BY <1>2, <1>3, <2>1 DEF PagesInv
<1> QED BY <1>4, <1>5

LEMMA DestroyKeeps ==
    ASSUME PagesInv, DestroyPagedPool
    PROVE  PagesInv' /\ Live' = {} /\ Live = {}
<1>1. pool' = NoPool /\ lost' = {} /\ tensors' = tensors /\ Live = {}
  BY DEF DestroyPagedPool
<1>2. Live' = {}
  BY <1>1 DEF Live
<1>3. tensors' = [t \in PagedTensors |-> tensors'[t]]
  BY <1>1 DEF PagesInv
<1> QED BY <1>1, <1>2, <1>3 DEF PagesInv

\* What a pool was made from does not change while it grows.
LEMMA StaysDescribed ==
    ASSUME NEW desc, NEW p, NEW q, Described(desc, p), Grown(p, q) \/ Described(p, q)
    PROVE  Described(desc, q)
BY DEF Described, Grown

\* What a new tensor reserves has room for its rows.
LEMMA AllocReserved ==
    ASSUME PagesInv, pool # NoPool, NEW length \in Nat
    PROVE  LET r == Reserve(pool, <<>>, CeilDiv(length, pool.pageSize))
           IN /\ Taken(pool, <<>>, r)
              /\ r.ok => length <= Len(r.pages) * pool.pageSize
<1> DEFINE n == CeilDiv(length, pool.pageSize)
           r == Reserve(pool, <<>>, n)
<1>1. PoolInv(pool) /\ pool.pageSize \in Nat \ {0}
  BY PoolFacts DEF PagesInv, PoolInv
<1>2. n \in Nat /\ length <= n * pool.pageSize
  BY <1>1, CeilDivFacts
<1>3. <<>> \in Seq(Nat) /\ ToSet(<<>>) = {} /\ IsInjective(<<>>)
  BY EmptySeq DEF ToSet, IsInjective
<1> HIDE DEF n
<1>4. /\ Taken(pool, <<>>, r)
      /\ r.ok => n <= Len(r.pages)
  BY <1>1, <1>2, <1>3, ReserveFacts
<1>5. Len(r.pages) \in Nat
  BY <1>4, LenProperties DEF Taken
<1> HIDE DEF r
<1>6. ASSUME r.ok PROVE length <= Len(r.pages) * pool.pageSize
  <2>1. n <= Len(r.pages)
    BY <1>4, <1>6
  <2>2. n * pool.pageSize <= Len(r.pages) * pool.pageSize
    BY <1>1, <1>2, <1>5, <2>1
  <2>3. n * pool.pageSize \in Nat /\ Len(r.pages) * pool.pageSize \in Nat
    BY <1>1, <1>2, <1>5
  <2> QED BY <1>2, <2>2, <2>3
<1> QED BY <1>4, <1>6 DEF r, n

LEMMA AllocKeeps ==
    ASSUME PagesInv, NEW t \in PagedTensors, NEW length \in Lengths, AllocPaged(t, length)
    PROVE  PagesInv'
<1> DEFINE n == CeilDiv(length, pool.pageSize)
           r == Reserve(pool, <<>>, n)
<1>1. /\ pool # NoPool /\ tensors[t] = NoTensor /\ pool' = r.pool /\ refused' = ~r.ok
      /\ tensors' = IF r.ok THEN [tensors EXCEPT ![t] = [pages |-> r.pages, length |-> length]] ELSE tensors
      /\ lost' = IF r.ok THEN lost ELSE lost \cup ToSet(r.pages)
  BY DEF AllocPaged
<1>2. length \in Nat
  BY PagesAssumption
<1>3. Taken(pool, <<>>, r) /\ (r.ok => length <= Len(r.pages) * pool.pageSize)
  BY <1>1, <1>2, AllocReserved
<1>4. ToSet(<<>>) = {} /\ t \notin Live
  BY <1>1 DEF Live, ToSet
<1> HIDE DEF r
<1>5. PoolInv(pool') /\ Grown(pool, pool') /\ r.pages \in Seq(Nat)
  BY <1>1, <1>3 DEF Taken
<1>6. /\ \E desc \in PoolDescs : Described(desc, pool') /\ pool'.pageSize = pool.pageSize
      /\ refused' => pool'.free = <<>> /\ AddPage(pool').page = 0
  <2>1. \E desc \in PoolDescs : Described(desc, pool)
    BY <1>1 DEF PagesInv
  <2>2. ~r.ok => r.pool.free = <<>> /\ AddPage(r.pool).page = 0
    BY <1>3 DEF Taken
  <2> QED BY <1>1, <1>5, <2>1, <2>2, StaysDescribed DEF Grown
<1>7. tensors = [u \in PagedTensors |-> tensors[u]] /\ \A u \in Live : TensorInv(u)
  BY <1>1 DEF PagesInv
<1>8. tensors' = [u \in PagedTensors |-> tensors'[u]]
  BY <1>1, <1>7
<1>9. OwnedOnce' /\ \A u \in Live' : TensorInv(u)'
  <2>1. CASE r.ok
    <3>1. tensors' = [tensors EXCEPT ![t] = [pages |-> r.pages, length |-> length]] /\ lost' = lost
      BY <1>1, <2>1
    <3>2. /\ OwnedOnce' /\ Live' = Live \cup {t}
          /\ tensors'[t] = [pages |-> r.pages, length |-> length]
          /\ \A u \in Live \ {t} : tensors'[u] = tensors[u]
      BY <1>1, <1>2, <1>3, <1>4, <3>1, TakenOwnedOnce
    <3>3. TensorInv(t)'
      <4>1. /\ tensors'[t].pages = r.pages /\ tensors'[t].length = length
            /\ tensors'[t] \in [pages : Seq(Nat), length : Nat]
        BY <1>2, <1>5, <3>2
      <4> QED BY <1>3, <1>6, <2>1, <4>1 DEF TensorInv
    <3>4. \A u \in Live : TensorInv(u)'
      BY <1>4, <1>6, <1>7, <3>2 DEF TensorInv
    <3> QED BY <3>2, <3>3, <3>4
  <2>2. CASE ~r.ok
    <3>1. tensors' = tensors /\ lost' = lost \cup ToSet(r.pages)
      BY <1>1, <2>2
    <3>2. OwnedOnce'
      BY <1>1, <1>3, <1>4, <3>1, LostOwnedOnce
    <3>3. Live' = Live
      BY <3>1 DEF Live
    <3> QED BY <1>6, <1>7, <3>1, <3>2, <3>3 DEF TensorInv
  <2> QED BY <2>1, <2>2
<1>10. pool' # NoPool
  BY <1>5, IsPool
<1> QED BY <1>5, <1>6, <1>8, <1>9, <1>10 DEF PagesInv

LEMMA DeallocKeeps ==
    ASSUME PagesInv, NEW t \in PagedTensors, DeallocPaged(t)
    PROVE  PagesInv'
<1>1. /\ t \in Live /\ lost' = lost /\ ~refused'
      /\ pool' = [pool EXCEPT !.free = @ \o tensors[t].pages]
      /\ tensors' = [tensors EXCEPT ![t] = NoTensor]
  BY DEF DeallocPaged
<1>2. /\ PoolInv(pool') /\ OwnedOnce' /\ Live' = Live \ {t} /\ Grown(pool, pool')
      /\ \A u \in Live' : tensors'[u] = tensors[u]
  BY <1>1, GivenBackOwnedOnce
<1>3. pool # NoPool /\ pool' # NoPool
  BY <1>1, <1>2, OfTensor, IsPool
<1>4. \E desc \in PoolDescs : Described(desc, pool')
  BY <1>2, <1>3, StaysDescribed DEF PagesInv
<1>5. pool'.pageSize = pool.pageSize
  BY <1>2 DEF Grown
<1>6. \A u \in Live' : TensorInv(u)'
  BY <1>2, <1>3, <1>5 DEF TensorInv, PagesInv
<1>7. tensors' = [u \in PagedTensors |-> tensors'[u]]
  BY <1>1 DEF PagesInv
<1> QED BY <1>1, <1>2, <1>3, <1>4, <1>6, <1>7 DEF PagesInv

\* A chunk is of whole rows.
LEMMA ChunkFacts ==
    ASSUME NEW p, PoolInv(p), NEW desc \in PoolDescs, Described(desc, p), NEW chunk \in Chunks[RowElements(p)]
    PROVE  /\ ChunkLength(p, chunk) \in Nat \ {0} /\ RowElements(p) = RowElements(desc)
           /\ Len(chunk) = ChunkLength(p, chunk) * RowElements(p) /\ RowElements(p) \in Nat \ {0}
<1> DEFINE n == RowElements(p)
<1>1. n = RowElements(desc) /\ p.prefix \in Nat \ {0} /\ p.trailing \in Nat \ {0}
  BY PoolFacts DEF Described, RowElements, PoolInv
<1>2. n \in Nat \ {0}
  BY <1>1 DEF RowElements
<1>3. n \in DOMAIN Chunks
  BY <1>1, PagesAssumption
<1> HIDE DEF n
<1>4. chunk \in Seq(ToSet(chunk)) /\ chunk # <<>> /\ Len(chunk) % n = 0
  BY <1>3, PagesAssumption DEF n
<1>5. Len(chunk) \in Nat \ {0}
  BY <1>4, LenProperties, EmptySeq
<1>6. ChunkLength(p, chunk) = Len(chunk) \div n
  BY DEF ChunkLength, n
<1> DEFINE k == ChunkLength(p, chunk)
<1>7. k \in Nat /\ Len(chunk) = k * n
  BY <1>2, <1>4, <1>5, <1>6, DivExact
<1> HIDE DEF k
<1>8. k # 0
  BY <1>2, <1>5, <1>7
<1> QED BY <1>1, <1>2, <1>7, <1>8 DEF n, k

\* What an append reserves has room for the rows there are and those to come.
LEMMA AppendReserved ==
    ASSUME PagesInv, NEW t \in Live, NEW length \in Nat
    PROVE  LET r == Reserve(pool, tensors[t].pages, CeilDiv(length, pool.pageSize))
           IN /\ Taken(pool, tensors[t].pages, r)
              /\ r.ok => length <= Len(r.pages) * pool.pageSize
              /\ tensors[t].length <= Len(r.pages) * pool.pageSize
<1> DEFINE n == CeilDiv(length, pool.pageSize)
           pages == tensors[t].pages
           r == Reserve(pool, pages, n)
<1>1. PoolInv(pool) /\ pool.pageSize \in Nat \ {0} /\ TensorInv(t) /\ tensors[t].length \in Nat
  BY OfTensor, PoolFacts DEF PagesInv, PoolInv
<1>2. n \in Nat /\ length <= n * pool.pageSize
  BY <1>1, CeilDivFacts
<1>3. /\ pages \in Seq(Nat) /\ ToSet(pages) \subseteq DOMAIN pool.offsets
      /\ IsInjective(pages) /\ \A x \in ToSet(pages) : x \notin ToSet(pool.free)
  BY OfTensor
<1> HIDE DEF n, pages
<1>4. /\ Taken(pool, pages, r)
      /\ r.ok => n <= Len(r.pages)
  BY <1>1, <1>2, <1>3, ReserveFacts
<1>5. Len(r.pages) \in Nat /\ Len(pages) \in Nat /\ Len(pages) <= Len(r.pages)
  BY <1>3, <1>4, LenProperties DEF Taken
<1> HIDE DEF r
<1> DEFINE Rows(k) == k * pool.pageSize
<1>6. \A k, l \in Nat : k <= l => Rows(k) \in Nat /\ Rows(l) \in Nat /\ Rows(k) <= Rows(l)
  BY <1>1
<1>7. tensors[t].length <= Rows(Len(pages)) /\ length <= Rows(n)
  BY <1>1, <1>2 DEF TensorInv, pages
<1> HIDE DEF Rows
<1>8. tensors[t].length <= Rows(Len(r.pages)) /\ (r.ok => length <= Rows(Len(r.pages)))
  <2>1. /\ Rows(Len(pages)) \in Nat /\ Rows(Len(r.pages)) \in Nat
        /\ Rows(Len(pages)) <= Rows(Len(r.pages))
    BY <1>5, <1>6
  <2>2. tensors[t].length <= Rows(Len(r.pages))
    BY <1>1, <1>7, <2>1
  <2>3. ASSUME r.ok PROVE length <= Rows(Len(r.pages))
    <3>1. n <= Len(r.pages)
      BY <1>4, <2>3
    <3>2. Rows(n) \in Nat /\ Rows(n) <= Rows(Len(r.pages))
      BY <1>2, <1>5, <1>6, <3>1
    <3> QED BY <1>7, <2>1, <3>2
  <2> QED BY <2>2, <2>3
<1> QED BY <1>4, <1>8 DEF r, n, pages, Rows

LEMMA AppendKeeps ==
    ASSUME PagesInv, NEW t \in Live, NEW chunk \in Chunks[RowElements(pool)], AppendPaged(t, chunk)
    PROVE  PagesInv'
<1> DEFINE from == tensors[t].length
           length == from + ChunkLength(pool, chunk)
           pages == tensors[t].pages
           r == Reserve(pool, pages, CeilDiv(length, pool.pageSize))
           new == IF r.ok THEN length ELSE from
<1>1. /\ pool' = IF r.ok THEN WriteChunk(r.pool, r.pages, from, chunk) ELSE r.pool
      /\ tensors' = [tensors EXCEPT ![t] = [pages |-> r.pages, length |-> new]]
      /\ refused' = ~r.ok /\ lost' = lost
  BY DEF AppendPaged
<1>2. pool # NoPool /\ PoolInv(pool) /\ t \in PagedTensors /\ from \in Nat
  BY OfTensor
<1>3. PICK desc \in PoolDescs : Described(desc, pool)
  BY <1>2 DEF PagesInv
<1>4. ChunkLength(pool, chunk) \in Nat \ {0}
  BY <1>2, <1>3, ChunkFacts
<1>5. length \in Nat /\ new \in Nat
  BY <1>2, <1>4
<1> HIDE DEF length
<1>6. /\ Taken(pool, pages, r) /\ (r.ok => length <= Len(r.pages) * pool.pageSize)
      /\ from <= Len(r.pages) * pool.pageSize
  BY <1>5, AppendReserved
<1> HIDE DEF r
<1>7. PoolInv(r.pool) /\ Grown(pool, r.pool) /\ r.pages \in Seq(Nat)
  BY <1>6 DEF Taken
<1> DEFINE q == WriteChunk(r.pool, r.pages, from, chunk)
<1>8. PoolInv(q) /\ Described(r.pool, q) /\ q.free = r.pool.free /\ q.offsets = r.pool.offsets
  BY <1>7, WriteFacts
<1> HIDE DEF q
<1>9. PoolInv(pool') /\ pool'.free = r.pool.free /\ pool'.offsets = r.pool.offsets
  BY <1>1, <1>7, <1>8 DEF q
<1>10. Described(desc, pool') /\ pool'.pageSize = pool.pageSize
  <2>1. Described(desc, r.pool)
    BY <1>3, <1>7, StaysDescribed
  <2>2. Described(desc, q)
    BY <1>8, <2>1, StaysDescribed
  <2>3. pool' = q \/ pool' = r.pool
    BY <1>1 DEF q
  <2>4. Described(desc, pool')
    BY <2>1, <2>2, <2>3
  <2> QED BY <1>3, <2>4 DEF Described
<1>11. refused' => pool'.free = <<>> /\ AddPage(pool').page = 0
  BY <1>1, <1>6 DEF Taken
<1>12. /\ OwnedOnce' /\ Live' = Live \cup {t}
       /\ tensors'[t] = [pages |-> r.pages, length |-> new]
       /\ \A u \in Live \ {t} : tensors'[u] = tensors[u]
  <2>1. t \in Live /\ ToSet(pages) = Owned(t)
    BY DEF Owned
  <2> HIDE DEF new, pages
  <2> QED BY <1>1, <1>2, <1>5, <1>6, <1>9, <2>1, TakenOwnedOnce
<1>13. \A u \in Live' : TensorInv(u)'
  <2>1. TensorInv(t)'
    <3>1. /\ tensors'[t].pages = r.pages /\ tensors'[t].length = new
          /\ tensors'[t] \in [pages : Seq(Nat), length : Nat]
      BY <1>5, <1>7, <1>12
    <3> QED BY <1>6, <1>10, <3>1 DEF TensorInv
  <2>2. \A u \in Live : TensorInv(u)
    BY <1>2 DEF PagesInv
  <2>3. \A u \in Live \ {t} : TensorInv(u)'
    BY <1>10, <1>12, <2>2 DEF TensorInv
  <2> QED BY <1>12, <2>1, <2>3
<1>14. tensors' = [u \in PagedTensors |-> tensors'[u]]
  BY <1>1 DEF PagesInv
<1>15. pool' # NoPool
  BY <1>9, IsPool
<1> QED BY <1>9, <1>10, <1>11, <1>12, <1>13, <1>14, <1>15 DEF PagesInv

LEMMA NextPagesInv == PagesInv /\ [PagesNext(PoolDescs)]_pagesVars => PagesInv'
<1> SUFFICES ASSUME PagesInv, [PagesNext(PoolDescs)]_pagesVars PROVE PagesInv'
  OBVIOUS
<1>1. ASSUME NEW desc \in PoolDescs, CreatePagedPool(desc) PROVE PagesInv'
  BY <1>1, CreateKeeps
<1>2. CASE DestroyPagedPool
  BY <1>2, DestroyKeeps
<1>3. ASSUME NEW t \in PagedTensors, NEW length \in Lengths, AllocPaged(t, length) PROVE PagesInv'
  BY <1>3, AllocKeeps
<1>4. ASSUME NEW t \in PagedTensors, DeallocPaged(t) PROVE PagesInv'
  BY <1>4, DeallocKeeps
<1>5. ASSUME NEW t \in Live, NEW chunk \in Chunks[RowElements(pool)], AppendPaged(t, chunk) PROVE PagesInv'
  BY <1>5, AppendKeeps
<1>6. CASE UNCHANGED pagesVars
  <2>1. pool' = pool /\ tensors' = tensors /\ lost' = lost /\ refused' = refused
    BY <1>6 DEF pagesVars
  <2>2. Live' = Live
    BY <2>1 DEF Live
  <2>3. OwnedOnce' <=> OwnedOnce
    BY <2>1, <2>2 DEF OwnedOnce, Owned
  <2>4. \A t \in Live : TensorInv(t)' <=> TensorInv(t)
    BY <2>1 DEF TensorInv
  <2> QED BY <2>1, <2>2, <2>3, <2>4 DEF PagesInv
<1> QED BY <1>1, <1>2, <1>3, <1>4, <1>5, <1>6 DEF PagesNext

\* PagesInv is an invariant.
LEMMA PagesStay == PagesSpec => []PagesInv
<1> QED BY InitPagesInv, NextPagesInv, PTL DEF PagesSpec

\* Pages do not share elements.
LEMMA ApartFacts ==
    ASSUME NEW p, PoolInv(p)
    PROVE  /\ \A i, j \in DOMAIN p.offsets : i # j => Elements(p, i) \cap Elements(p, j) = {}
           /\ \A i \in DOMAIN p.offsets : Elements(p, i) \subseteq DOMAIN p.data
<1> DEFINE size == PageElements(p)
<1>1. /\ p.used \in Nat /\ Len(p.offsets) \in Nat /\ DOMAIN p.offsets = 1..Len(p.offsets)
      /\ \A i \in DOMAIN p.offsets : p.offsets[i] \in Nat
      /\ size \in Nat \ {0}
  BY PoolFacts DEF PoolInv
<1>2. /\ DOMAIN p.data = 1..p.used
      /\ \A i \in DOMAIN p.offsets : p.offsets[i] + size <= p.used
      /\ \A i, j \in DOMAIN p.offsets : i < j => p.offsets[i] + size <= p.offsets[j]
  BY DEF PoolInv
<1>3. \A i, x : x \in Elements(p, i) <=> x \in (p.offsets[i] + 1)..(p.offsets[i] + size)
  BY DEF Elements
<1> HIDE DEF size
<1>4. ASSUME NEW i \in DOMAIN p.offsets, NEW j \in DOMAIN p.offsets, i < j
      PROVE  Elements(p, i) \cap Elements(p, j) = {}
  <2>1. p.offsets[i] + size <= p.offsets[j] /\ p.offsets[i] \in Nat /\ p.offsets[j] \in Nat
    BY <1>1, <1>2, <1>4
  <2> QED BY <1>1, <1>3, <2>1
<1>5. \A i, j \in DOMAIN p.offsets : i # j => i < j \/ j < i
  BY <1>1
<1>6. \A i \in DOMAIN p.offsets : Elements(p, i) \subseteq DOMAIN p.data
  BY <1>1, <1>2, <1>3
<1> QED BY <1>4, <1>5, <1>6

\* After any operations on pools and their paged tensors, refused ones included:
\* every page is free, or one tensor's, or lost, once; no two pages share an
\* element of the arena; and a pool without padding refuses a page only when it
\* has given out all it may have.
THEOREM PagesBooked == PagesSpec => []PagesAccounted
<1>1. PagesInv => PagesAccounted
  <2> SUFFICES ASSUME PagesInv, pool # NoPool PROVE OwnedOnce /\ PagesApart /\ RefusedWhenFull
    BY DEF PagesAccounted
  <2>1. PoolInv(pool) /\ OwnedOnce /\ (refused => pool.free = <<>> /\ AddPage(pool).page = 0)
    BY DEF PagesInv
  <2>2. PagesApart
    BY <2>1, ApartFacts DEF PagesApart
  <2>3. RefusedWhenFull
    BY <2>1, RefusedIsFull DEF RefusedWhenFull
  <2> QED BY <2>1, <2>2, <2>3
<1> QED BY <1>1, PagesStay, PTL

-----------------------------------------------------------------------------
\* The rows of a tensor with these pages, read where they lie.
RowsIn(p, pages, length) ==
  [g \in 1..length |->
     [i \in 1..RowElements(p) |->
        p.data[Place(p, pages, (i - 1) \div p.trailing, g - 1, (i - 1) % p.trailing)]]]

\* The element of a row is one of a place.
LEMMA ElementFacts ==
    ASSUME NEW prefix \in Nat \ {0}, NEW trailing \in Nat \ {0}, NEW i \in 1..(prefix * trailing)
    PROVE  /\ (i - 1) \div trailing \in 0..(prefix - 1)
           /\ (i - 1) % trailing \in 0..(trailing - 1)
<1> DEFINE m == i - 1
<1>1. prefix * trailing \in Nat
  OBVIOUS
<1>2. m \in Nat /\ m < prefix * trailing
  BY <1>1
<1> HIDE DEF m
<1>3. m \div trailing \in Nat /\ m % trailing \in 0..(trailing - 1) /\ m = (m \div trailing) * trailing + (m % trailing)
  BY <1>2, DivSplit
<1> DEFINE x == m \div trailing
<1> HIDE DEF x
<1>4. x \in Nat /\ x * trailing \in Nat /\ x * trailing <= m
  <2>1. x \in Nat /\ x * trailing \in Nat
    BY <1>3 DEF x
  <2> DEFINE y == x * trailing
  <2>2. m = y + (m % trailing)
    BY <1>3 DEF x
  <2> HIDE DEF y
  <2>3. y \in Nat
    BY <2>1 DEF y
  <2>4. y <= m
    BY <1>2, <1>3, <2>2, <2>3
  <2> QED BY <2>1, <2>4 DEF y
<1>5. x <= prefix - 1
  <2> SUFFICES ASSUME x >= prefix PROVE FALSE
    BY <1>4
  <2>1. x * trailing >= prefix * trailing
    BY <1>4
  <2> QED BY <1>1, <1>2, <1>4, <2>1
<1> QED BY <1>3, <1>4, <1>5 DEF x, m

\* A number of two digits, the lower one to base b, the higher one below n.
LEMMA DigitsIn ==
    ASSUME NEW n \in Nat \ {0}, NEW b \in Nat \ {0}, NEW a \in 0..(n - 1), NEW c \in 0..(b - 1)
    PROVE  a * b + c \in 0..(n * b - 1) /\ (a * b + c) \div b = a /\ (a * b + c) % b = c
<1>1. a \in Nat /\ c \in Nat /\ a + 1 <= n
  OBVIOUS
<1>2. (a * b + c) \div b = a /\ (a * b + c) % b = c
  BY <1>1, DivSum
<1>3. (a + 1) * b <= n * b /\ (a + 1) * b = a * b + b
  BY <1>1
<1>4. a * b \in Nat /\ n * b \in Nat
  BY <1>1
<1> DEFINE y == a * b
           z == n * b
<1>5. y \in Nat /\ z \in Nat /\ y + b <= z
  BY <1>3, <1>4
<1> HIDE DEF y, z
<1>6. y + c \in 0..(z - 1)
  BY <1>1, <1>5
<1> QED BY <1>2, <1>6 DEF y, z

\* Reading finds a row where it lies: place x, row h, element e of what is read
\* is number (x * length + h) * trailing + e of it.
LaidOut(p, pages, length) ==
  [i \in 1..(p.prefix * length * p.trailing) |->
     p.data[Place(p, pages, ((i - 1) \div p.trailing) \div length,
                  ((i - 1) \div p.trailing) % length, (i - 1) % p.trailing)]]

LEMMA ReadIs ==
    ASSUME NEW p, p.prefix \in Nat \ {0}, p.trailing \in Nat \ {0}, NEW pages, NEW length \in Nat
    PROVE  LET data == LaidOut(p, pages, length)
           IN [g \in 1..length |->
                [i \in 1..(p.prefix * p.trailing) |->
                   data[(((((i - 1) \div p.trailing) * length) + g - 1) * p.trailing)
                          + ((i - 1) % p.trailing) + 1]]] = RowsIn(p, pages, length)
<1> DEFINE data == LaidOut(p, pages, length)
<1> DEFINE At(g, i) == data[(((((i - 1) \div p.trailing) * length) + g - 1) * p.trailing)
                              + ((i - 1) % p.trailing) + 1]
           Row == 1..(p.prefix * p.trailing)
           In(g, i) == p.data[Place(p, pages, (i - 1) \div p.trailing, g - 1, (i - 1) % p.trailing)]
<1>0. \A i \in Row : (i - 1) \div p.trailing \in 0..(p.prefix - 1) /\ (i - 1) % p.trailing \in 0..(p.trailing - 1)
  BY ElementFacts
<1> HIDE DEF Row
<1>1. ASSUME NEW g \in 1..length, NEW i \in Row PROVE At(g, i) = In(g, i)
  <2> DEFINE x == (i - 1) \div p.trailing
             e == (i - 1) % p.trailing
             h == g - 1
             k == (x * length + h) * p.trailing + e + 1
  <2>1. x \in 0..(p.prefix - 1) /\ e \in 0..(p.trailing - 1)
    BY <1>0
  <2>2. h \in 0..(length - 1) /\ length \in Nat \ {0}
    OBVIOUS
  <2> HIDE DEF x, e, h, k
  <2>3. /\ k \in 1..(p.prefix * length * p.trailing)
        /\ (k - 1) % p.trailing = e
        /\ ((k - 1) \div p.trailing) \div length = x
        /\ ((k - 1) \div p.trailing) % length = h
    <3> DEFINE prefix == p.prefix
               trailing == p.trailing
    <3>1. k = (x * length + h) * trailing + e + 1
      BY DEF k
    <3>2. /\ prefix \in Nat \ {0} /\ trailing \in Nat \ {0}
          /\ x \in 0..(prefix - 1) /\ e \in 0..(trailing - 1)
      BY <2>1
    <3> HIDE DEF prefix, trailing
    <3> DEFINE row == x * length + h
               rows == prefix * length
               m == row * trailing + e
    <3>3. row \in 0..(rows - 1) /\ row \div length = x /\ row % length = h
      BY <2>2, <3>2, DigitsIn
    <3>4. rows \in Nat \ {0}
      BY <2>2, <3>2
    <3>5. k = m + 1
      BY <3>1
    <3> HIDE DEF row, rows
    <3>6. m \in 0..(rows * trailing - 1) /\ m \div trailing = row /\ m % trailing = e
      BY <3>2, <3>3, <3>4, DigitsIn
    <3>7. rows * trailing \in Nat
      BY <3>2, <3>4
    <3> DEFINE n == rows * trailing
    <3>8. m \in 0..(n - 1) /\ n \in Nat
      BY <3>6, <3>7
    <3> HIDE DEF m, n
    <3>9. k \in 1..n /\ k - 1 = m
      BY <3>5, <3>8
    <3>10. k \in 1..(prefix * length * trailing)
      BY <3>9 DEF n, rows
    <3>11. /\ (k - 1) % trailing = e
          /\ ((k - 1) \div trailing) \div length = x
          /\ ((k - 1) \div trailing) % length = h
      BY <3>3, <3>6, <3>9
    <3> QED BY <3>10, <3>11 DEF prefix, trailing
  <2>4. At(g, i) = data[k]
    <3>1. x * length + g - 1 = x * length + h
      <4>1. x * length \in Nat
        BY <2>1
      <4> DEFINE y == x * length
      <4> HIDE DEF y
      <4>2. y + g - 1 = y + h
        BY <4>1 DEF y, h
      <4> QED BY <4>2 DEF y
    <3>2. At(g, i) = data[((x * length + g - 1) * p.trailing) + e + 1]
      BY DEF x, e
    <3> QED BY <3>1, <3>2 DEF k
  <2>5. data[k] = p.data[Place(p, pages, x, h, e)]
    BY <2>3 DEF LaidOut
  <2> QED BY <2>4, <2>5 DEF x, e, h
<1> HIDE DEF At, In, data
<1>2. [g \in 1..length |-> [i \in Row |-> At(g, i)]]
        = [g \in 1..length |-> [i \in Row |-> In(g, i)]]
  <2>1. \A g \in 1..length : [i \in Row |-> At(g, i)]
                               = [i \in Row |-> In(g, i)]
    BY <1>1
  <2> QED BY <2>1
<1> QED BY <1>2 DEF At, In, Row, data, RowsIn, RowElements

\* Where the rows that a tensor has pages for lie, and that it is nowhere twice.
LEMMA PlaceIn ==
    ASSUME NEW p, PoolInv(p), NEW pages \in Seq(Nat), ToSet(pages) \subseteq DOMAIN p.offsets,
           NEW g \in Nat, g < Len(pages) * p.pageSize,
           NEW x \in 0..(p.prefix - 1), NEW e \in 0..(p.trailing - 1)
    PROVE  /\ g \div p.pageSize + 1 \in 1..Len(pages)
           /\ pages[g \div p.pageSize + 1] \in DOMAIN p.offsets
           /\ Place(p, pages, x, g, e) \in Elements(p, pages[g \div p.pageSize + 1])
<1> DEFINE size == p.pageSize
           k == g \div size
           r == g % size
           n == Len(pages)
<1>1. /\ size \in Nat \ {0} /\ p.prefix \in Nat \ {0} /\ p.trailing \in Nat \ {0}
      /\ \A i \in DOMAIN p.offsets : p.offsets[i] \in Nat
  BY PoolFacts DEF PoolInv
<1>2. k \in Nat /\ r \in 0..(size - 1) /\ g = k * size + r
  BY <1>1, DivSplit
<1>3. n \in Nat /\ g < n * size
  BY LenProperties
<1> HIDE DEF k, r, n, size
<1>4. k < n
  <2> SUFFICES ASSUME k >= n PROVE FALSE
    BY <1>2, <1>3
  <2>1. k * size >= n * size
    BY <1>1, <1>2, <1>3
  <2>2. k * size \in Nat /\ n * size \in Nat
    BY <1>1, <1>2, <1>3
  <2> DEFINE y == k * size
             z == n * size
  <2> HIDE DEF y, z
  <2>3. y \in Nat /\ z \in Nat /\ y >= z /\ g = y + r /\ g < z
    BY <1>2, <1>3, <2>1, <2>2 DEF y, z
  <2> QED BY <1>2, <2>3
<1>5. k + 1 \in 1..n
  BY <1>2, <1>3, <1>4
<1>6. pages[k + 1] \in DOMAIN p.offsets
  BY <1>5, ToSetFacts DEF n
<1> DEFINE at == p.offsets[pages[k + 1]]
           off == (x * size + r) * p.trailing + e
<1>7. at \in Nat
  BY <1>1, <1>6
<1>8. off \in 0..(PageElements(p) - 1)
  <2> DEFINE prefix == p.prefix
             trailing == p.trailing
             row == x * size + r
  <2>1. /\ prefix \in Nat \ {0} /\ trailing \in Nat \ {0}
        /\ x \in 0..(prefix - 1) /\ e \in 0..(trailing - 1)
    BY <1>1
  <2> HIDE DEF prefix, trailing
  <2> DEFINE rows == prefix * size
  <2>2. row \in 0..(rows - 1)
    BY <1>1, <1>2, <2>1, DigitsIn
  <2>3. rows \in Nat \ {0}
    BY <1>1, <2>1
  <2>4. off = row * trailing + e
    BY DEF trailing
  <2>5. rows * trailing = PageElements(p)
    BY DEF PageElements, trailing, prefix, size
  <2> HIDE DEF row, rows, off
  <2>6. row * trailing + e \in 0..(rows * trailing - 1)
    BY <2>1, <2>2, <2>3, DigitsIn
  <2> QED BY <2>4, <2>5, <2>6
<1>9. Place(p, pages, x, g, e) = at + off + 1
  <2>1. Place(p, pages, x, g, e) = at + (x * size + r) * p.trailing + e + 1
    BY DEF Place, k, r, size
  <2>2. (x * size + r) * p.trailing \in Nat
    <3>1. x * size \in Nat
      BY <1>1
    <3>2. x * size + r \in Nat
      BY <1>1, <1>2, <3>1
    <3> QED BY <1>1, <3>2
  <2> DEFINE y == (x * size + r) * p.trailing
  <2> HIDE DEF y, at
  <2>3. y \in Nat /\ at + y + e + 1 = at + (y + e) + 1
    BY <1>1, <1>7, <2>2 DEF y
  <2> QED BY <2>1, <2>3 DEF y
<1> HIDE DEF at, off
<1>10. at + off + 1 \in Elements(p, pages[k + 1])
  <2>1. PageElements(p) \in Nat
    BY PoolFacts DEF PoolInv
  <2> DEFINE m == PageElements(p)
  <2>2. off \in 0..(m - 1) /\ m \in Nat /\ at \in Nat
    BY <1>7, <1>8, <2>1
  <2>3. Elements(p, pages[k + 1]) = (at + 1)..(at + m)
    BY DEF Elements, at
  <2> HIDE DEF m
  <2>4. at + off + 1 \in (at + 1)..(at + m)
    BY <2>2
  <2> QED BY <2>3, <2>4
<1> QED BY <1>5, <1>6, <1>9, <1>10 DEF k, n, size

\* Elements of two rows that lie at the same place are the same element.
LEMMA PlaceOnce ==
    ASSUME NEW p, PoolInv(p), NEW pages \in Seq(Nat), ToSet(pages) \subseteq DOMAIN p.offsets, IsInjective(pages),
           NEW g \in Nat, g < Len(pages) * p.pageSize, NEW h \in Nat, h < Len(pages) * p.pageSize,
           NEW x \in 0..(p.prefix - 1), NEW e \in 0..(p.trailing - 1),
           NEW y \in 0..(p.prefix - 1), NEW d \in 0..(p.trailing - 1),
           Place(p, pages, x, g, e) = Place(p, pages, y, h, d)
    PROVE  x = y /\ g = h /\ e = d
<1> DEFINE size == p.pageSize
           trailing == p.trailing
           i == g \div size + 1
           j == h \div size + 1
           r == g % size
           s == h % size
<1>1. /\ size \in Nat \ {0} /\ trailing \in Nat \ {0} /\ p.prefix \in Nat \ {0}
      /\ \A k \in DOMAIN p.offsets : p.offsets[k] \in Nat
  BY PoolFacts DEF PoolInv
<1>2. /\ i \in 1..Len(pages) /\ pages[i] \in DOMAIN p.offsets
      /\ Place(p, pages, x, g, e) \in Elements(p, pages[i])
  BY PlaceIn
<1>3. /\ j \in 1..Len(pages) /\ pages[j] \in DOMAIN p.offsets
      /\ Place(p, pages, y, h, d) \in Elements(p, pages[j])
  BY PlaceIn
<1>4. i = j
  <2>1. pages[i] = pages[j]
    <3> HIDE DEF i, j
    <3> QED BY <1>2, <1>3, ApartFacts
  <2> HIDE DEF i, j
  <2> QED BY <1>2, <1>3, <2>1, ToSetFacts
<1>5. /\ g \div size \in Nat /\ r \in 0..(size - 1) /\ g = (g \div size) * size + r
      /\ h \div size \in Nat /\ s \in 0..(size - 1) /\ h = (h \div size) * size + s
  BY <1>1, DivSplit
<1>6. g \div size = h \div size
  BY <1>4, <1>5
<1> DEFINE at == p.offsets[pages[i]]
           u == x * size + r
           w == y * size + s
<1>7. Place(p, pages, x, g, e) = at + u * trailing + e + 1 /\ Place(p, pages, y, h, d) = at + w * trailing + d + 1
  BY <1>4 DEF Place
<1>8. at \in Nat
  BY <1>1, <1>2
<1>9. u \in Nat /\ w \in Nat
  <2>0. x \in Nat /\ y \in Nat /\ size \in Nat
    BY <1>1
  <2> HIDE DEF size, r, s, u, w
  <2>1. x * size \in Nat /\ y * size \in Nat
    BY <2>0
  <2> USE DEF u, w
  <2> DEFINE m == x * size
             n == y * size
  <2>2. m \in Nat /\ n \in Nat /\ u = m + r /\ w = n + s
    BY <2>1
  <2> HIDE DEF r, s, m, n, u, w
  <2>3. r \in Nat /\ s \in Nat
    BY <1>1, <1>5
  <2> QED BY <2>2, <2>3
<1>10. e \in 0..(trailing - 1) /\ d \in 0..(trailing - 1) /\ x \in Nat /\ y \in Nat
  BY <1>1
<1> HIDE DEF at, u, w, r, s, trailing, size
<1>11. u * trailing + e = w * trailing + d
  <2>1. u * trailing \in Nat /\ w * trailing \in Nat
    BY <1>1, <1>9
  <2> DEFINE m == u * trailing
             n == w * trailing
  <2> HIDE DEF m, n
  <2>2. m \in Nat /\ n \in Nat /\ at + m + e + 1 = at + n + d + 1
    BY <1>7, <2>1 DEF m, n
  <2>3. m + e = n + d
    BY <1>8, <1>10, <2>2
  <2> QED BY <2>3 DEF m, n
<1>12. u = w /\ e = d
  <2>1. (u * trailing + e) \div trailing = u /\ (u * trailing + e) % trailing = e
    BY <1>1, <1>9, <1>10, DivSum
  <2>2. (w * trailing + d) \div trailing = w /\ (w * trailing + d) % trailing = d
    BY <1>1, <1>9, <1>10, DivSum
  <2> DEFINE m == u * trailing + e
             n == w * trailing + d
  <2>3. m = n /\ m \div trailing = u /\ m % trailing = e /\ n \div trailing = w /\ n % trailing = d
    BY <1>11, <2>1, <2>2
  <2> HIDE DEF m, n
  <2> QED BY <2>3
<1>14. x = y /\ r = s
  <2>0. x \in Nat /\ y \in Nat /\ size \in Nat \ {0} /\ r \in 0..(size - 1) /\ s \in 0..(size - 1)
    BY <1>1, <1>5, <1>10
  <2>1. (x * size + r) \div size = x /\ (x * size + r) % size = r
    BY <2>0, DivSum
  <2>2. (y * size + s) \div size = y /\ (y * size + s) % size = s
    BY <2>0, DivSum
  <2>3. u \div size = x /\ u % size = r /\ w \div size = y /\ w % size = s
    BY <2>1, <2>2 DEF u, w
  <2> QED BY <1>12, <2>3
<1>15. g = h
  BY <1>5, <1>6, <1>14
<1> QED BY <1>12, <1>14, <1>15

-----------------------------------------------------------------------------
\* Pages of a pool, with room for so many rows.
Room(p, pages, length) ==
  /\ PoolInv(p) /\ pages \in Seq(Nat) /\ ToSet(pages) \subseteq DOMAIN p.offsets
  /\ length \in Nat /\ length <= Len(pages) * p.pageSize
\* A pool q that has these pages where p has them.
SamePages(p, q, pages) ==
  /\ q.prefix = p.prefix /\ q.trailing = p.trailing /\ q.pageSize = p.pageSize
  /\ \A i \in ToSet(pages) : q.offsets[i] = p.offsets[i]

\* Those pages are the first of more.
Begins(pages, more) == \A i \in 1..Len(pages) : more[i] = pages[i]

\* Room, one fact at a time.
LEMMA RoomFacts ==
    ASSUME NEW p, NEW pages, NEW length, Room(p, pages, length)
    PROVE  /\ PoolInv(p) /\ pages \in Seq(Nat) /\ ToSet(pages) \subseteq DOMAIN p.offsets
           /\ p.prefix \in Nat \ {0} /\ p.trailing \in Nat \ {0} /\ p.pageSize \in Nat \ {0}
           /\ \A g \in 0..(length - 1) : g \in Nat /\ g < Len(pages) * p.pageSize
<1>1. /\ PoolInv(p) /\ pages \in Seq(Nat) /\ ToSet(pages) \subseteq DOMAIN p.offsets
      /\ length \in Nat /\ length <= Len(pages) * p.pageSize
  BY DEF Room
<1>2. p.prefix \in Nat \ {0} /\ p.trailing \in Nat \ {0} /\ p.pageSize \in Nat \ {0} /\ Len(pages) \in Nat
  BY <1>1, PoolFacts, LenProperties DEF PoolInv
<1> DEFINE room == Len(pages) * p.pageSize
<1>3. room \in Nat /\ length <= room
  BY <1>1, <1>2
<1> HIDE DEF room
<1>4. \A g \in 0..(length - 1) : g \in Nat /\ g < room
  BY <1>1, <1>3
<1> QED BY <1>1, <1>2, <1>4 DEF room

\* A row lies where it did while the pages that it lies in do.
LEMMA SamePlace ==
    ASSUME NEW p, NEW q, NEW pages, NEW more, NEW length, Room(p, pages, length), SamePages(p, q, pages),
           Begins(pages, more),
           NEW g \in 0..(length - 1), NEW x \in 0..(p.prefix - 1), NEW e \in 0..(p.trailing - 1)
    PROVE  /\ Place(q, more, x, g, e) = Place(p, pages, x, g, e)
           /\ Place(p, pages, x, g, e) \in DOMAIN p.data
<1>1. g \in Nat /\ g < Len(pages) * p.pageSize
  BY RoomFacts
<1>2. PoolInv(p) /\ pages \in Seq(Nat) /\ ToSet(pages) \subseteq DOMAIN p.offsets
  BY RoomFacts
<1> DEFINE k == g \div p.pageSize + 1
<1>3. /\ k \in 1..Len(pages) /\ pages[k] \in DOMAIN p.offsets
      /\ Place(p, pages, x, g, e) \in Elements(p, pages[k])
  BY <1>1, <1>2, PlaceIn
<1>4. Place(p, pages, x, g, e) \in DOMAIN p.data
  <2> HIDE DEF k
  <2> QED BY <1>2, <1>3, ApartFacts
<1>5. more[k] = pages[k] /\ q.offsets[pages[k]] = p.offsets[pages[k]]
  <2> HIDE DEF k
  <2>1. pages[k] \in ToSet(pages)
    BY <1>2, <1>3, ToSetFacts
  <2> QED BY <1>3, <2>1 DEF SamePages, Begins
<1>6. q.pageSize = p.pageSize /\ q.trailing = p.trailing
  BY DEF SamePages
<1>7. Place(q, more, x, g, e)
        = q.offsets[more[k]] + (x * p.pageSize + (g % p.pageSize)) * p.trailing + e + 1
  BY <1>6 DEF Place
<1>8. Place(p, pages, x, g, e)
        = p.offsets[pages[k]] + (x * p.pageSize + (g % p.pageSize)) * p.trailing + e + 1
  BY DEF Place
<1> HIDE DEF k
<1> QED BY <1>4, <1>5, <1>7, <1>8

SameData(p, q, pages, length) ==
  \A x \in 0..(p.prefix - 1), g \in 0..(length - 1), e \in 0..(p.trailing - 1) :
    q.data[Place(p, pages, x, g, e)] = p.data[Place(p, pages, x, g, e)]

\* Rows are what they were while their elements are.
LEMMA SameRows ==
    ASSUME NEW p, NEW q, NEW pages, NEW more, NEW length, Room(p, pages, length), SamePages(p, q, pages),
           Begins(pages, more),
           SameData(p, q, pages, length)
    PROVE  RowsIn(q, more, length) = RowsIn(p, pages, length)
<1>6. ASSUME NEW g \in 0..(length - 1), NEW x \in 0..(p.prefix - 1), NEW e \in 0..(p.trailing - 1)
      PROVE  /\ Place(q, more, x, g, e) = Place(p, pages, x, g, e)
             /\ Place(p, pages, x, g, e) \in DOMAIN p.data
  BY SamePlace
<1> DEFINE Row == 1..RowElements(p)
           X(i) == (i - 1) \div p.trailing
           E(i) == (i - 1) % p.trailing
<1>1. /\ q.trailing = p.trailing /\ RowElements(q) = RowElements(p)
      /\ p.prefix \in Nat \ {0} /\ p.trailing \in Nat \ {0}
  BY RoomFacts DEF SamePages, RowElements
<1>2. \A i \in Row : X(i) \in 0..(p.prefix - 1) /\ E(i) \in 0..(p.trailing - 1)
  BY <1>1, ElementFacts DEF RowElements
<1>3. RowsIn(p, pages, length) = [g \in 1..length |-> [i \in Row |-> p.data[Place(p, pages, X(i), g - 1, E(i))]]]
  BY DEF RowsIn
<1>4. RowsIn(q, more, length) = [g \in 1..length |-> [i \in Row |-> q.data[Place(q, more, X(i), g - 1, E(i))]]]
  BY <1>1 DEF RowsIn
<1> HIDE DEF Row, X, E
<1>5. ASSUME NEW g \in 1..length, NEW i \in Row
      PROVE  q.data[Place(q, more, X(i), g - 1, E(i))] = p.data[Place(p, pages, X(i), g - 1, E(i))]
  <2> DEFINE x == X(i)
             e == E(i)
             h == g - 1
  <2>1. x \in 0..(p.prefix - 1) /\ e \in 0..(p.trailing - 1) /\ h \in 0..(length - 1)
    <3>1. length \in Nat
      BY DEF Room
    <3>2. h \in 0..(length - 1)
      BY <3>1
    <3> QED BY <1>2, <3>2
  <2> HIDE DEF x, e, h
  <2>2. Place(q, more, x, h, e) = Place(p, pages, x, h, e)
    BY <1>6, <2>1
  <2>3. q.data[Place(p, pages, x, h, e)] = p.data[Place(p, pages, x, h, e)]
    BY <2>1 DEF SameData
  <2> QED BY <2>2, <2>3 DEF x, e, h
<1> QED BY <1>3, <1>4, <1>5

\* Rows are what they were when the pool has grown.
LEMMA GrownRows ==
    ASSUME NEW p, NEW q, NEW pages, NEW more, NEW length, Room(p, pages, length), Grown(p, q),
           Begins(pages, more)
    PROVE  RowsIn(q, more, length) = RowsIn(p, pages, length)
<1>1. SamePages(p, q, pages)
  BY RoomFacts DEF SamePages, Grown
<1>2. ASSUME NEW x \in 0..(p.prefix - 1), NEW g \in 0..(length - 1), NEW e \in 0..(p.trailing - 1)
      PROVE  q.data[Place(p, pages, x, g, e)] = p.data[Place(p, pages, x, g, e)]
  <2>1. Place(p, pages, x, g, e) \in DOMAIN p.data
    BY <1>1, SamePlace
  <2> QED BY <2>1 DEF Grown
<1> QED BY <1>1, <1>2, SameRows DEF SameData

-----------------------------------------------------------------------------
\* What is written is a place of a row that is appended.
LEMMA CopiedFacts ==
    ASSUME NEW p, NEW chunk, NEW from \in Nat, ChunkLength(p, chunk) \in Nat, NEW c \in Copied(p, chunk)
    PROVE  /\ c[1] \in 0..(p.prefix - 1) /\ c[3] \in 0..(p.trailing - 1)
           /\ c[2] \in 0..(ChunkLength(p, chunk) - 1) /\ c = <<c[1], c[2], c[3]>>
           /\ from + c[2] \in 0..(from + ChunkLength(p, chunk) - 1) /\ from + c[2] >= from
<1> DEFINE k == ChunkLength(p, chunk)
<1>1. /\ c[1] \in 0..(p.prefix - 1) /\ c[2] \in 0..(k - 1) /\ c[3] \in 0..(p.trailing - 1)
      /\ c = <<c[1], c[2], c[3]>>
  BY DEF Copied
<1> HIDE DEF k
<1>2. k \in Nat
  BY DEF k
<1>3. from + c[2] \in 0..(from + k - 1) /\ from + c[2] >= from
  BY <1>1, <1>2
<1> QED BY <1>1, <1>3 DEF k

\* An element is overwritten by the chunk only where a copied place is it.
LEMMA NotWritten ==
    ASSUME NEW p, NEW pages, NEW from, NEW chunk, NEW a \in DOMAIN p.data,
           \A c \in Copied(p, chunk) : PlaceOf(p, pages, from, c) # a
    PROVE  DataWith(p, pages, from, chunk)[a] = p.data[a]
BY DEF DataWith

LEMMA Written ==
    ASSUME NEW p, NEW pages, NEW from, NEW chunk, NEW c \in Copied(p, chunk),
           PlaceOf(p, pages, from, c) \in DOMAIN p.data,
           \A d \in Copied(p, chunk) : PlaceOf(p, pages, from, d) = PlaceOf(p, pages, from, c) => d = c
    PROVE  DataWith(p, pages, from, chunk)[PlaceOf(p, pages, from, c)] = SourceOf(p, chunk, c)
<1> DEFINE a == PlaceOf(p, pages, from, c)
           d == CHOOSE d \in Copied(p, chunk) : PlaceOf(p, pages, from, d) = a
<1>1. DataWith(p, pages, from, chunk)[a] = SourceOf(p, chunk, d)
  BY DEF DataWith
<1>2. d \in Copied(p, chunk) /\ PlaceOf(p, pages, from, d) = a
  OBVIOUS
<1>3. d = c
  <2> HIDE DEF d
  <2> QED BY <1>2
<1> QED BY <1>1, <1>3

\* The pages of a pool are where they were when a chunk is written.
LEMMA WrittenPool ==
    ASSUME NEW p, PoolInv(p), NEW mine, NEW from, NEW chunk, NEW pages
    PROVE  LET q == WriteChunk(p, mine, from, chunk)
           IN SamePages(p, q, pages) /\ q.data = DataWith(p, mine, from, chunk)
<1> DEFINE q == WriteChunk(p, mine, from, chunk)
<1>1. Described(p, q) /\ q.offsets = p.offsets /\ q.data = DataWith(p, mine, from, chunk)
  BY WriteFacts
<1> HIDE DEF q
<1>2. SamePages(p, q, pages)
  BY <1>1 DEF SamePages, Described
<1> QED BY <1>1, <1>2 DEF q

\* A chunk that there is room for behind the rows that pages hold.
Appends(p, pages, from, chunk) ==
  from \in Nat /\ ChunkLength(p, chunk) \in Nat /\ Room(p, pages, from + ChunkLength(p, chunk))
\* Pages that are not among those.
Apart(mine, pages) == \A x \in ToSet(mine) : x \notin ToSet(pages)

\* A chunk that is written to pages shows in no tensor with other pages.
LEMMA UntouchedRows ==
    ASSUME NEW p, NEW pages, NEW length, Room(p, pages, length), NEW mine, NEW from, NEW chunk,
           Appends(p, mine, from, chunk), Apart(mine, pages)
    PROVE  RowsIn(WriteChunk(p, mine, from, chunk), pages, length) = RowsIn(p, pages, length)
<1>0. /\ from \in Nat /\ ChunkLength(p, chunk) \in Nat
      /\ Room(p, mine, from + ChunkLength(p, chunk))
  BY DEF Appends
<1> DEFINE q == WriteChunk(p, mine, from, chunk)
<1>1. PoolInv(p) /\ pages \in Seq(Nat) /\ ToSet(pages) \subseteq DOMAIN p.offsets
      /\ mine \in Seq(Nat) /\ ToSet(mine) \subseteq DOMAIN p.offsets
  BY <1>0, RoomFacts
<1>2. SamePages(p, q, pages) /\ q.data = DataWith(p, mine, from, chunk)
  BY <1>1, WrittenPool
<1> HIDE DEF q
<1>3. ASSUME NEW x \in 0..(p.prefix - 1), NEW g \in 0..(length - 1), NEW e \in 0..(p.trailing - 1)
      PROVE  q.data[Place(p, pages, x, g, e)] = p.data[Place(p, pages, x, g, e)]
  <2> DEFINE a == Place(p, pages, x, g, e)
             i == g \div p.pageSize + 1
  <2>1. g \in Nat /\ g < Len(pages) * p.pageSize
    BY RoomFacts
  <2>2. i \in 1..Len(pages) /\ pages[i] \in DOMAIN p.offsets /\ a \in Elements(p, pages[i])
    BY <1>1, <2>1, PlaceIn
  <2> HIDE DEF a, i
  <2>3. a \in DOMAIN p.data
    BY <1>1, <2>2, ApartFacts
  <2>4. ASSUME NEW c \in Copied(p, chunk) PROVE PlaceOf(p, mine, from, c) # a
    <3> DEFINE y == c[1]
               h == from + c[2]
               d == c[3]
               j == h \div p.pageSize + 1
    <3>1. y \in 0..(p.prefix - 1) /\ h \in 0..(from + ChunkLength(p, chunk) - 1) /\ d \in 0..(p.trailing - 1)
      BY <1>0, CopiedFacts
    <3>2. PlaceOf(p, mine, from, c) = Place(p, mine, y, h, d)
      BY DEF PlaceOf
    <3> HIDE DEF y, h, d
    <3>3. h \in Nat /\ h < Len(mine) * p.pageSize
      BY <1>0, <3>1, RoomFacts
    <3>4. /\ j \in 1..Len(mine) /\ mine[j] \in DOMAIN p.offsets
          /\ Place(p, mine, y, h, d) \in Elements(p, mine[j])
      BY <1>1, <3>1, <3>3, PlaceIn
    <3> HIDE DEF j
    <3>5. mine[j] \in ToSet(mine) /\ pages[i] \in ToSet(pages)
      BY <1>1, <2>2, <3>4, ToSetFacts
    <3>6. mine[j] # pages[i]
      BY <3>5 DEF Apart
    <3> QED BY <1>1, <2>2, <3>2, <3>4, <3>6, ApartFacts
  <2> QED BY <1>2, <2>3, <2>4, NotWritten DEF a
<1>4. Begins(pages, pages)
  BY DEF Begins
<1>5. SameData(p, q, pages, length)
  BY <1>3 DEF SameData
<1> QED BY <1>2, <1>4, <1>5, SameRows DEF q

\* Rows already there are read as they were, those of the chunk as it holds them.
ReadAfter(p, pages, from, chunk, x, e) ==
  /\ \A g \in 0..(from - 1) :
       DataWith(p, pages, from, chunk)[Place(p, pages, x, g, e)] = p.data[Place(p, pages, x, g, e)]
  /\ \A h \in 0..(ChunkLength(p, chunk) - 1) :
       DataWith(p, pages, from, chunk)[Place(p, pages, x, from + h, e)]
         = chunk[(x * ChunkLength(p, chunk) + h) * p.trailing + e + 1]
LEMMA AppendedPlaces ==
    ASSUME NEW p, NEW pages, NEW from \in Nat, NEW chunk, ChunkLength(p, chunk) \in Nat,
           Room(p, pages, from + ChunkLength(p, chunk)), IsInjective(pages),
           NEW x \in 0..(p.prefix - 1), NEW e \in 0..(p.trailing - 1)
    PROVE  ReadAfter(p, pages, from, chunk, x, e)
<1> DEFINE k == ChunkLength(p, chunk)
           length == from + k
<1>0. k \in Nat /\ length \in Nat /\ \A g \in 0..(from - 1) : g \in 0..(length - 1)
  OBVIOUS
<1>1. PoolInv(p) /\ pages \in Seq(Nat) /\ ToSet(pages) \subseteq DOMAIN p.offsets
      /\ \A g \in 0..(length - 1) : g \in Nat /\ g < Len(pages) * p.pageSize
  BY RoomFacts
<1> HIDE DEF k, length
<1>2. ASSUME NEW g \in 0..(length - 1), NEW c \in Copied(p, chunk),
             PlaceOf(p, pages, from, c) = Place(p, pages, x, g, e)
      PROVE  c[1] = x /\ from + c[2] = g /\ c[3] = e /\ c = <<c[1], c[2], c[3]>> /\ c[2] \in 0..(k - 1)
  <2> DEFINE y == c[1]
             h == from + c[2]
             d == c[3]
  <2>1. y \in 0..(p.prefix - 1) /\ h \in 0..(length - 1) /\ d \in 0..(p.trailing - 1)
        /\ c = <<c[1], c[2], c[3]>> /\ c[2] \in 0..(k - 1)
    <3>1. /\ c[1] \in 0..(p.prefix - 1) /\ c[3] \in 0..(p.trailing - 1)
          /\ c[2] \in 0..(ChunkLength(p, chunk) - 1) /\ c = <<c[1], c[2], c[3]>>
          /\ from + c[2] \in 0..(from + ChunkLength(p, chunk) - 1)
      BY CopiedFacts
    <3> QED BY <3>1 DEF length, k
  <2>2. PlaceOf(p, pages, from, c) = Place(p, pages, y, h, d)
    BY DEF PlaceOf
  <2> HIDE DEF y, h, d
  <2>3. h \in Nat /\ h < Len(pages) * p.pageSize /\ g \in Nat /\ g < Len(pages) * p.pageSize
    BY <1>1, <2>1
  <2>4. Place(p, pages, x, g, e) = Place(p, pages, y, h, d)
    BY <1>2, <2>2
  <2>5. x = y /\ g = h /\ e = d
    BY <1>1, <2>1, <2>3, <2>4, PlaceOnce
  <2> QED BY <2>1, <2>5 DEF y, h, d
<1>3. ASSUME NEW g \in 0..(length - 1)
      PROVE  Place(p, pages, x, g, e) \in DOMAIN p.data
  <2>1. SamePages(p, p, pages) /\ Begins(pages, pages) /\ Room(p, pages, length)
    BY DEF SamePages, Begins, length, k
  <2> QED BY <2>1, SamePlace
<1>4. ASSUME NEW g \in 0..(from - 1)
      PROVE  DataWith(p, pages, from, chunk)[Place(p, pages, x, g, e)] = p.data[Place(p, pages, x, g, e)]
  <2>1. g \in 0..(length - 1)
    BY <1>0
  <2>2. ASSUME NEW c \in Copied(p, chunk) PROVE PlaceOf(p, pages, from, c) # Place(p, pages, x, g, e)
    <3> SUFFICES ASSUME PlaceOf(p, pages, from, c) = Place(p, pages, x, g, e) PROVE FALSE
      OBVIOUS
    <3>1. from + c[2] = g /\ c[2] \in 0..(k - 1)
      BY <1>2, <2>1
    <3> QED BY <3>1
  <2>3. Place(p, pages, x, g, e) \in DOMAIN p.data
    BY <1>3, <2>1
  <2> QED BY <2>2, <2>3, NotWritten
<1>5. ASSUME NEW h \in 0..(k - 1)
      PROVE  DataWith(p, pages, from, chunk)[Place(p, pages, x, from + h, e)]
               = chunk[(x * k + h) * p.trailing + e + 1]
  <2> DEFINE c == <<x, h, e>>
             g == from + h
  <2>1. c[1] = x /\ c[2] = h /\ c[3] = e /\ c \in Copied(p, chunk)
    BY DEF Copied, k
  <2>2. g \in 0..(length - 1)
    BY <1>0 DEF length
  <2>3. PlaceOf(p, pages, from, c) = Place(p, pages, x, g, e)
    BY <2>1 DEF PlaceOf
  <2>4. SourceOf(p, chunk, c) = chunk[(x * k + h) * p.trailing + e + 1]
    BY <2>1 DEF SourceOf, k
  <2> HIDE DEF g
  <2>5. ASSUME NEW d \in Copied(p, chunk), PlaceOf(p, pages, from, d) = PlaceOf(p, pages, from, c)
        PROVE  d = c
    <3>1. PlaceOf(p, pages, from, d) = Place(p, pages, x, g, e)
      BY <2>3, <2>5
    <3>2. d[1] = x /\ from + d[2] = g /\ d[3] = e /\ d = <<d[1], d[2], d[3]>> /\ d[2] \in 0..(k - 1)
      BY <1>2, <2>2, <3>1
    <3>3. d[2] = h
      BY <3>2 DEF g
    <3> QED BY <3>2, <3>3
  <2> HIDE DEF c
  <2>6. PlaceOf(p, pages, from, c) \in DOMAIN p.data
    BY <1>3, <2>2, <2>3
  <2>7. DataWith(p, pages, from, chunk)[PlaceOf(p, pages, from, c)] = SourceOf(p, chunk, c)
    BY <2>1, <2>5, <2>6, Written
  <2> QED BY <2>3, <2>4, <2>7 DEF g
<1> QED BY <1>4, <1>5 DEF k, ReadAfter

-----------------------------------------------------------------------------
Listed(s, n) == s = [i \in 1..n |-> s[i]]

\* A list of given length whose elements are those of one list, then of another.
LEMMA ConcatIs ==
    ASSUME NEW m \in Nat, NEW n \in Nat, NEW s, NEW u, NEW w,
           Listed(s, m), Listed(u, n), Listed(w, m + n),
           \A i \in 1..m : w[i] = s[i], \A i \in 1..n : w[m + i] = u[i]
    PROVE  w = s \o u
<1> DEFINE S == {s[i] : i \in 1..m} \cup {u[i] : i \in 1..n}
           c == s \o u
<1>1. s \in [1..m -> S] /\ u \in [1..n -> S]
  <2>1. \A i \in 1..m : s[i] \in S
    OBVIOUS
  <2>2. \A i \in 1..n : u[i] \in S
    OBVIOUS
  <2> HIDE DEF S
  <2> QED BY <2>1, <2>2 DEF Listed
<1> HIDE DEF S
<1>2. s \in Seq(S) /\ u \in Seq(S)
  BY <1>1, SeqDef
<1>3. Len(s) = m /\ Len(u) = n
  <2>1. Len(s) \in Nat /\ DOMAIN s = 1..Len(s) /\ Len(u) \in Nat /\ DOMAIN u = 1..Len(u)
    BY <1>2, LenProperties
  <2>2. DOMAIN s = 1..m /\ DOMAIN u = 1..n
    BY <1>1
  <2>3. \A k, l \in Nat : 1..k = 1..l => k = l
    <3> TAKE k, l \in Nat
    <3> HAVE 1..k = 1..l
    <3>1. \A i \in Int : i \in 1..k <=> i \in 1..l
      OBVIOUS
    <3>2. k > 0 => k <= l
      BY <3>1
    <3>3. l > 0 => l <= k
      BY <3>1
    <3> QED BY <3>2, <3>3
  <2>4. Len(s) = m
    BY <2>1, <2>2, <2>3
  <2>5. Len(u) = n
    BY <2>1, <2>2, <2>3
  <2> QED BY <2>4, <2>5
<1>4. /\ c \in Seq(S) /\ Len(c) = m + n
      /\ \A i \in 1..(m + n) : c[i] = IF i <= m THEN s[i] ELSE u[i - m]
  <2>1. /\ c \in Seq(S) /\ Len(c) = Len(s) + Len(u)
        /\ \A i \in 1..(Len(s) + Len(u)) : c[i] = IF i <= Len(s) THEN s[i] ELSE u[i - Len(s)]
    BY <1>2, ConcatProperties
  <2> HIDE DEF c
  <2> QED BY <1>3, <2>1
<1> HIDE DEF c
<1>5. c \in [1..(m + n) -> S]
  BY <1>4, LenProperties
<1>6. ASSUME NEW i \in 1..(m + n) PROVE c[i] = w[i]
  <2>1. CASE i <= m
    <3>1. c[i] = s[i] /\ i \in 1..m
      BY <1>4, <2>1
    <3> QED BY <3>1
  <2>2. CASE ~(i <= m)
    <3> DEFINE j == i - m
    <3>1. j \in 1..n /\ m + j = i
      BY <2>2
    <3>2. c[i] = u[j]
      BY <1>4, <2>2
    <3> HIDE DEF j
    <3> QED BY <3>1, <3>2
  <2> QED BY <2>1, <2>2
<1>7. c = [i \in 1..(m + n) |-> c[i]]
  BY <1>5
<1>8. c = w
  BY <1>6, <1>7 DEF Listed
<1> QED BY <1>8 DEF c

\* A chunk that is written behind the rows of a tensor is appended to them.
LEMMA AppendedRows ==
    ASSUME NEW p, NEW pages, NEW from \in Nat, NEW chunk, ChunkLength(p, chunk) \in Nat,
           Room(p, pages, from + ChunkLength(p, chunk)), IsInjective(pages)
    PROVE  RowsIn(WriteChunk(p, pages, from, chunk), pages, from + ChunkLength(p, chunk))
             = RowsIn(p, pages, from) \o ChunkRows(p, chunk)
<1> DEFINE k == ChunkLength(p, chunk)
           length == from + k
           q == WriteChunk(p, pages, from, chunk)
           data == DataWith(p, pages, from, chunk)
           Row == 1..RowElements(p)
           X(i) == (i - 1) \div p.trailing
           E(i) == (i - 1) % p.trailing
           all == RowsIn(q, pages, length)
           old == RowsIn(p, pages, from)
           new == ChunkRows(p, chunk)
<1>1. k \in Nat /\ length \in Nat
  OBVIOUS
<1>2. PoolInv(p) /\ p.prefix \in Nat \ {0} /\ p.trailing \in Nat \ {0}
  BY RoomFacts
<1>3. SamePages(p, q, pages) /\ q.data = data /\ Begins(pages, pages)
  BY <1>2, WrittenPool DEF Begins
<1>4. \A i \in Row : X(i) \in 0..(p.prefix - 1) /\ E(i) \in 0..(p.trailing - 1)
  BY <1>2, ElementFacts DEF RowElements
<1>5. old = [g \in 1..from |-> [i \in Row |-> p.data[Place(p, pages, X(i), g - 1, E(i))]]]
  BY DEF RowsIn
<1>6. all = [g \in 1..length |-> [i \in Row |-> data[Place(q, pages, X(i), g - 1, E(i))]]]
  <2>1. q.trailing = p.trailing /\ RowElements(q) = RowElements(p)
    BY <1>3 DEF SamePages, RowElements
  <2> HIDE DEF q, data
  <2> QED BY <1>3, <2>1 DEF RowsIn
<1>7. new = [g \in 1..k |-> [i \in Row |-> chunk[(X(i) * k + g - 1) * p.trailing + E(i) + 1]]]
  BY DEF ChunkRows, RowElements
<1>8. ASSUME NEW g \in 0..(length - 1), NEW i \in Row
      PROVE  Place(q, pages, X(i), g, E(i)) = Place(p, pages, X(i), g, E(i))
  <2> HIDE DEF q, X, E
  <2>1. X(i) \in 0..(p.prefix - 1) /\ E(i) \in 0..(p.trailing - 1)
    BY <1>4
  <2> QED BY <1>3, <2>1, SamePlace
<1>14. ASSUME NEW x \in 0..(p.prefix - 1), NEW e \in 0..(p.trailing - 1)
       PROVE  /\ \A g \in 0..(from - 1) :
                   data[Place(p, pages, x, g, e)] = p.data[Place(p, pages, x, g, e)]
              /\ \A h \in 0..(k - 1) :
                   data[Place(p, pages, x, from + h, e)] = chunk[(x * k + h) * p.trailing + e + 1]
  <2>1. ReadAfter(p, pages, from, chunk, x, e)
    BY AppendedPlaces
  <2> QED BY <2>1 DEF ReadAfter
<1>9. ASSUME NEW i \in Row
      PROVE  /\ \A g \in 0..(from - 1) :
                  data[Place(p, pages, X(i), g, E(i))] = p.data[Place(p, pages, X(i), g, E(i))]
             /\ \A h \in 0..(k - 1) :
                  data[Place(p, pages, X(i), from + h, E(i))] = chunk[(X(i) * k + h) * p.trailing + E(i) + 1]
  <2> DEFINE x == X(i)
             e == E(i)
  <2>1. x \in 0..(p.prefix - 1) /\ e \in 0..(p.trailing - 1)
    BY <1>4
  <2> HIDE DEF x, e, data, k
  <2>2. /\ \A g \in 0..(from - 1) :
             data[Place(p, pages, x, g, e)] = p.data[Place(p, pages, x, g, e)]
        /\ \A h \in 0..(k - 1) :
             data[Place(p, pages, x, from + h, e)] = chunk[(x * k + h) * p.trailing + e + 1]
    BY <1>14, <2>1
  <2> QED BY <2>2 DEF x, e
<1> HIDE DEF all, old, new, data, q, Row, E
<1>10. ASSUME NEW g \in 1..from PROVE all[g] = old[g]
  <2> DEFINE h == g - 1
  <2>1. h \in 0..(from - 1) /\ h \in 0..(length - 1) /\ g \in 1..length
    BY <1>1
  <2> HIDE DEF X, h, length, k
  <2>2. all[g] = [i \in Row |-> data[Place(q, pages, X(i), h, E(i))]]
    BY <1>6, <2>1 DEF h
  <2>3. old[g] = [i \in Row |-> p.data[Place(p, pages, X(i), h, E(i))]]
    BY <1>5 DEF h
  <2>4. \A i \in Row : data[Place(q, pages, X(i), h, E(i))] = p.data[Place(p, pages, X(i), h, E(i))]
    BY <1>8, <1>9, <2>1
  <2> QED BY <2>2, <2>3, <2>4
<1>11. ASSUME NEW g \in 1..k PROVE all[from + g] = new[g]
  <2> DEFINE h == g - 1
             l == from + h
             m == from + g
  <2>1. h \in 0..(k - 1) /\ l \in 0..(length - 1) /\ m \in 1..length /\ m - 1 = l
    <3>1. k \in Nat
      BY <1>1
    <3> HIDE DEF k
    <3> QED BY <3>1
  <2>2. l = from + h
    OBVIOUS
  <2> HIDE DEF l
  <2>3. all[m] = [i \in Row |-> data[Place(q, pages, X(i), l, E(i))]]
    <3> HIDE DEF X, length, k, m
    <3> QED BY <1>6, <2>1
  <2>4. new[g] = [i \in Row |-> chunk[(X(i) * k + h) * p.trailing + E(i) + 1]]
    <3>1. \A i \in Row : X(i) * k + g - 1 = X(i) * k + h
      <4>1. k \in Nat /\ \A i \in Row : X(i) \in Nat
        BY <1>1, <1>4
      <4> HIDE DEF X, k, h
      <4>2. \A i \in Row : X(i) * k \in Nat
        BY <4>1
      <4>3. \A i \in Row : X(i) * k + g - 1 = X(i) * k + h
        <5> TAKE i \in Row
        <5> DEFINE z == X(i) * k
        <5>1. z \in Nat
          BY <4>2
        <5> HIDE DEF z
        <5>2. z + g - 1 = z + h
          BY <5>1 DEF h
        <5> QED BY <5>2 DEF z
      <4> QED BY <4>3
    <3> HIDE DEF X, k, h
    <3> QED BY <1>7, <3>1
  <2>5. \A i \in Row : data[Place(q, pages, X(i), l, E(i))] = chunk[(X(i) * k + h) * p.trailing + E(i) + 1]
    <3> TAKE i \in Row
    <3> HIDE DEF X, k, h, length
    <3>1. Place(q, pages, X(i), l, E(i)) = Place(p, pages, X(i), l, E(i))
      BY <1>8, <2>1
    <3>2. data[Place(p, pages, X(i), from + h, E(i))] = chunk[(X(i) * k + h) * p.trailing + E(i) + 1]
      BY <1>9, <2>1
    <3> QED BY <2>2, <3>1, <3>2
  <2> HIDE DEF X, k, h
  <2> QED BY <2>3, <2>4, <2>5
<1>12. Listed(old, from) /\ Listed(new, k) /\ Listed(all, from + k)
  <2> HIDE DEF X, k
  <2> QED BY <1>5, <1>6, <1>7 DEF length, Listed
<1>13. all = old \o new
  <2> HIDE DEF X, k
  <2>1. \A g \in 1..from : all[g] = old[g]
    BY <1>10
  <2>2. \A g \in 1..k : all[from + g] = new[g]
    BY <1>11
  <2> QED BY <1>1, <1>12, <2>1, <2>2, ConcatIs
<1> QED BY <1>13 DEF all, old, new, q, length, k

-----------------------------------------------------------------------------
\* RowsOf reads them.
LEMMA RowsAre ==
    ASSUME PoolInv(pool), NEW t, tensors[t] # NoTensor, tensors[t].length \in Nat
    PROVE  RowsOf(t) = <<RowsIn(pool, tensors[t].pages, tensors[t].length)>>
<1>1. pool.prefix \in Nat \ {0} /\ pool.trailing \in Nat \ {0}
  BY PoolFacts DEF PoolInv
<1> DEFINE length == tensors[t].length
           data == LaidOut(pool, tensors[t].pages, length)
<1>2. ReadPaged(t) = data
  BY DEF ReadPaged, LaidOut
<1>3. RowsOf(t) = <<[g \in 1..length |->
                      [i \in 1..(pool.prefix * pool.trailing) |->
                         data[(((((i - 1) \div pool.trailing) * length) + g - 1) * pool.trailing)
                                + ((i - 1) % pool.trailing) + 1]]]>>
  <2> HIDE DEF data
  <2> QED BY <1>2 DEF RowsOf
<1>4. [g \in 1..length |->
        [i \in 1..(pool.prefix * pool.trailing) |->
           data[(((((i - 1) \div pool.trailing) * length) + g - 1) * pool.trailing)
                  + ((i - 1) % pool.trailing) + 1]]] = RowsIn(pool, tensors[t].pages, length)
  BY <1>1, ReadIs
<1> QED BY <1>3, <1>4

\* While PagesInv holds, RowsOf is those rows of the tensors that live.
LEMMA RowsInv ==
    PagesInv => \A t \in PagedTensors :
                  RowsOf(t) = IF t \in Live THEN <<RowsIn(pool, tensors[t].pages, tensors[t].length)>> ELSE <<>>
<1> SUFFICES ASSUME PagesInv, NEW t \in PagedTensors
             PROVE  RowsOf(t) = IF t \in Live THEN <<RowsIn(pool, tensors[t].pages, tensors[t].length)>> ELSE <<>>
  OBVIOUS
<1>1. CASE t \in Live
  <2>1. PoolInv(pool) /\ tensors[t] # NoTensor /\ tensors[t].length \in Nat
    BY <1>1, OfTensor DEF Live
  <2> QED BY <1>1, <2>1, RowsAre
<1>2. CASE t \notin Live
  <2>1. tensors[t] = NoTensor
    BY <1>2 DEF Live
  <2> QED BY <1>2, <2>1 DEF RowsOf
<1> QED BY <1>1, <1>2

LEMMA RowsInvNext ==
    ASSUME PagesInv'
    PROVE  \A t \in PagedTensors :
             RowsOf(t)' = IF t \in Live' THEN <<RowsIn(pool', tensors'[t].pages, tensors'[t].length)>> ELSE <<>>
<1>1. (PagesInv => \A t \in PagedTensors :
                     RowsOf(t) = IF t \in Live THEN <<RowsIn(pool, tensors[t].pages, tensors[t].length)>> ELSE <<>>)'
  BY RowsInv, PTL
<1> QED BY <1>1

\* A tensor's pages have room for its rows.
LEMMA LiveRoom ==
    ASSUME PagesInv, NEW t \in Live
    PROVE  Room(pool, tensors[t].pages, tensors[t].length)
<1>1. /\ PoolInv(pool) /\ tensors[t].pages \in Seq(Nat) /\ tensors[t].length \in Nat
      /\ ToSet(tensors[t].pages) \subseteq DOMAIN pool.offsets
      /\ pool # NoPool
  BY OfTensor
<1>2. tensors[t].length <= Len(tensors[t].pages) * pool.pageSize
  BY <1>1 DEF PagesInv, TensorInv
<1> QED BY <1>1, <1>2 DEF Room

\* A tensor that is left alone has the rows it had when the pool grows.
LEMMA KeptRows ==
    ASSUME PagesInv, PagesInv', NEW u \in Live, Grown(pool, pool'), tensors'[u] = tensors[u]
    PROVE  RowsOf(u)' = RowsOf(u) /\ u \in PagedTensors
<1>1. u \in PagedTensors /\ u \in Live'
  BY DEF Live
<1>2. Room(pool, tensors[u].pages, tensors[u].length)
  BY LiveRoom
<1>3. RowsIn(pool', tensors[u].pages, tensors[u].length) = RowsIn(pool, tensors[u].pages, tensors[u].length)
  <2>1. Begins(tensors[u].pages, tensors[u].pages)
    BY DEF Begins
  <2> QED BY <1>2, <2>1, GrownRows
<1>4. RowsOf(u) = <<RowsIn(pool, tensors[u].pages, tensors[u].length)>>
  BY <1>1, RowsInv
<1>5. RowsOf(u)' = <<RowsIn(pool', tensors'[u].pages, tensors'[u].length)>>
  BY <1>1, RowsInvNext
<1> QED BY <1>1, <1>3, <1>4, <1>5

\* A step that changes the rows of one tensor as RowStore lets it, or of none.
LEMMA OneTensor ==
    ASSUME NEW t \in PagedTensors, \A u \in PagedTensors \ {t} : RowsOf(u)' = RowsOf(u),
           \/ RowsOf(t) = <<>> /\ RowsOf(t)' # <<>>
           \/ RowsOf(t) # <<>> /\ RowsOf(t)' = <<>>
           \/ /\ RowsOf(t) # <<>>
              /\ \E desc \in PoolDescs : \E chunk \in Chunks[RowElements(desc)] :
                   RowsOf(t)' = <<RowsOf(t)[1] \o ChunkRows(desc, chunk)>>
    PROVE  Abstract!Next
<1> DEFINE rows == [u \in PagedTensors |-> RowsOf(u)]
           Batches == UNION {{ChunkRows(desc, chunk) : chunk \in Chunks[RowElements(desc)]} : desc \in PoolDescs}
<1>1. rows[t] = RowsOf(t) /\ rows'[t] = RowsOf(t)'
  OBVIOUS
<1>2. rows' = [rows EXCEPT ![t] = rows'[t]]
  OBVIOUS
<1>3. ASSUME NEW desc \in PoolDescs, NEW chunk \in Chunks[RowElements(desc)]
      PROVE  ChunkRows(desc, chunk) \in Batches
  OBVIOUS
<1>4. \/ rows[t] = <<>> /\ rows'[t] # <<>>
      \/ rows[t] # <<>> /\ \E batch \in Batches : rows'[t] = <<rows[t][1] \o batch>>
      \/ rows[t] # <<>> /\ rows'[t] = <<>>
  <2> HIDE DEF rows, Batches
  <2> QED BY <1>1, <1>3
<1> QED BY <1>2, <1>4 DEF Abstract!Next, Abstract!Alloc, Abstract!Extend, Abstract!Dealloc

\* Nothing of RowStore changes.
LEMMA NoTensorChanged ==
    ASSUME \A u \in PagedTensors : RowsOf(u)' = RowsOf(u)
    PROVE  UNCHANGED [t \in PagedTensors |-> RowsOf(t)]
OBVIOUS

LEMMA NoTensorLeft ==
    ASSUME PagesInv, PagesInv', Live = {}, Live' = {}
    PROVE  UNCHANGED [t \in PagedTensors |-> RowsOf(t)]
<1>1. \A u \in PagedTensors : RowsOf(u) = <<>> /\ RowsOf(u)' = <<>>
  BY RowsInv, RowsInvNext
<1> QED BY <1>1, NoTensorChanged

\* Each operation is a step of RowStore, or none.
LEMMA AllocRows ==
    ASSUME PagesInv, PagesInv', NEW t \in PagedTensors, NEW length \in Lengths, AllocPaged(t, length)
    PROVE  [Abstract!Next]_[u \in PagedTensors |-> RowsOf(u)]
<1> DEFINE r == Reserve(pool, <<>>, CeilDiv(length, pool.pageSize))
<1>1. /\ pool # NoPool /\ tensors[t] = NoTensor /\ pool' = r.pool
      /\ tensors' = IF r.ok THEN [tensors EXCEPT ![t] = [pages |-> r.pages, length |-> length]] ELSE tensors
  BY DEF AllocPaged
<1>2. length \in Nat
  BY PagesAssumption
<1>3. Grown(pool, pool')
  BY <1>1, <1>2, AllocReserved DEF Taken
<1> HIDE DEF r
<1>4. tensors = [u \in PagedTensors |-> tensors[u]]
  BY DEF PagesInv
<1>5. \A u \in PagedTensors \ {t} : tensors'[u] = tensors[u]
  BY <1>1, <1>4
<1>6. \A u \in PagedTensors \ {t} : RowsOf(u)' = RowsOf(u)
  <2> TAKE u \in PagedTensors \ {t}
  <2>1. tensors'[u] = tensors[u]
    BY <1>5
  <2>2. CASE u \in Live
    BY <1>3, <2>1, <2>2, KeptRows
  <2>3. CASE u \notin Live
    <3>1. u \notin Live'
      BY <2>1, <2>3 DEF Live
    <3> QED BY <2>3, <3>1, RowsInv, RowsInvNext
  <2> QED BY <2>2, <2>3
<1>7. RowsOf(t) = <<>>
  <2>1. t \notin Live
    BY <1>1 DEF Live
  <2> QED BY <2>1, RowsInv
<1>8. CASE r.ok
  <2>1. tensors'[t] = [pages |-> r.pages, length |-> length]
    BY <1>1, <1>4, <1>8
  <2>2. t \in Live'
    BY <1>2, <2>1, IsTensor DEF Live
  <2>3. RowsOf(t)' = <<RowsIn(pool', tensors'[t].pages, tensors'[t].length)>>
    BY <2>2, RowsInvNext
  <2>4. RowsOf(t)' # <<>>
    BY <2>3
  <2> QED BY <1>6, <1>7, <2>4, OneTensor
<1>9. CASE ~r.ok
  <2>1. t \notin Live'
    BY <1>1, <1>9 DEF Live
  <2>2. RowsOf(t)' = <<>>
    BY <2>1, RowsInvNext
  <2>3. \A u \in PagedTensors : RowsOf(u)' = RowsOf(u)
    BY <1>6, <1>7, <2>2
  <2> QED BY <2>3, NoTensorChanged
<1> QED BY <1>8, <1>9

LEMMA DeallocRows ==
    ASSUME PagesInv, PagesInv', NEW t \in PagedTensors, DeallocPaged(t)
    PROVE  [Abstract!Next]_[u \in PagedTensors |-> RowsOf(u)]
<1>1. /\ t \in Live /\ lost' = lost
      /\ pool' = [pool EXCEPT !.free = @ \o tensors[t].pages]
      /\ tensors' = [tensors EXCEPT ![t] = NoTensor]
  BY DEF DeallocPaged
<1>2. /\ Live' = Live \ {t} /\ Grown(pool, pool')
      /\ \A u \in Live' : tensors'[u] = tensors[u]
  BY <1>1, GivenBackOwnedOnce
<1>3. \A u \in PagedTensors \ {t} : RowsOf(u)' = RowsOf(u)
  <2> TAKE u \in PagedTensors \ {t}
  <2>1. CASE u \in Live
    BY <1>2, <2>1, KeptRows
  <2>2. CASE u \notin Live
    BY <1>2, <2>2, RowsInv, RowsInvNext
  <2> QED BY <2>1, <2>2
<1>4. RowsOf(t) = <<RowsIn(pool, tensors[t].pages, tensors[t].length)>>
  BY <1>1, RowsInv
<1>5. RowsOf(t) # <<>> /\ RowsOf(t)' = <<>>
  <2>1. RowsOf(t)' = <<>>
    BY <1>2, RowsInvNext
  <2> QED BY <1>4, <2>1
<1> QED BY <1>3, <1>5, OneTensor

\* The rows of a chunk are the same whichever pool of its shape they are for.
LEMMA SameChunk ==
    ASSUME NEW p, NEW q, p.prefix = q.prefix, p.trailing = q.trailing, NEW chunk
    PROVE  ChunkLength(p, chunk) = ChunkLength(q, chunk) /\ ChunkRows(p, chunk) = ChunkRows(q, chunk)
<1>1. RowElements(p) = RowElements(q)
  BY DEF RowElements
<1>2. ChunkLength(p, chunk) = ChunkLength(q, chunk)
  BY <1>1 DEF ChunkLength
<1> QED BY <1>2 DEF ChunkRows

\* Where pages lie that were taken for a tensor that had these.
LEMMA TakenRoom ==
    ASSUME NEW p, PoolInv(p), NEW pages \in Seq(Nat), ToSet(pages) \subseteq DOMAIN p.offsets, NEW r, Taken(p, pages, r),
           ToSet(p.free) \subseteq DOMAIN p.offsets, NEW length \in Nat, length <= Len(r.pages) * p.pageSize
    PROVE  /\ Room(r.pool, r.pages, length) /\ Begins(pages, r.pages) /\ IsInjective(r.pages)
           /\ r.pool.pageSize = p.pageSize
<1>1. /\ PoolInv(r.pool) /\ Grown(p, r.pool) /\ r.pages \in Seq(Nat) /\ IsInjective(r.pages)
      /\ Begins(pages, r.pages)
  BY DEF Taken, Begins
<1>2. r.pool.pageSize = p.pageSize
  BY <1>1 DEF Grown
<1>3. DOMAIN r.pool.offsets = DOMAIN p.offsets \cup NewPages(p, r.pool)
  BY TakenDomain
<1>4. ToSet(r.pages) \subseteq DOMAIN r.pool.offsets
  BY <1>3 DEF Taken
<1> QED BY <1>1, <1>2, <1>4 DEF Room

\* A tensor with pages of its own when those were taken for another.
LEMMA ApartFromTaken ==
    ASSUME PagesInv, NEW t \in Live, NEW u \in Live, u # t, NEW r, Taken(pool, tensors[t].pages, r)
    PROVE  /\ ToSet(r.pages) \cap ToSet(tensors[u].pages) = {}
           /\ Room(r.pool, tensors[u].pages, tensors[u].length)
           /\ RowsIn(r.pool, tensors[u].pages, tensors[u].length) = RowsIn(pool, tensors[u].pages, tensors[u].length)
<1>1. /\ PoolInv(pool) /\ pool # NoPool /\ ToSet(tensors[u].pages) \subseteq DOMAIN pool.offsets
      /\ \A x \in ToSet(tensors[u].pages) : x \notin ToSet(pool.free)
  BY OfTensor
<1>2. OwnedOnce
  BY <1>1 DEF PagesInv
<1>3. ToSet(tensors[u].pages) \cap ToSet(tensors[t].pages) = {}
  BY <1>2 DEF OwnedOnce, Owned
<1>4. ASSUME NEW x \in ToSet(tensors[u].pages) PROVE x \notin ToSet(r.pages)
  BY <1>1, <1>3, TakenApart
<1>5. Room(pool, tensors[u].pages, tensors[u].length)
  BY LiveRoom
<1>6. PoolInv(r.pool) /\ Grown(pool, r.pool)
  BY DEF Taken
<1>7. DOMAIN r.pool.offsets = DOMAIN pool.offsets \cup NewPages(pool, r.pool)
  BY <1>1, TakenDomain
<1>8. Room(r.pool, tensors[u].pages, tensors[u].length)
  BY <1>1, <1>5, <1>6, <1>7 DEF Room, Grown
<1>9. Begins(tensors[u].pages, tensors[u].pages)
  BY DEF Begins
<1>10. RowsIn(r.pool, tensors[u].pages, tensors[u].length) = RowsIn(pool, tensors[u].pages, tensors[u].length)
  BY <1>5, <1>6, <1>9, GrownRows
<1> QED BY <1>4, <1>8, <1>10

LEMMA AppendRows ==
    ASSUME PagesInv, PagesInv', NEW t \in Live, NEW chunk \in Chunks[RowElements(pool)], AppendPaged(t, chunk)
    PROVE  [Abstract!Next]_[u \in PagedTensors |-> RowsOf(u)]
<1> DEFINE from == tensors[t].length
           pages == tensors[t].pages
           k == ChunkLength(pool, chunk)
           r == Reserve(pool, pages, CeilDiv(from + k, pool.pageSize))
           new == IF r.ok THEN from + k ELSE from
<1>1. /\ pool' = IF r.ok THEN WriteChunk(r.pool, r.pages, from, chunk) ELSE r.pool
      /\ tensors' = [tensors EXCEPT ![t] = [pages |-> r.pages, length |-> new]]
  BY DEF AppendPaged
<1>2. /\ pool # NoPool /\ PoolInv(pool) /\ t \in PagedTensors /\ from \in Nat
      /\ pages \in Seq(Nat) /\ ToSet(pages) \subseteq DOMAIN pool.offsets
  BY OfTensor
<1>3. PICK desc \in PoolDescs : Described(desc, pool)
  BY <1>2 DEF PagesInv
<1>4. k \in Nat /\ RowElements(pool) = RowElements(desc)
  BY <1>2, <1>3, ChunkFacts
<1>5. from + k \in Nat
  BY <1>2, <1>4
<1>6. /\ Taken(pool, pages, r) /\ (r.ok => from + k <= Len(r.pages) * pool.pageSize)
      /\ from <= Len(r.pages) * pool.pageSize
  BY <1>5, AppendReserved
<1> HIDE DEF r, k
<1>7. PoolInv(r.pool) /\ Grown(pool, r.pool) /\ ToSet(pool.free) \subseteq DOMAIN pool.offsets
  BY <1>2, <1>6 DEF Taken, PoolInv
<1>8. Begins(pages, r.pages) /\ IsInjective(r.pages) /\ (r.ok => Room(r.pool, r.pages, from + k))
  BY <1>2, <1>5, <1>6, <1>7, TakenRoom
<1>9. ChunkLength(r.pool, chunk) = k /\ ChunkRows(r.pool, chunk) = ChunkRows(desc, chunk)
  <2>1. Described(desc, r.pool)
    BY <1>3, <1>7, StaysDescribed
  <2> QED BY <1>3, <2>1, SameChunk DEF Described, k
<1>10. /\ tensors'[t] = [pages |-> r.pages, length |-> new]
       /\ \A u \in PagedTensors \ {t} : tensors'[u] = tensors[u]
  <2>1. tensors = [u \in PagedTensors |-> tensors[u]]
    BY DEF PagesInv
  <2> HIDE DEF new
  <2> QED BY <1>1, <1>2, <2>1
<1>11. t \in Live' /\ tensors'[t].pages = r.pages /\ tensors'[t].length = new
  <2>1. new \in Nat
    BY <1>2, <1>5
  <2> HIDE DEF new
  <2>2. tensors'[t] # NoTensor
    BY <1>10, <2>1, IsTensor
  <2> QED BY <1>2, <1>10, <2>2 DEF Live
<1>12. RowsOf(t) = <<RowsIn(pool, pages, from)>> /\ RowsOf(t)' = <<RowsIn(pool', r.pages, new)>>
  <2>1. RowsOf(t) = <<RowsIn(pool, pages, from)>>
    BY <1>2, RowsInv
  <2>2. RowsOf(t)' = <<RowsIn(pool', tensors'[t].pages, tensors'[t].length)>>
    BY <1>2, <1>11, RowsInvNext
  <2> QED BY <1>11, <2>1, <2>2
<1>13. RowsIn(r.pool, r.pages, from) = RowsIn(pool, pages, from)
  <2>1. Room(pool, pages, from)
    BY LiveRoom
  <2> QED BY <1>7, <1>8, <2>1, GrownRows
\* The other tensors.
<1>14. ASSUME NEW u \in PagedTensors \ {t} PROVE RowsOf(u)' = RowsOf(u)
  <2>1. tensors'[u] = tensors[u]
    BY <1>10
  <2>2. CASE u \notin Live
    <3>1. u \notin Live'
      BY <2>1, <2>2 DEF Live
    <3> QED BY <2>2, <3>1, RowsInv, RowsInvNext
  <2>3. CASE u \in Live
    <3> DEFINE theirs == tensors[u].pages
               length == tensors[u].length
    <3>1. u \in Live'
      BY <2>1, <2>3 DEF Live
    <3>2. RowsOf(u) = <<RowsIn(pool, theirs, length)>> /\ RowsOf(u)' = <<RowsIn(pool', theirs, length)>>
      BY <2>1, <2>3, <3>1, RowsInv, RowsInvNext
    <3>3. /\ ToSet(r.pages) \cap ToSet(theirs) = {} /\ Room(r.pool, theirs, length)
          /\ RowsIn(r.pool, theirs, length) = RowsIn(pool, theirs, length)
      BY <1>6, <2>3, ApartFromTaken
    <3>4. CASE r.ok
      <4>1. RowsIn(WriteChunk(r.pool, r.pages, from, chunk), theirs, length) = RowsIn(r.pool, theirs, length)
        <5>1. Appends(r.pool, r.pages, from, chunk)
          BY <1>2, <1>4, <1>8, <1>9, <3>4 DEF Appends
        <5>2. Apart(r.pages, theirs)
          BY <3>3 DEF Apart
        <5> HIDE DEF from, theirs, length
        <5> QED BY <3>3, <5>1, <5>2, UntouchedRows
      <4> QED BY <1>1, <3>2, <3>3, <3>4, <4>1
    <3>5. CASE ~r.ok
      BY <1>1, <3>2, <3>3, <3>5
    <3> QED BY <3>4, <3>5
  <2> QED BY <2>2, <2>3
\* The tensor itself.
<1>15. CASE r.ok
  <2>1. RowsIn(WriteChunk(r.pool, r.pages, from, chunk), r.pages, from + k)
          = RowsIn(r.pool, r.pages, from) \o ChunkRows(r.pool, chunk)
    <3>1. /\ from \in Nat /\ ChunkLength(r.pool, chunk) \in Nat
          /\ Room(r.pool, r.pages, from + ChunkLength(r.pool, chunk))
      BY <1>2, <1>4, <1>8, <1>9, <1>15
    <3> HIDE DEF from
    <3>2. RowsIn(WriteChunk(r.pool, r.pages, from, chunk), r.pages, from + ChunkLength(r.pool, chunk))
            = RowsIn(r.pool, r.pages, from) \o ChunkRows(r.pool, chunk)
      BY <1>8, <3>1, AppendedRows
    <3> QED BY <1>9, <3>2
  <2>2. RowsIn(pool', r.pages, new) = RowsIn(pool, pages, from) \o ChunkRows(desc, chunk)
    BY <1>1, <1>9, <1>13, <1>15, <2>1
  <2>3. RowsOf(t)' = <<RowsOf(t)[1] \o ChunkRows(desc, chunk)>> /\ RowsOf(t) # <<>>
    BY <1>12, <2>2
  <2>4. chunk \in Chunks[RowElements(desc)]
    BY <1>4
  <2> QED BY <1>2, <1>14, <2>3, <2>4, OneTensor
<1>16. CASE ~r.ok
  <2>1. RowsIn(pool', r.pages, new) = RowsIn(pool, pages, from)
    BY <1>1, <1>13, <1>16
  <2>2. \A u \in PagedTensors : RowsOf(u)' = RowsOf(u)
    BY <1>12, <1>14, <2>1
  <2> QED BY <2>2, NoTensorChanged
<1> QED BY <1>15, <1>16

\* Whatever pages they share with tensors that are gone, and wherever those lie,
\* paged tensors are lists of rows of their own: an append adds the rows of its
\* chunk to one of them, and no operation shows in another.
THEOREM PagesAreRows == PagesSpec => ImplementsRows
<1>1. PagesInit => Abstract!Init
  <2> SUFFICES ASSUME PagesInit PROVE Abstract!Init
    OBVIOUS
  <2>1. \A t \in PagedTensors : RowsOf(t) = <<>>
    BY DEF PagesInit, RowsOf
  <2> QED BY <2>1 DEF Abstract!Init
<1>2. PagesInv /\ PagesInv' /\ [PagesNext(PoolDescs)]_pagesVars
        => [Abstract!Next]_[t \in PagedTensors |-> RowsOf(t)]
  <2> SUFFICES ASSUME PagesInv, PagesInv', [PagesNext(PoolDescs)]_pagesVars
               PROVE  [Abstract!Next]_[t \in PagedTensors |-> RowsOf(t)]
    OBVIOUS
  <2>1. ASSUME NEW desc \in PoolDescs, CreatePagedPool(desc)
        PROVE  [Abstract!Next]_[t \in PagedTensors |-> RowsOf(t)]
    <3>1. Live = {} /\ Live' = {}
      BY <2>1, CreateKeeps
    <3> QED BY <3>1, NoTensorLeft
  <2>2. CASE DestroyPagedPool
    <3>1. Live = {} /\ Live' = {}
      BY <2>2, DestroyKeeps
    <3> QED BY <3>1, NoTensorLeft
  <2>3. ASSUME NEW t \in PagedTensors, NEW length \in Lengths, AllocPaged(t, length)
        PROVE  [Abstract!Next]_[u \in PagedTensors |-> RowsOf(u)]
    BY <2>3, AllocRows
  <2>4. ASSUME NEW t \in PagedTensors, DeallocPaged(t)
        PROVE  [Abstract!Next]_[u \in PagedTensors |-> RowsOf(u)]
    BY <2>4, DeallocRows
  <2>5. ASSUME NEW t \in Live, NEW chunk \in Chunks[RowElements(pool)], AppendPaged(t, chunk)
        PROVE  [Abstract!Next]_[u \in PagedTensors |-> RowsOf(u)]
    BY <2>5, AppendRows
  <2>6. CASE UNCHANGED pagesVars
    <3>1. pool' = pool /\ tensors' = tensors
      BY <2>6 DEF pagesVars
    <3>2. \A u \in PagedTensors : RowsOf(u)' = RowsOf(u)
      BY <3>1 DEF RowsOf, ReadPaged
    <3> QED BY <3>2, NoTensorChanged
  <2> QED BY <2>1, <2>2, <2>3, <2>4, <2>5, <2>6 DEF PagesNext
<1>3. PagesSpec => Abstract!Spec
  BY <1>1, <1>2, PagesStay, PTL DEF PagesSpec, Abstract!Spec
<1> QED BY <1>3 DEF ImplementsRows
=============================================================================
