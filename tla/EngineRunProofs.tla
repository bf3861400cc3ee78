--------------------------- MODULE EngineRunProofs ---------------------------
(***************************************************************************)
(* Proofs about EngineRun, for every graph, number of devices, runs and    *)
(* faults: what the engine keeps of the devices is true.                   *)
(***************************************************************************)
EXTENDS EngineRun, SequenceTheorems, FiniteSetTheorems, WellFoundedInduction, TLAPS

Caches == {v \in Ops(graph) : graph.kind[v] = "cache"}
WeightBuffers == {<<0, weights[name]>> : name \in DOMAIN weights}

\* The values bound to a buffer.
BoundTo(bound, b) == {v \in DOMAIN bound : bound[v] = b}

\* The state s of a run keeps true books of the allocated buffers H, of which
\* W are the weights.  (The graph has the operations O.)
Books(s, O, H, W) ==
    /\ DOMAIN s = {"bound", "refs", "retired", "paged"}
    /\ s = [bound |-> s.bound, refs |-> s.refs, retired |-> s.retired, paged |-> s.paged]
    /\ s.bound \in [DOMAIN s.bound -> DOMAIN s.refs] /\ DOMAIN s.bound \subseteq O
    /\ s.refs \in [DOMAIN s.refs -> [count : Nat \ {0}, owned : BOOLEAN]]
    /\ DOMAIN s.refs \subseteq H
    /\ \A b \in DOMAIN s.refs : /\ s.refs[b].count = Cardinality(BoundTo(s.bound, b))
                                /\ s.refs[b].owned <=> b \notin W
    /\ s.retired = <<>>      \* nothing is ever bound again

TypeInv ==
    /\ graph \in Graphs /\ plan = Partition(graph)
    /\ stage \in {"idle", "loading", "bind", "ops", "read", "outputs"}
    /\ at \in Nat \ {0} /\ (stage \in {"bind", "ops"} => at \in Ops(graph))
    /\ hostWeights \in BOOLEAN
    /\ outcome \in {"none", "running", "ok", "error"}
    /\ runs \in 0..MaxRuns
    /\ before \subseteq Buffers

HeapInv ==
    /\ nextBuffer \in [Devices -> Nat \ {0}]
    /\ \A b \in DOMAIN heap : b \in Buffers /\ b[2] < nextBuffer[b[1]]

WeightsHeld ==
    /\ weights \in [DOMAIN weights -> Nat]
    /\ \A name \in DOMAIN weights : weights[name] < nextBuffer[0]
    /\ \A name \in Resident : /\ <<0, weights[name]>> \in DOMAIN heap
                              /\ heap[<<0, weights[name]>>] = name

\* A run has all weights, or loads those of the graph itself.
WeightsThere ==
    /\ runs < MaxRuns \/ stage \notin {"idle", "loading"} => Resident = DOMAIN weights
    /\ stage \notin {"idle", "loading"} /\ ~hostWeights =>
          \A v \in Ops(graph) : graph.kind[v] = "weight" => graph.name[v] \in DOMAIN weights

StateBooks == Books(state, Ops(graph), DOMAIN heap, WeightBuffers)

\* The kernels of a run write into buffers of the run.
StateInv ==
    /\ stage \in {"idle", "loading"} => state = FreshState
    /\ \A v \in DOMAIN state.bound :
          /\ graph.kind[v] = "kernel" => state.bound[v] \notin WeightBuffers
          /\ stage = "bind" => v < at /\ graph.kind[v] \in InputKinds
          /\ stage = "ops" /\ graph.kind[v] = "transfer" => v < at

LengthInv ==
    /\ rows \in [Caches -> Nat]
    /\ state.paged \in [DOMAIN state.paged -> Nat] /\ DOMAIN state.paged \subseteq Caches
    /\ stage \in {"bind", "ops", "read"} =>
          \A c \in DOMAIN state.paged : state.paged[c] = rows[c]

ShownIn(g, v) ==
    LET shown[u \in Ops(g)] ==
        IF IsAlias(g, u) THEN shown[AliasSource(g, u)]
        ELSE IF g.kind[u] = "weight" THEN g.name[u] ELSE u
    IN  shown[v]

IInv ==
    /\ TypeInv /\ HeapInv /\ WeightsHeld /\ WeightsThere
    /\ StateBooks /\ StateInv /\ LengthInv
-----------------------------------------------------------------------------
(* Induction and recursion over numbers                                     *)

\* A set of numbers has a smallest one.
LEMMA Smallest ==
    ASSUME NEW T \in SUBSET Nat, T # {}
    PROVE  \E x \in T : \A y \in T : x <= y
<1> DEFINE R == OpToRel(<, Nat)
<1>1. IsWellFoundedOn(R, Nat)
  BY NatLessThanWellFounded, Zenon
<1>2. PICK x \in T : \A y \in T : ~(<<y, x>> \in R)
  <2> HIDE DEF R
  <2> QED BY <1>1, WFMin
<1>3. \A y \in T : <<y, x>> \in R <=> y < x
  BY DEF OpToRel
<1>4. \A y \in T : y \in Nat
  OBVIOUS
<1>5. \A y \in T : ~(y < x)
  BY <1>2, <1>3, Zenon
<1> HIDE DEF R
<1> QED BY <1>4, <1>5

\* What holds of a number when it holds of all smaller ones holds of all.
LEMMA ByEarlier ==
    ASSUME NEW n \in Nat, NEW T,
           \A k \in 1..n : (\A j \in 1..(k - 1) : j \in T) => k \in T
    PROVE  \A k \in 1..n : k \in T
<1> SUFFICES ASSUME (1..n) \ T # {} PROVE FALSE
  OBVIOUS
<1>1. PICK x \in (1..n) \ T : \A y \in (1..n) \ T : x <= y
  <2> DEFINE U == (1..n) \ T
  <2>1. U \in SUBSET Nat /\ U # {}
    OBVIOUS
  <2> HIDE DEF U
  <2>2. \E x \in U : \A y \in U : x <= y
    BY <2>1, Smallest
  <2> QED BY <2>2 DEF U
<1>2. \A j \in 1..(x - 1) : j \in T
  BY <1>1
<1> QED BY <1>1, <1>2

LEMMA ByPrevious ==
    ASSUME NEW n \in Nat, NEW T, 0 \in T, \A k \in 1..n : k - 1 \in T => k \in T
    PROVE  \A k \in 0..n : k \in T
<1> SUFFICES ASSUME (0..n) \ T # {} PROVE FALSE
  OBVIOUS
<1>1. PICK x \in (0..n) \ T : \A y \in (0..n) \ T : x <= y
  <2> DEFINE U == (0..n) \ T
  <2>1. U \in SUBSET Nat /\ U # {}
    OBVIOUS
  <2> HIDE DEF U
  <2>2. \E x \in U : \A y \in U : x <= y
    BY <2>1, Smallest
  <2> QED BY <2>2 DEF U
<1>2. x # 0 /\ x - 1 \in T
  BY <1>1
<1> QED BY <1>1, <1>2

\* The values of f before k.
Before(f, k) == [j \in 1..(k - 1) |-> f[j]]

\* f is built by these steps, which stay in D.
Follows(f, n, step) == \A k \in 1..n : f[k] = step[k][Before(f, k)]
StepsIn(D, n, step) == \A k \in 1..n : \A f \in [1..(k - 1) -> D] : step[k][f] \in D

\* A function can be defined by what each value is from those before it.
LEMMA Recursion ==
    ASSUME NEW n \in Nat, NEW D, NEW step, StepsIn(D, n, step)
    PROVE  \E f \in [1..n -> D] : Follows(f, n, step)
<1> USE DEF Follows, StepsIn
<1> DEFINE Good(f, m) == \A k \in 1..m : f[k] = step[k][Before(f, k)]
           T == {m \in 0..n : \E f \in [1..m -> D] : Good(f, m)}
<1>1. 0 \in T
  <2> DEFINE f == [j \in 1..0 |-> 0]
  <2>1. f \in [1..0 -> D] /\ Good(f, 0)
    OBVIOUS
  <2> HIDE DEF f
  <2>2. \E h \in [1..0 -> D] : Good(h, 0)
    <3> HIDE DEF Good
    <3> QED BY <2>1
  <2>3. 0 \in 0..n
    OBVIOUS
  <2> HIDE DEF Good
  <2> QED BY <2>2, <2>3
<1>2. ASSUME NEW m \in 1..n, m - 1 \in T PROVE m \in T
  <2>1. PICK f \in [1..(m - 1) -> D] : Good(f, m - 1)
    BY <1>2
  <2> DEFINE g == [j \in 1..m |-> IF j = m THEN step[m][f] ELSE f[j]]
  <2>2. g \in [1..m -> D]
    OBVIOUS
  <2>3. \A k \in 1..m : Before(g, k) = Before(f, k)
    BY DEF Before
  <2>4. Before(f, m) = f
    BY DEF Before
  <2>5. \A k \in 1..m : g[k] = step[k][Before(g, k)]
    <3> TAKE k \in 1..m
    <3>1. CASE k = m
      BY <2>3, <2>4, <3>1
    <3>2. CASE k # m
      <4>1. k \in 1..(m - 1) /\ g[k] = f[k]
        BY <3>2
      <4> QED BY <2>1, <2>3, <4>1
    <3> QED BY <3>1, <3>2
  <2> HIDE DEF g
  <2> QED BY <2>2, <2>5
<1>3. n \in T
  <2> HIDE DEF T
  <2> QED BY <1>1, <1>2, ByPrevious
<1> QED BY <1>3

\* The same where a value depends on the one before it only.
Iterates(f, n, z, step) == f[0] = z /\ \A k \in 1..n : f[k] = step[k][f[k - 1]]
StaysIn(D, n, step) == \A k \in 1..n : \A x \in D : step[k][x] \in D

LEMMA Iteration ==
    ASSUME NEW n \in Nat, NEW D, NEW z \in D, NEW step, StaysIn(D, n, step)
    PROVE  \E f \in [0..n -> D] : Iterates(f, n, z, step)
<1> DEFINE T == {m \in 0..n : \E f \in [0..m -> D] : Iterates(f, m, z, step)}
<1>1. 0 \in T
  <2> DEFINE f == [j \in 0..0 |-> z]
  <2>1. f \in [0..0 -> D] /\ Iterates(f, 0, z, step)
    BY DEF Iterates
  <2> HIDE DEF f
  <2> QED BY <2>1
<1>2. ASSUME NEW m \in 1..n, m - 1 \in T PROVE m \in T
  <2>1. PICK f \in [0..(m - 1) -> D] : Iterates(f, m - 1, z, step)
    BY <1>2
  <2> DEFINE g == [j \in 0..m |-> IF j = m THEN step[m][f[m - 1]] ELSE f[j]]
  <2>2. g \in [0..m -> D]
    BY DEF StaysIn
  <2>3. Iterates(g, m, z, step)
    <3>1. g[0] = z
      BY <2>1 DEF Iterates
    <3>2. ASSUME NEW k \in 1..m PROVE g[k] = step[k][g[k - 1]]
      <4>1. CASE k = m
        BY <4>1
      <4>2. CASE k # m
        <5>1. k \in 1..(m - 1) /\ g[k] = f[k] /\ g[k - 1] = f[k - 1]
          BY <4>2
        <5> QED BY <2>1, <5>1 DEF Iterates
      <4> QED BY <4>1, <4>2
    <3> HIDE DEF g
    <3> QED BY <3>1, <3>2 DEF Iterates
  <2> HIDE DEF g
  <2> QED BY <2>2, <2>3
<1>3. n \in T
  <2> HIDE DEF T
  <2> QED BY <1>1, <1>2, ByPrevious
<1> QED BY <1>3
-----------------------------------------------------------------------------
(* Graphs                                                                   *)

Size(g) == Len(g.kind)

\* What GraphsAssumption says of one graph.
LEMMA GraphFacts ==
    ASSUME NEW g \in Graphs
    PROVE  /\ Size(g) \in Nat \ {0} /\ Ops(g) = 1..Size(g)
           /\ \A i \in Ops(g) :
                 /\ g.kind[i] \in Kinds /\ g.device[i] \in Devices
                 /\ g.inputs[i] \in Seq(Ops(g)) /\ Reads(g, i) \subseteq Ops(g)
                 /\ g.kind[i] \in InputKinds => g.device[i] = 0
                 /\ g.kind[i] \in {"alias", "append", "transfer"} =>
                       AliasSource(g, i) \in Reads(g, i)
                 /\ g.kind[i] = "append" => g.kind[AliasSource(g, i)] = "cache"
                 /\ \A v \in Reads(g, i) :
                       /\ v < i
                       /\ g.kind[i] # "transfer" => g.device[v] = g.device[i]
                       /\ g.kind[v] \notin {"append", "tuple"}
                       /\ g.kind[v] = "cache" => g.kind[i] \in {"kernel", "append"}
           /\ g.outputs \in Seq(Ops(g)) /\ ToSet(g.outputs) \subseteq Ops(g)
           /\ \A v \in ToSet(g.outputs) : g.kind[v] \notin {"append", "cache"}
<1>1. /\ g.kind \in Seq(Kinds) /\ g.kind # <<>>
      /\ g.inputs \in [Ops(g) -> Seq(Ops(g))]
      /\ g.device \in [Ops(g) -> Devices]
      /\ g.outputs \in Seq(Ops(g))
  BY GraphsAssumption
<1>2. Size(g) \in Nat \ {0} /\ Ops(g) = 1..Size(g)
  BY <1>1, EmptySeq, LenProperties DEF Size, Ops
<1>3. \A i \in Ops(g) : g.kind[i] \in Kinds
  BY <1>1, <1>2, ElementOfSeq DEF Size
<1>4. \A s \in Seq(Ops(g)) : ToSet(s) \subseteq Ops(g)
  BY LenProperties, ElementOfSeq DEF ToSet
<1>5. \A s \in Seq(Ops(g)) : s # <<>> => s[1] \in ToSet(s)
  BY LenProperties, EmptySeq DEF ToSet
<1>6. \A i \in Ops(g) :
         /\ g.kind[i] \in InputKinds => g.device[i] = 0
         /\ g.kind[i] \in {"alias", "append", "transfer"} => g.inputs[i] # <<>>
         /\ g.kind[i] = "append" => g.kind[AliasSource(g, i)] = "cache"
         /\ \A v \in Reads(g, i) :
               /\ v < i
               /\ g.kind[i] # "transfer" => g.device[v] = g.device[i]
               /\ g.kind[v] \notin {"append", "tuple"}
               /\ g.kind[v] = "cache" => g.kind[i] \in {"kernel", "append"}
  BY GraphsAssumption DEF AliasSource
<1>7. \A v \in ToSet(g.outputs) : g.kind[v] \notin {"append", "cache"}
  BY GraphsAssumption
<1>8. \A i \in Ops(g) : /\ g.inputs[i] \in Seq(Ops(g)) /\ Reads(g, i) \subseteq Ops(g)
                        /\ g.device[i] \in Devices
  BY <1>1, <1>4 DEF Reads
<1>9. \A i \in Ops(g) : g.kind[i] \in {"alias", "append", "transfer"} =>
                           AliasSource(g, i) \in Reads(g, i)
  BY <1>5, <1>6, <1>8 DEF Reads, AliasSource
<1> QED BY <1>1, <1>2, <1>3, <1>4, <1>6, <1>7, <1>8, <1>9

\* What a value shows.
LEMMA ShownIs ==
    ASSUME NEW g \in Graphs, NEW v \in Ops(g)
    PROVE  ShownIn(g, v) = IF IsAlias(g, v) THEN ShownIn(g, AliasSource(g, v))
                           ELSE IF g.kind[v] = "weight" THEN g.name[v] ELSE v
<1> DEFINE n == Size(g)
           D == {g.name[u] : u \in Ops(g)} \cup Ops(g)
           Base(u) == IF g.kind[u] = "weight" THEN g.name[u] ELSE u
           step == [k \in 1..n |-> [f \in [1..(k - 1) -> D] |->
                      IF IsAlias(g, k) THEN f[AliasSource(g, k)] ELSE Base(k)]]
           Is(f) == f = [u \in Ops(g) |->
                      IF IsAlias(g, u) THEN f[AliasSource(g, u)]
                      ELSE IF g.kind[u] = "weight" THEN g.name[u] ELSE u]
<1>1. n \in Nat /\ Ops(g) = 1..n
  BY GraphFacts
<1>2. \A u \in 1..n : IsAlias(g, u) => AliasSource(g, u) \in 1..(u - 1)
  <2> TAKE u \in 1..n
  <2> HAVE IsAlias(g, u)
  <2>1. AliasSource(g, u) \in Ops(g) /\ AliasSource(g, u) < u
    BY <1>1, GraphFacts DEF IsAlias
  <2> QED BY <1>1, <2>1
<1>3. StepsIn(D, n, step)
  BY <1>1, <1>2 DEF StepsIn
<1>4. PICK f \in [1..n -> D] : Follows(f, n, step)
  <2> HIDE DEF D, step, n, Base, Is
  <2> QED BY <1>1, <1>3, Recursion
<1>5. \A k \in 1..n : f[k] = IF IsAlias(g, k) THEN f[AliasSource(g, k)] ELSE Base(k)
  <2> TAKE k \in 1..n
  <2> DEFINE h == Before(f, k)
  <2>1. h \in [1..(k - 1) -> D] /\ \A j \in 1..(k - 1) : h[j] = f[j]
    <3> HIDE DEF D
    <3> QED BY <1>1 DEF Before
  <2>2. f[k] = IF IsAlias(g, k) THEN h[AliasSource(g, k)] ELSE Base(k)
    <3> HIDE DEF h, D
    <3>1. f[k] = step[k][h]
      BY <1>4 DEF h, Follows
    <3> QED BY <2>1, <3>1
  <2> QED BY <1>2, <2>1, <2>2
<1>6. Is(f)
  BY <1>1, <1>5
<1>7. Is(CHOOSE h : Is(h))
  <2> HIDE DEF Is
  <2> QED BY <1>6
<1>8. \A u \in Ops(g) : ShownIn(g, u) = (CHOOSE h : Is(h))[u]
  BY DEF ShownIn
<1>9. IsAlias(g, v) => AliasSource(g, v) \in Ops(g)
  BY <1>1, <1>2
<1> HIDE DEF Is
<1>10. \A u \in Ops(g) : (CHOOSE h : Is(h))[u] =
          IF IsAlias(g, u) THEN (CHOOSE h : Is(h))[AliasSource(g, u)]
          ELSE IF g.kind[u] = "weight" THEN g.name[u] ELSE u
  BY <1>7 DEF Is
<1> QED BY <1>8, <1>9, <1>10

LEMMA ShownInGraph == \A v : Shown(v) = ShownIn(graph, v)
  BY DEF Shown, ShownIn
-----------------------------------------------------------------------------
(* The plan                                                                 *)

Passed(g, v) == g.kind[v] \in InputKinds \cup {"tuple"}

\* A node has the operations of its device between its first and its last one.
NodesOK(g, nodes, k) ==
    /\ nodes \in Seq([device : Devices, ops : Seq(Ops(g))])
    /\ \A m \in DOMAIN nodes :
          /\ nodes[m].ops # <<>>
          /\ \A v \in ToSet(nodes[m].ops) :
                /\ v <= k /\ Head(nodes[m].ops) <= v
                /\ BelongsToExecutable(g, v) /\ g.device[v] = nodes[m].device
                /\ \A u \in Ops(g) : Head(nodes[m].ops) <= u /\ u <= v =>
                      u \in ToSet(nodes[m].ops) \/ Passed(g, u)
    /\ \A v \in 1..k : BelongsToExecutable(g, v) =>
          \E m \in DOMAIN nodes : v \in ToSet(nodes[m].ops)
    /\ \A m, l \in DOMAIN nodes : \A v \in ToSet(nodes[m].ops) :
          v \in ToSet(nodes[l].ops) => m = l

WalkOK(g, walk, k) ==
    /\ walk \in [open : Nat, nodes : Seq([device : Devices, ops : Seq(Ops(g))])]
    /\ NodesOK(g, walk.nodes, k)
    /\ walk.open # 0 =>
          /\ walk.open \in DOMAIN walk.nodes
          /\ \A u \in Ops(g) : Head(walk.nodes[walk.open].ops) <= u /\ u <= k =>
                u \in ToSet(walk.nodes[walk.open].ops) \/ Passed(g, u)

LEMMA ToSetAppend ==
    ASSUME NEW S, NEW s \in Seq(S), NEW x \in S
    PROVE  /\ ToSet(Append(s, x)) = ToSet(s) \cup {x}
           /\ s # <<>> => Head(Append(s, x)) = Head(s)
           /\ Append(s, x) # <<>> /\ Append(s, x) \in Seq(S)
<1> DEFINE t == Append(s, x)
<1>1. /\ t \in Seq(S) /\ Len(t) = Len(s) + 1 /\ t[Len(s) + 1] = x
      /\ \A i \in 1..Len(s) : t[i] = s[i]
  BY AppendProperties
<1>2. Len(s) \in Nat /\ DOMAIN s = 1..Len(s) /\ DOMAIN t = 1..Len(t)
  BY <1>1, LenProperties
<1> HIDE DEF t
<1>3. ToSet(t) = ToSet(s) \cup {x}
  BY <1>1, <1>2 DEF ToSet
<1>4. t # <<>>
  BY <1>1, <1>2, EmptySeq
<1>5. s # <<>> => Head(t) = Head(s)
  <2> HAVE s # <<>>
  <2>1. Len(s) # 0
    BY EmptySeq
  <2>2. Head(t) = t[1] /\ Head(s) = s[1]
    BY <1>1, <1>4
  <2> QED BY <1>1, <1>2, <2>1, <2>2
<1> QED BY <1>1, <1>3, <1>4, <1>5 DEF t

LEMMA ToSetOne ==
    ASSUME NEW S, NEW x \in S
    PROVE  /\ <<x>> \in Seq(S) /\ <<x>> # <<>>
           /\ ToSet(<<x>>) = {x} /\ Head(<<x>>) = x
  BY DEF ToSet

LEMMA NodeTypes ==
    ASSUME NEW O, NEW nodes \in Seq([device : Devices, ops : Seq(O)]), NEW m \in DOMAIN nodes
    PROVE  /\ nodes[m] \in [device : Devices, ops : Seq(O)]
           /\ nodes[m].ops \in Seq(O) /\ nodes[m].device \in Devices
           /\ ToSet(nodes[m].ops) \subseteq O
<1>1. nodes[m] \in [device : Devices, ops : Seq(O)]
  <2> DEFINE S == [device : Devices, ops : Seq(O)]
  <2> HIDE DEF S
  <2>1. nodes[m] \in S
    BY LenProperties, ElementOfSeq DEF S
  <2> QED BY <2>1 DEF S
<1>2. nodes[m].ops \in Seq(O) /\ nodes[m].device \in Devices
  BY <1>1
<1>3. \A s \in Seq(O) : ToSet(s) \subseteq O
  BY LenProperties, ElementOfSeq DEF ToSet
<1> QED BY <1>1, <1>2, <1>3
\* A node more, of one operation.
LEMMA WalkOpens ==
    ASSUME NEW g \in Graphs, NEW k \in Ops(g), NEW walk, WalkOK(g, walk, k - 1),
           BelongsToExecutable(g, k)
    PROVE  WalkOK(g, [open |-> Len(walk.nodes) + 1,
                      nodes |-> Append(walk.nodes, [device |-> g.device[k], ops |-> <<k>>])], k)
<1> DEFINE S == [device : Devices, ops : Seq(Ops(g))]
           old == walk.nodes
           n == Len(old)
           x == [device |-> g.device[k], ops |-> <<k>>]
           new == Append(old, x)
<1>1. k \in 1..Size(g) /\ g.device[k] \in Devices /\ Size(g) \in Nat /\ Ops(g) = 1..Size(g)
  BY GraphFacts
<1>2. /\ <<k>> \in Seq(Ops(g)) /\ <<k>> # <<>> /\ ToSet(<<k>>) = {k} /\ Head(<<k>>) = k
  BY ToSetOne
<1>3. x \in S /\ x.ops = <<k>> /\ x.device = g.device[k]
  BY <1>1, <1>2
<1>4. old \in Seq(S) /\ NodesOK(g, old, k - 1)
  BY DEF WalkOK
<1> HIDE DEF S, x
<1>5. /\ new \in Seq(S) /\ Len(new) = n + 1 /\ new[n + 1] = x /\ n \in Nat
      /\ \A i \in 1..n : new[i] = old[i]
  BY <1>3, <1>4, AppendProperties, LenProperties
<1>6. DOMAIN old = 1..n /\ DOMAIN new = 1..(n + 1)
  BY <1>4, <1>5, LenProperties
<1> HIDE DEF new, old, n
<1>7. ASSUME NEW m \in DOMAIN new
      PROVE  \/ m \in DOMAIN old /\ new[m] = old[m]
             \/ m = n + 1 /\ new[m].ops = <<k>> /\ new[m].device = g.device[k]
  <2>1. CASE m = n + 1
    BY <1>3, <1>5, <2>1
  <2>2. CASE m # n + 1
    BY <1>5, <1>6, <2>2
  <2> QED BY <2>1, <2>2
<1>8. \A m \in DOMAIN old : \A v \in ToSet(old[m].ops) : v <= k - 1 /\ v # k
  <2> TAKE m \in DOMAIN old
  <2> TAKE v \in ToSet(old[m].ops)
  <2>1. v \in Ops(g)
    BY <1>4, NodeTypes DEF S
  <2>2. v <= k - 1
    BY <1>4 DEF NodesOK
  <2> QED BY <1>1, <2>1, <2>2
<1>9. ASSUME NEW m \in DOMAIN new
      PROVE  /\ new[m].ops # <<>>
             /\ \A v \in ToSet(new[m].ops) :
                   /\ v <= k /\ Head(new[m].ops) <= v
                   /\ BelongsToExecutable(g, v) /\ g.device[v] = new[m].device
                   /\ \A u \in Ops(g) : Head(new[m].ops) <= u /\ u <= v =>
                         u \in ToSet(new[m].ops) \/ Passed(g, u)
  <2>1. CASE m \in DOMAIN old /\ new[m] = old[m]
    <3>1. \A v \in ToSet(old[m].ops) : v <= k
      <4> TAKE v \in ToSet(old[m].ops)
      <4>1. v \in Ops(g)
        BY <1>4, <2>1, NodeTypes DEF S
      <4>2. v <= k - 1
        BY <1>8, <2>1
      <4> QED BY <1>1, <4>1, <4>2
    <3> QED BY <1>4, <2>1, <3>1 DEF NodesOK
  <2>2. CASE new[m].ops = <<k>> /\ new[m].device = g.device[k]
    BY <1>1, <1>2, <2>2
  <2> QED BY <1>7, <2>1, <2>2
<1>10. \A v \in 1..k : BelongsToExecutable(g, v) =>
          \E m \in DOMAIN new : v \in ToSet(new[m].ops)
  <2> TAKE v \in 1..k
  <2> HAVE BelongsToExecutable(g, v)
  <2>1. CASE v = k
    <3>1. n + 1 \in DOMAIN new /\ new[n + 1].ops = <<k>>
      BY <1>3, <1>5, <1>6
    <3> QED BY <1>2, <2>1, <3>1
  <2>2. CASE v # k
    <3>1. v \in 1..(k - 1)
      BY <1>1, <2>2
    <3>2. PICK m \in DOMAIN old : v \in ToSet(old[m].ops)
      BY <1>4, <3>1 DEF NodesOK
    <3>3. m \in DOMAIN new /\ new[m] = old[m]
      BY <1>5, <1>6
    <3> QED BY <3>2, <3>3
  <2> QED BY <2>1, <2>2
<1>11. \A m, l \in DOMAIN new : \A v \in ToSet(new[m].ops) :
          v \in ToSet(new[l].ops) => m = l
  <2> TAKE m, l \in DOMAIN new
  <2> TAKE v \in ToSet(new[m].ops)
  <2> HAVE v \in ToSet(new[l].ops)
  <2>1. CASE m \in DOMAIN old /\ new[m] = old[m] /\ l \in DOMAIN old /\ new[l] = old[l]
    BY <1>4, <2>1 DEF NodesOK
  <2>2. CASE m = n + 1 /\ new[m].ops = <<k>>
    BY <1>2, <1>7, <1>8, <2>2
  <2>3. CASE l = n + 1 /\ new[l].ops = <<k>>
    BY <1>2, <1>7, <1>8, <2>3
  <2> QED BY <1>7, <2>1, <2>2, <2>3
<1>12. NodesOK(g, new, k)
  BY <1>5, <1>9, <1>10, <1>11 DEF NodesOK, S
<1>13. n + 1 \in DOMAIN new /\ new[n + 1].ops = <<k>>
  BY <1>3, <1>5, <1>6
<1>14. WalkOK(g, [open |-> n + 1, nodes |-> new], k)
  <2>1. [open |-> n + 1, nodes |-> new] \in [open : Nat, nodes : Seq(S)]
    BY <1>5
  <2>2. \A u \in Ops(g) : k <= u /\ u <= k => u \in {k}
    BY <1>1
  <2> QED BY <1>2, <1>12, <1>13, <2>1, <2>2 DEF WalkOK, S
<1> QED BY <1>14 DEF new, old, n, x

\* One operation more in the node that is open.
LEMMA WalkGoesOn ==
    ASSUME NEW g \in Graphs, NEW k \in Ops(g), NEW walk, WalkOK(g, walk, k - 1),
           BelongsToExecutable(g, k), walk.open # 0,
           walk.nodes[walk.open].device = g.device[k]
    PROVE  WalkOK(g, [walk EXCEPT !.nodes[walk.open].ops = Append(@, k)], k)
<1> DEFINE S == [device : Devices, ops : Seq(Ops(g))]
           old == walk.nodes
           o == walk.open
           before1 == old[o].ops
           after1 == Append(before1, k)
           new == [old EXCEPT ![o] = [old[o] EXCEPT !.ops = after1]]
<1>1. k \in 1..Size(g) /\ Size(g) \in Nat /\ Ops(g) = 1..Size(g)
  BY GraphFacts
<1>2. /\ old \in Seq(S) /\ NodesOK(g, old, k - 1) /\ o \in DOMAIN old /\ o \in Nat
      /\ walk \in [open : Nat, nodes : Seq(S)]
  BY DEF WalkOK
<1>3. old[o] \in S /\ before1 \in Seq(Ops(g)) /\ old \in [DOMAIN old -> S]
  <2>1. \A m \in DOMAIN old : old[m] \in S
    BY <1>2, NodeTypes
  <2>2. old[o].ops \in Seq(Ops(g))
    BY <1>2, NodeTypes
  <2>3. old = [m \in DOMAIN old |-> old[m]]
    <3> HIDE DEF S, old
    <3> QED BY <1>2
  <2> QED BY <1>2, <2>1, <2>2, <2>3
<1> DEFINE next == [walk EXCEPT !.nodes[walk.open].ops = Append(@, k)]
<1>4. next.nodes = new /\ next.open = o
  BY <1>2
<1>5. /\ ToSet(after1) = ToSet(before1) \cup {k} /\ Head(after1) = Head(before1)
      /\ after1 # <<>> /\ after1 \in Seq(Ops(g))
  <2>1. before1 # <<>>
    BY <1>2 DEF NodesOK
  <2> HIDE DEF before1
  <2> QED BY <1>3, <2>1, ToSetAppend
<1>6. /\ new \in Seq(S) /\ DOMAIN new = DOMAIN old
      /\ new[o].ops = after1 /\ new[o].device = old[o].device
      /\ \A m \in DOMAIN old : m # o => new[m] = old[m]
  <2>1. [old[o] EXCEPT !.ops = after1] \in S
    BY <1>3, <1>5
  <2> QED BY <1>2, <1>3, <2>1
<1>7. \A m \in DOMAIN old : \A v \in ToSet(old[m].ops) : v \in Ops(g)
  BY <1>2, NodeTypes
<1> HIDE DEF S, before1, after1, new
<1>8. \A m \in DOMAIN old : \A v \in ToSet(old[m].ops) : v <= k - 1 /\ v <= k /\ v # k
  <2> TAKE m \in DOMAIN old
  <2> TAKE v \in ToSet(old[m].ops)
  <2>1. v <= k - 1
    BY <1>2 DEF NodesOK
  <2>2. v \in Ops(g)
    BY <1>7
  <2> HIDE DEF old
  <2> QED BY <1>1, <2>1, <2>2
<1>9. \A u \in Ops(g) : Head(before1) <= u /\ u <= k =>
         u \in ToSet(after1) \/ Passed(g, u)
  <2> TAKE u \in Ops(g)
  <2> HAVE Head(before1) <= u /\ u <= k
  <2>1. u = k \/ u <= k - 1
    BY <1>1
  <2> QED BY <1>5, <2>1 DEF WalkOK, before1
<1>10. ASSUME NEW m \in DOMAIN new
       PROVE  /\ new[m].ops # <<>>
              /\ \A v \in ToSet(new[m].ops) :
                    /\ v <= k /\ Head(new[m].ops) <= v
                    /\ BelongsToExecutable(g, v) /\ g.device[v] = new[m].device
                    /\ \A u \in Ops(g) : Head(new[m].ops) <= u /\ u <= v =>
                          u \in ToSet(new[m].ops) \/ Passed(g, u)
  <2>1. CASE m # o
    <3>1. new[m] = old[m] /\ m \in DOMAIN old
      BY <1>6, <2>1
    <3>2. \A v \in ToSet(old[m].ops) : v <= k
      BY <1>8, <3>1
    <3>3. /\ old[m].ops # <<>>
          /\ \A v \in ToSet(old[m].ops) :
                /\ Head(old[m].ops) <= v
                /\ BelongsToExecutable(g, v) /\ g.device[v] = old[m].device
                /\ \A u \in Ops(g) : Head(old[m].ops) <= u /\ u <= v =>
                      u \in ToSet(old[m].ops) \/ Passed(g, u)
      BY <1>2, <3>1 DEF NodesOK
    <3> HIDE DEF old
    <3> QED BY <3>1, <3>2, <3>3
  <2>2. CASE m = o
    <3>1. new[m].ops = after1 /\ new[m].device = old[o].device
      BY <1>6, <2>2
    <3>2. \A v \in ToSet(before1) :
             /\ v <= k /\ Head(before1) <= v
             /\ BelongsToExecutable(g, v) /\ g.device[v] = old[o].device
             /\ \A u \in Ops(g) : Head(before1) <= u /\ u <= v =>
                   u \in ToSet(before1) \/ Passed(g, u)
      BY <1>2, <1>8 DEF NodesOK, before1
    <3>3. k <= k /\ Head(before1) <= k
      <4>1. before1 \in Seq(Ops(g)) /\ before1 # <<>>
        BY <1>2, <1>3 DEF NodesOK, before1
      <4>2. Head(before1) \in ToSet(before1)
        BY <4>1, EmptySeq, LenProperties DEF ToSet
      <4>3. Head(before1) \in Ops(g) /\ Head(before1) <= k - 1
        BY <1>2, <1>7, <1>8, <4>2 DEF before1
      <4> QED BY <1>1, <4>3
    <3> QED BY <1>5, <1>9, <3>1, <3>2, <3>3
  <2> QED BY <2>1, <2>2
<1>11. \A v \in 1..k : BelongsToExecutable(g, v) =>
          \E m \in DOMAIN new : v \in ToSet(new[m].ops)
  <2> TAKE v \in 1..k
  <2> HAVE BelongsToExecutable(g, v)
  <2>1. CASE v = k
    BY <1>2, <1>5, <1>6, <2>1
  <2>2. CASE v # k
    <3>1. v \in 1..(k - 1)
      BY <1>1, <2>2
    <3>2. PICK m \in DOMAIN old : v \in ToSet(old[m].ops)
      BY <1>2, <3>1 DEF NodesOK
    <3> QED BY <1>5, <1>6, <3>2 DEF before1
  <2> QED BY <2>1, <2>2
<1>12. \A m \in DOMAIN old : \A v : v \in ToSet(new[m].ops) =>
          v \in ToSet(old[m].ops) \/ (v = k /\ m = o)
  BY <1>5, <1>6 DEF before1
<1>13. \A m, l \in DOMAIN new : \A v \in ToSet(new[m].ops) :
          v \in ToSet(new[l].ops) => m = l
  <2> TAKE m, l \in DOMAIN new
  <2> TAKE v \in ToSet(new[m].ops)
  <2> HAVE v \in ToSet(new[l].ops)
  <2>1. m \in DOMAIN old /\ l \in DOMAIN old
    BY <1>6
  <2>2. CASE v = k
    BY <1>8, <1>12, <2>1, <2>2
  <2>3. CASE v # k
    BY <1>2, <1>12, <2>1, <2>3 DEF NodesOK
  <2> QED BY <2>2, <2>3
<1>14. NodesOK(g, new, k)
  BY <1>6, <1>10, <1>11, <1>13 DEF NodesOK, S
<1>15. next \in [open : Nat, nodes : Seq(S)]
  <2>1. \A x \in Seq(S) : [walk EXCEPT !.nodes = x] \in [open : Nat, nodes : Seq(S)]
    BY <1>2
  <2>2. next = [walk EXCEPT !.nodes = [walk.nodes EXCEPT
                  ![walk.open] = [walk.nodes[walk.open] EXCEPT
                     !.ops = Append(walk.nodes[walk.open].ops, k)]]]
    OBVIOUS
  <2>3. next = [walk EXCEPT !.nodes = new]
    BY <2>2 DEF new, after1, before1
  <2> HIDE DEF next
  <2> QED BY <1>6, <2>1, <2>3
<1>16. WalkOK(g, next, k)
  <2>2. Head(new[o].ops) = Head(before1) /\ ToSet(new[o].ops) = ToSet(after1)
    BY <1>5, <1>6
  <2> HIDE DEF next
  <2> QED BY <1>2, <1>4, <1>6, <1>9, <1>14, <1>15, <2>2 DEF WalkOK, S
<1> QED BY <1>16
\* What the engine sees to itself does not change the nodes.
LEMMA NodesLater ==
    ASSUME NEW g \in Graphs, NEW k \in Ops(g), NEW nodes, NodesOK(g, nodes, k - 1),
           ~BelongsToExecutable(g, k)
    PROVE  NodesOK(g, nodes, k)
<1>1. k \in 1..Size(g) /\ Size(g) \in Nat /\ Ops(g) = 1..Size(g)
  BY GraphFacts
<1>2. \A m \in DOMAIN nodes : \A v \in ToSet(nodes[m].ops) : v <= k
  <2> TAKE m \in DOMAIN nodes
  <2> TAKE v \in ToSet(nodes[m].ops)
  <2>1. v \in Ops(g)
    BY NodeTypes DEF NodesOK
  <2>2. v <= k - 1
    BY DEF NodesOK
  <2> QED BY <1>1, <2>1, <2>2
<1>3. \A v \in 1..k : BelongsToExecutable(g, v) =>
         \E m \in DOMAIN nodes : v \in ToSet(nodes[m].ops)
  <2>1. \A v \in 1..k : v # k => v \in 1..(k - 1)
    BY <1>1
  <2> QED BY <2>1 DEF NodesOK
<1> QED BY <1>2, <1>3 DEF NodesOK

LEMMA WalkStep ==
    ASSUME NEW g \in Graphs, NEW k \in Ops(g), NEW walk, WalkOK(g, walk, k - 1)
    PROVE  WalkOK(g, AfterOp(g, walk, k), k)
<1>1. k \in 1..Size(g) /\ Size(g) \in Nat /\ Ops(g) = 1..Size(g) /\ g.kind[k] \in Kinds
  BY GraphFacts
<1>2. CASE BelongsToExecutable(g, k)
  <2>1. AfterOp(g, walk, k) = Place(g, walk, k)
    BY <1>2 DEF AfterOp, BelongsToExecutable
  <2>2. CASE walk.open = 0 \/ walk.nodes[walk.open].device # g.device[k]
    BY <1>2, <2>1, <2>2, WalkOpens DEF Place
  <2>3. CASE ~(walk.open = 0 \/ walk.nodes[walk.open].device # g.device[k])
    BY <1>2, <2>1, <2>3, WalkGoesOn DEF Place
  <2> QED BY <2>2, <2>3
<1>3. CASE g.kind[k] = "transfer"
  <2>1. ~BelongsToExecutable(g, k)
    BY <1>3 DEF BelongsToExecutable
  <2>2. NodesOK(g, walk.nodes, k)
    BY <2>1, NodesLater DEF WalkOK
  <2>3. /\ AfterOp(g, walk, k).open = 0 /\ AfterOp(g, walk, k).nodes = walk.nodes
        /\ AfterOp(g, walk, k) \in [open : Nat, nodes : Seq([device : Devices, ops : Seq(Ops(g))])]
    BY <1>3 DEF AfterOp, WalkOK
  <2> QED BY <2>2, <2>3 DEF WalkOK
<1>4. CASE ~BelongsToExecutable(g, k) /\ g.kind[k] # "transfer"
  <2>1. AfterOp(g, walk, k) = walk
    BY <1>4 DEF AfterOp, Place
  <2>2. Passed(g, k)
    BY <1>1, <1>4 DEF Passed, BelongsToExecutable
  <2>3. NodesOK(g, walk.nodes, k)
    BY <1>4, NodesLater DEF WalkOK
  <2>4. \A u \in Ops(g) : u <= k => u = k \/ u <= k - 1
    BY <1>1
  <2> QED BY <2>1, <2>2, <2>3, <2>4 DEF WalkOK
<1> QED BY <1>2, <1>3, <1>4

LEMMA NodesAre ==
    ASSUME NEW g \in Graphs
    PROVE  NodesOK(g, Nodes(g), Size(g))
<1> DEFINE n == Size(g)
           D == [open : Nat, nodes : Seq([device : Devices, ops : Seq(Ops(g))])]
           z == [open |-> 0, nodes |-> <<>>]
           step == [k \in 1..n |-> [x \in D |->
                      IF WalkOK(g, x, k - 1) THEN AfterOp(g, x, k) ELSE x]]
           Is(f) == f = [i \in 0..n |->
                      IF i = 0 THEN [open |-> 0, nodes |-> <<>>] ELSE AfterOp(g, f[i - 1], i)]
<1>1. n \in Nat /\ Ops(g) = 1..n
  BY GraphFacts
<1>2. z \in D /\ WalkOK(g, z, 0)
  <2>1. /\ <<>> \in Seq([device : Devices, ops : Seq(Ops(g))]) /\ DOMAIN <<>> = {}
    OBVIOUS
  <2>2. z.open = 0 /\ z.nodes = <<>>
    OBVIOUS
  <2> QED BY <2>1, <2>2 DEF WalkOK, NodesOK
<1>3. StaysIn(D, n, step)
  <2>1. \A k \in 1..n : \A x \in D : WalkOK(g, x, k - 1) => AfterOp(g, x, k) \in D
    BY <1>1, WalkStep DEF WalkOK
  <2> QED BY <2>1 DEF StaysIn
<1>4. PICK f \in [0..n -> D] : Iterates(f, n, z, step)
  <2> HIDE DEF D, step, n, z, Is
  <2> QED BY <1>1, <1>2, <1>3, Iteration
<1>5. \A k \in 1..n : WalkOK(g, f[k - 1], k - 1) => f[k] = AfterOp(g, f[k - 1], k)
  <2> TAKE k \in 1..n
  <2> HAVE WalkOK(g, f[k - 1], k - 1)
  <2>1. f[k] = step[k][f[k - 1]]
    <3> HIDE DEF step, D, n, z
    <3> QED BY <1>4 DEF Iterates
  <2>2. k - 1 \in 0..n
    BY <1>1
  <2>3. f[k - 1] \in D
    <3> HIDE DEF D
    <3> QED BY <1>4, <2>2
  <2> HIDE DEF D
  <2> QED BY <2>1, <2>3
<1>6. \A k \in 0..n : WalkOK(g, f[k], k)
  <2> DEFINE T == {k \in 0..n : WalkOK(g, f[k], k)}
  <2>1. 0 \in T
    BY <1>1, <1>2, <1>4 DEF Iterates
  <2>2. \A k \in 1..n : k - 1 \in T => k \in T
    <3> TAKE k \in 1..n
    <3> HAVE k - 1 \in T
    <3>1. k \in Ops(g) /\ k \in 0..n /\ WalkOK(g, f[k - 1], k - 1)
      BY <1>1
    <3>2. f[k] = AfterOp(g, f[k - 1], k)
      BY <1>5, <3>1
    <3>3. WalkOK(g, AfterOp(g, f[k - 1], k), k)
      <4> HIDE DEF n, T, step, D, z, Is
      <4> QED BY <3>1, WalkStep
    <3> QED BY <3>1, <3>2, <3>3
  <2>3. \A k \in 0..n : k \in T
    <3> HIDE DEF T
    <3> QED BY <1>1, <2>1, <2>2, ByPrevious
  <2> QED BY <2>3
<1>7. Is(f)
  <2>1. \A k \in 0..n : f[k] = IF k = 0 THEN z ELSE AfterOp(g, f[k - 1], k)
    <3> TAKE k \in 0..n
    <3>1. CASE k = 0
      BY <1>4, <3>1 DEF Iterates
    <3>2. CASE k # 0
      <4>1. k \in 1..n /\ k - 1 \in 0..n
        BY <1>1, <3>2
      <4> QED BY <1>5, <1>6, <3>2, <4>1
    <3> QED BY <3>1, <3>2
  <2> QED BY <2>1
<1> DEFINE h == CHOOSE x : Is(x)
<1>8. Is(h)
  <2> HIDE DEF Is
  <2> QED BY <1>7
<1>9. Walk(g) = h[n]
  BY DEF Walk, Size
<1> HIDE DEF h
<1>10. h[0] = z /\ \A k \in 1..n : h[k] = AfterOp(g, h[k - 1], k)
  BY <1>1, <1>8
<1>11. \A k \in 0..n : WalkOK(g, h[k], k)
  <2> DEFINE T == {k \in 0..n : WalkOK(g, h[k], k)}
  <2>1. 0 \in T
    BY <1>1, <1>2, <1>10
  <2>2. \A k \in 1..n : k - 1 \in T => k \in T
    <3> TAKE k \in 1..n
    <3> HAVE k - 1 \in T
    <3>1. k \in Ops(g) /\ k \in 0..n /\ WalkOK(g, h[k - 1], k - 1)
      BY <1>1
    <3>2. h[k] = AfterOp(g, h[k - 1], k)
      BY <1>10, <3>1
    <3>3. WalkOK(g, AfterOp(g, h[k - 1], k), k)
      <4> HIDE DEF n, T, step, D, z, Is
      <4> QED BY <3>1, WalkStep
    <3> QED BY <3>1, <3>2, <3>3
  <2>3. \A k \in 0..n : k \in T
    <3> HIDE DEF T
    <3> QED BY <1>1, <2>1, <2>2, ByPrevious
  <2> QED BY <2>3
<1> QED BY <1>1, <1>9, <1>11 DEF Nodes, WalkOK
\* What a value of a plan's node is a view of, in the node.
LEMMA ViewedIs ==
    ASSUME NEW g \in Graphs, NEW nodes, NEW n, NEW v \in Ops(g)
    PROVE  ViewedBy(g, nodes, n)[v] =
              {v} \cup (IF IsAlias(g, v) /\ NodeOf(nodes, AliasSource(g, v)) = n
                        THEN ViewedBy(g, nodes, n)[AliasSource(g, v)] ELSE {})
<1> DEFINE N == Size(g)
           D == SUBSET Ops(g)
           Inside(u) == IsAlias(g, u) /\ NodeOf(nodes, AliasSource(g, u)) = n
           step == [k \in 1..N |-> [f \in [1..(k - 1) -> D] |->
                      {k} \cup (IF Inside(k) THEN f[AliasSource(g, k)] ELSE {})]]
           Is(f) == f = [u \in Ops(g) |->
                      {u} \cup (IF IsAlias(g, u) /\ NodeOf(nodes, AliasSource(g, u)) = n
                                THEN f[AliasSource(g, u)] ELSE {})]
<1>1. N \in Nat /\ Ops(g) = 1..N
  BY GraphFacts
<1>2. \A u \in 1..N : Inside(u) => AliasSource(g, u) \in 1..(u - 1)
  <2> TAKE u \in 1..N
  <2> HAVE Inside(u)
  <2>1. AliasSource(g, u) \in Ops(g) /\ AliasSource(g, u) < u
    BY <1>1, GraphFacts DEF IsAlias
  <2> QED BY <1>1, <2>1
<1> HIDE DEF Inside
<1>3. StepsIn(D, N, step)
  BY <1>1, <1>2 DEF StepsIn
<1>4. PICK f \in [1..N -> D] : Follows(f, N, step)
  <2> HIDE DEF D, step, N, Is
  <2> QED BY <1>1, <1>3, Recursion
<1>5. \A k \in 1..N : f[k] = {k} \cup (IF Inside(k) THEN f[AliasSource(g, k)] ELSE {})
  <2> TAKE k \in 1..N
  <2> DEFINE h == Before(f, k)
  <2>1. h \in [1..(k - 1) -> D] /\ \A j \in 1..(k - 1) : h[j] = f[j]
    <3> HIDE DEF D
    <3> QED BY <1>1 DEF Before
  <2>2. f[k] = {k} \cup (IF Inside(k) THEN h[AliasSource(g, k)] ELSE {})
    <3> HIDE DEF h, D
    <3>1. f[k] = step[k][h]
      BY <1>4 DEF h, Follows
    <3> QED BY <2>1, <3>1
  <2> QED BY <1>2, <2>1, <2>2
<1>6. Is(f)
  BY <1>1, <1>5 DEF Inside
<1>7. Is(CHOOSE h : Is(h))
  <2> HIDE DEF Is
  <2> QED BY <1>6
<1>8. ViewedBy(g, nodes, n) = (CHOOSE h : Is(h))
  BY DEF ViewedBy
<1> HIDE DEF Is
<1> QED BY <1>7, <1>8 DEF Is

PlanNodes(g, p) ==
    /\ DOMAIN p \subseteq Nat \ {0}
    /\ \A v : NodeOf(p, v) \in DOMAIN p \cup {0}
    /\ \A v \in Ops(g) : BelongsToExecutable(g, v) => NodeOf(p, v) \in DOMAIN p
    /\ \A n \in DOMAIN p :
          /\ p[n].device \in Devices
          /\ p[n].ops \in Seq(Ops(g)) /\ Head(p[n].ops) \in ToSet(p[n].ops)
          /\ \A v : NodeOf(p, v) = n <=> v \in ToSet(p[n].ops)
          /\ \A v \in ToSet(p[n].ops) :
                /\ v \in Ops(g) /\ Head(p[n].ops) <= v
                /\ BelongsToExecutable(g, v) /\ g.device[v] = p[n].device
                /\ \A u \in Ops(g) : Head(p[n].ops) <= u /\ u <= v =>
                      u \in ToSet(p[n].ops) \/ Passed(g, u)

PlanBorders(g, p) ==
    \A n \in DOMAIN p :
       /\ \A v : v \in p[n].mutableImports <=>
             \E i \in ToSet(p[n].ops) : g.kind[i] = "append" /\ v = AliasSource(g, i)
       /\ \A v : v \in p[n].imports <=>
             \/ v \in p[n].mutableImports
             \/ /\ v \in Ops(g) /\ NodeOf(p, v) # n
                /\ \E i \in ToSet(p[n].ops) : v \in Reads(g, i)
       /\ \A v \in p[n].exports :
             /\ v \in ToSet(p[n].ops) /\ g.kind[v] \in {"kernel", "alias"}
             /\ IsAlias(g, v) =>
                   AliasSource(g, v) \in p[n].exports \/ NodeOf(p, AliasSource(g, v)) # n
       /\ \A v \in ToSet(p[n].ops) :
             v \in ToSet(g.outputs)
                \/ (\E i \in Ops(g) : v \in Reads(g, i) /\ NodeOf(p, i) # n) =>
                v \in p[n].exports

LEMMA NodeOfIs ==
    ASSUME NEW g \in Graphs, NEW nodes, NodesOK(g, nodes, Size(g)),
           NEW p, DOMAIN p = DOMAIN nodes, \A n \in DOMAIN p : p[n].ops = nodes[n].ops
    PROVE  /\ \A v : NodeOf(p, v) = NodeOf(nodes, v) /\ NodeOf(p, v) \in DOMAIN p \cup {0}
           /\ \A n \in DOMAIN p : \A v : NodeOf(p, v) = n <=> v \in ToSet(p[n].ops)
<1>1. DOMAIN nodes \subseteq Nat \ {0}
  BY LenProperties DEF NodesOK
<1>2. \A m, l \in DOMAIN nodes : \A v \in ToSet(nodes[m].ops) :
         v \in ToSet(nodes[l].ops) => m = l
  BY DEF NodesOK
<1>3. \A v : /\ NodeOf(nodes, v) \in DOMAIN nodes \cup {0}
             /\ \A n \in DOMAIN nodes : NodeOf(nodes, v) = n <=> v \in ToSet(nodes[n].ops)
  <2> TAKE v
  <2>1. CASE \E n \in DOMAIN nodes : v \in ToSet(nodes[n].ops)
    <3>1. /\ NodeOf(nodes, v) \in DOMAIN nodes
          /\ v \in ToSet(nodes[NodeOf(nodes, v)].ops)
      BY <2>1 DEF NodeOf
    <3> QED BY <1>2, <3>1
  <2>2. CASE ~(\E n \in DOMAIN nodes : v \in ToSet(nodes[n].ops))
    BY <1>1, <2>2 DEF NodeOf
  <2> QED BY <2>1, <2>2
<1>4. \A v : /\ NodeOf(p, v) \in DOMAIN p \cup {0}
             /\ \A n \in DOMAIN p : NodeOf(p, v) = n <=> v \in ToSet(p[n].ops)
  <2> TAKE v
  <2>1. CASE \E n \in DOMAIN p : v \in ToSet(p[n].ops)
    <3>1. /\ NodeOf(p, v) \in DOMAIN p
          /\ v \in ToSet(p[NodeOf(p, v)].ops)
      BY <2>1 DEF NodeOf
    <3> QED BY <1>2, <3>1
  <2>2. CASE ~(\E n \in DOMAIN p : v \in ToSet(p[n].ops))
    BY <1>1, <2>2 DEF NodeOf
  <2> QED BY <2>1, <2>2
<1>5. \A v : NodeOf(p, v) = NodeOf(nodes, v)
  BY <1>3, <1>4
<1> QED BY <1>4, <1>5

LEMMA PartitionNodes ==
    ASSUME NEW g \in Graphs
    PROVE  PlanNodes(g, Partition(g))
<1> DEFINE p == Partition(g)
           nodes == Nodes(g)
           S == [device : Devices, ops : Seq(Ops(g))]
<1>1. NodesOK(g, nodes, Size(g)) /\ nodes \in Seq(S)
  BY NodesAre DEF NodesOK
<1>2. /\ DOMAIN p = DOMAIN nodes
      /\ \A n \in DOMAIN p : p[n].ops = nodes[n].ops /\ p[n].device = nodes[n].device
  BY DEF Partition
<1> HIDE DEF p, nodes
<1>3. /\ \A v : NodeOf(p, v) \in DOMAIN p \cup {0}
      /\ \A n \in DOMAIN p : \A v : NodeOf(p, v) = n <=> v \in ToSet(p[n].ops)
  BY <1>1, <1>2, NodeOfIs
<1>4. DOMAIN p \subseteq Nat \ {0}
  BY <1>1, <1>2, LenProperties
<1>5. \A v \in Ops(g) : BelongsToExecutable(g, v) => NodeOf(p, v) \in DOMAIN p
  <2> TAKE v \in Ops(g)
  <2> HAVE BelongsToExecutable(g, v)
  <2>1. PICK m \in DOMAIN nodes : v \in ToSet(nodes[m].ops)
    BY <1>1, GraphFacts DEF NodesOK
  <2> QED BY <1>2, <1>3, <2>1
<1>6. ASSUME NEW n \in DOMAIN p
      PROVE  /\ p[n].device \in Devices
             /\ p[n].ops \in Seq(Ops(g)) /\ Head(p[n].ops) \in ToSet(p[n].ops)
             /\ \A v \in ToSet(p[n].ops) :
                   /\ v \in Ops(g) /\ Head(p[n].ops) <= v
                   /\ BelongsToExecutable(g, v) /\ g.device[v] = p[n].device
                   /\ \A u \in Ops(g) : Head(p[n].ops) <= u /\ u <= v =>
                         u \in ToSet(p[n].ops) \/ Passed(g, u)
  <2>1. p[n].ops = nodes[n].ops /\ p[n].device = nodes[n].device /\ n \in DOMAIN nodes
    BY <1>2
  <2>2. /\ p[n].device \in Devices /\ p[n].ops \in Seq(Ops(g))
        /\ ToSet(p[n].ops) \subseteq Ops(g) /\ p[n].ops # <<>>
    <3>1. nodes \in Seq([device : Devices, ops : Seq(Ops(g))])
      BY <1>1 DEF NodesOK
    <3>2. /\ nodes[n].ops \in Seq(Ops(g)) /\ nodes[n].device \in Devices
          /\ ToSet(nodes[n].ops) \subseteq Ops(g)
      BY <3>1, <2>1, NodeTypes
    <3>3. nodes[n].ops # <<>>
      BY <1>1, <2>1 DEF NodesOK
    <3> HIDE DEF S
    <3> QED BY <2>1, <3>2, <3>3
  <2>3. Head(p[n].ops) \in ToSet(p[n].ops)
    <3> DEFINE s == p[n].ops
    <3>1. s \in Seq(Ops(g)) /\ s # <<>>
      BY <2>2
    <3> HIDE DEF s
    <3>2. Head(s) \in ToSet(s)
      BY <3>1, EmptySeq, LenProperties DEF ToSet
    <3> QED BY <3>2 DEF s
  <2>4. \A v \in ToSet(nodes[n].ops) :
           /\ Head(nodes[n].ops) <= v
           /\ BelongsToExecutable(g, v) /\ g.device[v] = nodes[n].device
           /\ \A u \in Ops(g) : Head(nodes[n].ops) <= u /\ u <= v =>
                 u \in ToSet(nodes[n].ops) \/ Passed(g, u)
    BY <1>1, <2>1 DEF NodesOK
  <2> QED BY <2>2, <2>3, <2>1, <2>4
<1> QED BY <1>3, <1>4, <1>5, <1>6 DEF PlanNodes, p

\* The views of a node's value are the node's, and closed under their sources.
LEMMA ViewedStays ==
    ASSUME NEW g \in Graphs, NEW p, PlanNodes(g, p), NEW n \in DOMAIN p, NEW view,
           \A v \in Ops(g) : view[v] =
              {v} \cup (IF IsAlias(g, v) /\ NodeOf(p, AliasSource(g, v)) = n
                        THEN view[AliasSource(g, v)] ELSE {})
    PROVE  \A v \in ToSet(p[n].ops) : \A u \in view[v] :
              /\ u \in ToSet(p[n].ops)
              /\ g.kind[u] = "append" => u = v
              /\ IsAlias(g, u) /\ NodeOf(p, AliasSource(g, u)) = n =>
                    AliasSource(g, u) \in view[v]
<1> DEFINE N == Size(g)
           OK(v) == \A u \in view[v] :
              /\ u \in ToSet(p[n].ops)
              /\ g.kind[u] = "append" => u = v
              /\ IsAlias(g, u) /\ NodeOf(p, AliasSource(g, u)) = n =>
                    AliasSource(g, u) \in view[v]
           T == {v \in Ops(g) : v \in ToSet(p[n].ops) => OK(v)}
<1>1. N \in Nat /\ Ops(g) = 1..N
  BY GraphFacts
<1>2. ASSUME NEW v \in 1..N, \A j \in 1..(v - 1) : j \in T PROVE v \in T
  <2> SUFFICES ASSUME v \in ToSet(p[n].ops) PROVE OK(v)
    BY <1>1
  <2>1. CASE IsAlias(g, v) /\ NodeOf(p, AliasSource(g, v)) = n
    <3> DEFINE w == AliasSource(g, v)
    <3>1. /\ w \in Ops(g) /\ w < v /\ g.kind[w] # "append"
          /\ w \in ToSet(p[n].ops)
      BY <1>1, <2>1, GraphFacts DEF IsAlias, PlanNodes
    <3>2. w \in 1..(v - 1)
      BY <1>1, <3>1
    <3>3. OK(w)
      BY <1>2, <3>1, <3>2
    <3>4. view[v] = {v} \cup view[w] /\ w \in view[w]
      BY <1>1, <2>1, <3>1
    <3> HIDE DEF w
    <3> QED BY <2>1, <3>1, <3>3, <3>4 DEF w
  <2>2. CASE ~(IsAlias(g, v) /\ NodeOf(p, AliasSource(g, v)) = n)
    <3>1. view[v] = {v}
      BY <1>1, <2>2
    <3> QED BY <2>2, <3>1
  <2> QED BY <2>1, <2>2
<1>3. \A v \in 1..N : v \in T
  <2> HIDE DEF T, N
  <2> QED BY <1>1, <1>2, ByEarlier
<1> QED BY <1>1, <1>3 DEF PlanNodes

LEMMA PartitionBorders ==
    ASSUME NEW g \in Graphs
    PROVE  PlanBorders(g, Partition(g))
<1> DEFINE p == Partition(g)
           nodes == Nodes(g)
<1>1. NodesOK(g, nodes, Size(g)) /\ PlanNodes(g, p)
  BY NodesAre, PartitionNodes
<1>2. /\ DOMAIN p = DOMAIN nodes
      /\ \A n \in DOMAIN p :
            /\ p[n].ops = nodes[n].ops
            /\ p[n].imports = Imports(g, nodes, n)
            /\ p[n].mutableImports = MutableImports(g, nodes, n)
            /\ p[n].exports = Exports(g, nodes, n)
  BY DEF Partition
<1> HIDE DEF p, nodes
<1>3. \A v : NodeOf(p, v) = NodeOf(nodes, v)
  BY <1>1, <1>2, NodeOfIs
<1>4. ASSUME NEW n \in DOMAIN p
      PROVE  /\ \A v : v \in p[n].mutableImports <=>
                   \E i \in ToSet(p[n].ops) : g.kind[i] = "append" /\ v = AliasSource(g, i)
             /\ \A v : v \in p[n].imports <=>
                   \/ v \in p[n].mutableImports
                   \/ /\ v \in Ops(g) /\ NodeOf(p, v) # n
                      /\ \E i \in ToSet(p[n].ops) : v \in Reads(g, i)
  BY <1>2, <1>3 DEF Imports, MutableImports, AliasSource
<1>5. ASSUME NEW n \in DOMAIN p
      PROVE  /\ \A v \in p[n].exports :
                   /\ v \in ToSet(p[n].ops) /\ g.kind[v] \in {"kernel", "alias"}
                   /\ IsAlias(g, v) =>
                        AliasSource(g, v) \in p[n].exports \/ NodeOf(p, AliasSource(g, v)) # n
             /\ \A v \in ToSet(p[n].ops) :
                   v \in ToSet(g.outputs)
                      \/ (\E i \in Ops(g) : v \in Reads(g, i) /\ NodeOf(p, i) # n) =>
                      v \in p[n].exports
  <2> DEFINE view == ViewedBy(g, nodes, n)
             direct == DirectExports(g, nodes, n)
  <2>1. \A v \in Ops(g) : view[v] =
           {v} \cup (IF IsAlias(g, v) /\ NodeOf(p, AliasSource(g, v)) = n
                     THEN view[AliasSource(g, v)] ELSE {})
    BY <1>3, ViewedIs
  <2>2. direct = {v \in ToSet(p[n].ops) :
                    v \in ToSet(g.outputs)
                       \/ \E i \in Ops(g) : v \in Reads(g, i) /\ NodeOf(p, i) # n}
    BY <1>2, <1>3 DEF DirectExports, UsedElsewhere
  <2>3. p[n].exports = UNION {view[v] : v \in direct}
    BY <1>2 DEF Exports
  <2> HIDE DEF view, direct
  <2>4. \A v \in ToSet(p[n].ops) : \A u \in view[v] :
           /\ u \in ToSet(p[n].ops)
           /\ g.kind[u] = "append" => u = v
           /\ IsAlias(g, u) /\ NodeOf(p, AliasSource(g, u)) = n =>
                 AliasSource(g, u) \in view[v]
    BY <1>1, <2>1, ViewedStays
  <2>5. \A v \in ToSet(p[n].ops) :
           /\ v \in Ops(g) /\ v \in view[v]
           /\ g.kind[v] \in {"kernel", "alias", "append"}
    BY <1>1, <2>1, GraphFacts DEF PlanNodes, BelongsToExecutable, Kinds
  <2>6. \A v \in direct : g.kind[v] # "append"
    BY <2>2, GraphFacts
  <2>7. ASSUME NEW u \in p[n].exports
        PROVE  /\ u \in ToSet(p[n].ops) /\ g.kind[u] \in {"kernel", "alias"}
               /\ IsAlias(g, u) =>
                     AliasSource(g, u) \in p[n].exports \/ NodeOf(p, AliasSource(g, u)) # n
    <3>1. PICK v \in direct : u \in view[v]
      BY <2>3
    <3>2. v \in ToSet(p[n].ops)
      BY <2>2
    <3>3. view[v] \subseteq p[n].exports
      BY <2>3
    <3> QED BY <2>4, <2>5, <2>6, <3>1, <3>2, <3>3
  <2>8. direct \subseteq p[n].exports
    BY <2>2, <2>3, <2>5
  <2> QED BY <2>2, <2>7, <2>8
<1>6. PlanBorders(g, p)
  BY <1>4, <1>5 DEF PlanBorders
<1> QED BY <1>6 DEF p
-----------------------------------------------------------------------------
(* The books of a run                                                       *)

LEMMA PutIs ==
    ASSUME NEW f, NEW k, NEW x
    PROVE  /\ DOMAIN Put(f, k, x) = DOMAIN f \cup {k}
           /\ Put(f, k, x)[k] = x
           /\ \A j \in DOMAIN f : j # k => Put(f, k, x)[j] = f[j]
  BY DEF Put

LEMMA WithoutIs ==
    ASSUME NEW f, NEW keys
    PROVE  /\ DOMAIN Without(f, keys) = DOMAIN f \ keys
           /\ \A j \in DOMAIN f \ keys : Without(f, keys)[j] = f[j]
  BY DEF Without

LEMMA BoundMore ==
    ASSUME NEW bound, NEW v, v \notin DOMAIN bound, NEW b
    PROVE  \A c : BoundTo(Put(bound, v, b), c) =
                     IF c = b THEN BoundTo(bound, c) \cup {v} ELSE BoundTo(bound, c)
  BY DEF BoundTo, Put

LEMMA BooksFinite ==
    ASSUME NEW s, NEW O, IsFiniteSet(O), NEW H, NEW W, Books(s, O, H, W)
    PROVE  \A c : IsFiniteSet(BoundTo(s.bound, c)) /\ Cardinality(BoundTo(s.bound, c)) \in Nat
<1> TAKE c
<1>1. BoundTo(s.bound, c) \in SUBSET O
  BY DEF Books, BoundTo
<1> QED BY <1>1, FS_Subset, FS_CardinalityType

\* A value is bound to a buffer that is allocated.
LEMMA BooksAdd ==
    ASSUME NEW s, NEW O, IsFiniteSet(O), NEW H, NEW W, Books(s, O, H, W),
           NEW v \in O, v \notin DOMAIN s.bound, NEW b \in H, NEW owned \in BOOLEAN,
           owned => b \notin W, b \notin DOMAIN s.refs => (owned <=> b \notin W)
    PROVE  /\ Books(AddBuffer(s, v, b, owned), O, H, W)
           /\ AddBuffer(s, v, b, owned).bound = Put(s.bound, v, b)
           /\ AddBuffer(s, v, b, owned).paged = s.paged
           /\ DOMAIN AddBuffer(s, v, b, owned).refs = DOMAIN s.refs \cup {b}
<1> DEFINE ref == IF b \in DOMAIN s.refs THEN s.refs[b] ELSE [count |-> 0, owned |-> FALSE]
           more == [count |-> ref.count + 1, owned |-> ref.owned \/ owned]
           r == AddBuffer(s, v, b, owned)
           Counts == [count : Nat \ {0}, owned : BOOLEAN]
<1>1. r = [[s EXCEPT !.refs = Put(@, b, more)] EXCEPT !.bound = Put(@, v, b)]
  BY DEF AddBuffer, AddRef
<1>2. /\ DOMAIN r = {"bound", "refs", "retired", "paged"}
      /\ r.bound = Put(s.bound, v, b) /\ r.refs = Put(s.refs, b, more)
      /\ r.retired = s.retired /\ r.paged = s.paged
      /\ r = [bound |-> r.bound, refs |-> r.refs, retired |-> r.retired, paged |-> r.paged]
  <2> HIDE DEF more, r
  <2> QED BY <1>1 DEF Books
<1>3. /\ ref.count \in Nat /\ ref.owned \in BOOLEAN /\ more \in Counts
      /\ b \in DOMAIN s.refs => ref = s.refs[b]
      /\ b \notin DOMAIN s.refs => ref.count = 0 /\ ~ref.owned
  <2>1. CASE b \in DOMAIN s.refs
    <3>1. s.refs[b] \in Counts /\ ref = s.refs[b]
      BY <2>1 DEF Books
    <3>2. ref.count \in Nat /\ ref.count + 1 \in Nat \ {0}
      BY <3>1
    <3>3. ref.owned \in BOOLEAN /\ (ref.owned \/ owned) \in BOOLEAN
      BY <3>1
    <3> HIDE DEF ref
    <3> QED BY <2>1, <3>1, <3>2, <3>3
  <2>2. CASE b \notin DOMAIN s.refs
    <3>1. ref.count = 0 /\ ref.owned = FALSE
      BY <2>2
    <3>2. ref.count \in Nat /\ ref.count + 1 \in Nat \ {0}
      BY <3>1
    <3>3. ref.owned \in BOOLEAN /\ (ref.owned \/ owned) \in BOOLEAN
      BY <3>1
    <3> HIDE DEF ref
    <3> QED BY <2>2, <3>1, <3>2, <3>3
  <2> QED BY <2>1, <2>2
<1>4. more.count = Cardinality(BoundTo(r.bound, b))
  <2>1. BoundTo(r.bound, b) = BoundTo(s.bound, b) \cup {v}
    BY <1>2, BoundMore
  <2>2. v \notin BoundTo(s.bound, b)
    BY DEF BoundTo
  <2>3. Cardinality(BoundTo(r.bound, b)) = Cardinality(BoundTo(s.bound, b)) + 1
    BY <2>1, <2>2, BooksFinite, FS_AddElement
  <2>4. ref.count = Cardinality(BoundTo(s.bound, b))
    <3>1. CASE b \in DOMAIN s.refs
      BY <1>3, <3>1 DEF Books
    <3>2. CASE b \notin DOMAIN s.refs
      <4>1. BoundTo(s.bound, b) = {}
        BY <3>2 DEF Books, BoundTo
      <4> QED BY <1>3, <3>2, <4>1, FS_EmptySet
    <3> QED BY <3>1, <3>2
  <2> HIDE DEF ref, r
  <2> QED BY <2>3, <2>4
<1>5. more.owned <=> b \notin W
  BY <1>3 DEF Books
<1> HIDE DEF ref, more, r, Counts
<1>6. \A c \in DOMAIN r.refs : /\ r.refs[c] \in Counts /\ c \in H
                               /\ r.refs[c].count = Cardinality(BoundTo(r.bound, c))
                               /\ r.refs[c].owned <=> c \notin W
  <2> TAKE c \in DOMAIN r.refs
  <2>1. CASE c = b
    <3>1. r.refs[c] = more
      BY <1>2, <2>1 DEF Put
    <3> QED BY <1>3, <1>4, <1>5, <2>1, <3>1
  <2>2. CASE c # b
    <3>1. c \in DOMAIN s.refs /\ r.refs[c] = s.refs[c]
      BY <1>2, <2>2 DEF Put
    <3>2. BoundTo(r.bound, c) = BoundTo(s.bound, c)
      BY <1>2, <2>2, BoundMore
    <3> QED BY <3>1, <3>2 DEF Books, Counts
  <2> QED BY <2>1, <2>2
<1>7. r.bound \in [DOMAIN r.bound -> DOMAIN r.refs] /\ DOMAIN r.bound \subseteq O
  BY <1>2 DEF Books, Put
<1>8. r.refs \in [DOMAIN r.refs -> Counts]
  BY <1>2, <1>6 DEF Put
<1>9. Books(r, O, H, W)
  BY <1>2, <1>6, <1>7, <1>8 DEF Books, Counts
<1>10. DOMAIN r.refs = DOMAIN s.refs \cup {b}
  BY <1>2 DEF Put
<1> QED BY <1>2, <1>9, <1>10 DEF r

Unbound(s, v) == [DropRef(s, v) EXCEPT !.bound = Without(@, {v})]

\* A value gives up its buffer, which is nobody's then if it was the last one.
LEMMA BooksDrop ==
    ASSUME NEW s, NEW O, IsFiniteSet(O), NEW H, NEW W, Books(s, O, H, W),
           NEW v \in DOMAIN s.bound
    PROVE  /\ Books(Unbound(s, v), O, H, W)
           /\ Unbound(s, v).bound = Without(s.bound, {v}) /\ Unbound(s, v).paged = s.paged
           /\ DOMAIN Unbound(s, v).refs = IF s.refs[s.bound[v]].count = 1
                                          THEN DOMAIN s.refs \ {s.bound[v]} ELSE DOMAIN s.refs
<1> DEFINE r == Unbound(s, v)
           b == s.bound[v]
           n == s.refs[b].count
           Counts == [count : Nat \ {0}, owned : BOOLEAN]
           less == [s.refs[b] EXCEPT !.count = @ - 1]
           newRefs == IF n > 1 THEN [s.refs EXCEPT ![b] = less] ELSE Without(s.refs, {b})
<1>1. b \in DOMAIN s.refs /\ s.refs[b] \in Counts /\ n \in Nat \ {0}
  BY DEF Books
<1>2. /\ DOMAIN r = {"bound", "refs", "retired", "paged"}
      /\ r.bound = Without(s.bound, {v}) /\ r.refs = newRefs
      /\ r.retired = s.retired /\ r.paged = s.paged
      /\ r = [bound |-> r.bound, refs |-> r.refs, retired |-> r.retired, paged |-> r.paged]
  <2>1. CASE n > 1
    <3>1. r = [[s EXCEPT !.refs = [s.refs EXCEPT ![b] = less]]
                  EXCEPT !.bound = Without(s.bound, {v})]
      BY <2>1 DEF Unbound, DropRef, Books
    <3> HIDE DEF less
    <3> QED BY <2>1, <3>1 DEF Books
  <2>2. CASE ~(n > 1)
    <3>1. r = [[s EXCEPT !.refs = Without(s.refs, {b})]
                  EXCEPT !.bound = Without(s.bound, {v})]
      BY <2>2 DEF Unbound, DropRef, Books
    <3> HIDE DEF r
    <3> QED BY <2>2, <3>1 DEF Books
  <2> QED BY <2>1, <2>2
<1>3. Cardinality(BoundTo(r.bound, b)) = n - 1 /\ IsFiniteSet(BoundTo(r.bound, b))
  <2>1. BoundTo(r.bound, b) = BoundTo(s.bound, b) \ {v} /\ v \in BoundTo(s.bound, b)
    <3>1. v \in BoundTo(s.bound, b)
      BY DEF BoundTo
    <3> QED BY <1>2, <3>1 DEF BoundTo, Without
  <2>2. n = Cardinality(BoundTo(s.bound, b)) /\ IsFiniteSet(BoundTo(s.bound, b))
    BY <1>1, BooksFinite DEF Books
  <2> HIDE DEF b, n
  <2> QED BY <2>1, <2>2, FS_RemoveElement
<1>4. /\ DOMAIN newRefs = IF n = 1 THEN DOMAIN s.refs \ {b} ELSE DOMAIN s.refs
      /\ \A c \in DOMAIN newRefs : c # b => newRefs[c] = s.refs[c]
      /\ b \in DOMAIN newRefs => newRefs[b] \in Counts /\ newRefs[b].count = n - 1
                                 /\ newRefs[b].owned = s.refs[b].owned
  <2>1. CASE n > 1
    <3>1. less \in Counts /\ less.count = n - 1 /\ less.owned = s.refs[b].owned
      BY <1>1, <2>1
    <3> HIDE DEF less
    <3>2. n # 1
      BY <1>1, <2>1
    <3> QED BY <1>1, <2>1, <3>1, <3>2 DEF Books
  <2>2. CASE ~(n > 1)
    <3>1. n = 1
      BY <1>1, <2>2
    <3> HIDE DEF n
    <3> QED BY <2>2, <3>1 DEF Without
  <2> QED BY <2>1, <2>2
<1> HIDE DEF newRefs, Counts
<1>5. \A c \in DOMAIN r.refs : /\ r.refs[c] \in Counts /\ c \in H
                               /\ r.refs[c].count = Cardinality(BoundTo(r.bound, c))
                               /\ r.refs[c].owned <=> c \notin W
  <2> TAKE c \in DOMAIN r.refs
  <2>1. CASE c = b
    BY <1>1, <1>2, <1>3, <1>4, <2>1 DEF Books
  <2>2. CASE c # b
    <3>1. c \in DOMAIN s.refs /\ r.refs[c] = s.refs[c]
      BY <1>2, <1>4, <2>2
    <3>2. BoundTo(r.bound, c) = BoundTo(s.bound, c)
      BY <1>2, <2>2 DEF BoundTo, Without
    <3> QED BY <3>1, <3>2 DEF Books, Counts
  <2> QED BY <2>1, <2>2
<1>6. \A u \in DOMAIN r.bound : r.bound[u] \in DOMAIN r.refs
  <2> TAKE u \in DOMAIN r.bound
  <2>1. u \in DOMAIN s.bound /\ u # v /\ r.bound[u] = s.bound[u]
    BY <1>2 DEF Without
  <2>2. CASE s.bound[u] # b \/ n # 1
    BY <1>1, <1>2, <1>4, <2>1, <2>2 DEF Books
  <2>3. CASE s.bound[u] = b /\ n = 1
    <3>1. u \in BoundTo(r.bound, b)
      BY <2>1, <2>3 DEF BoundTo
    <3>2. BoundTo(r.bound, b) = {}
      <4> HIDE DEF n
      <4> QED BY <1>3, <2>3, FS_EmptySet
    <3> QED BY <3>1, <3>2
  <2> QED BY <2>2, <2>3
<1>7. r.bound \in [DOMAIN r.bound -> DOMAIN r.refs] /\ DOMAIN r.bound \subseteq O
  BY <1>2, <1>6 DEF Books, Without
<1>8. r.refs \in [DOMAIN r.refs -> Counts]
  <2>1. r.refs = [c \in DOMAIN r.refs |-> r.refs[c]]
    BY <1>2 DEF newRefs, Without, Books
  <2> QED BY <1>5, <2>1
<1>9. Books(r, O, H, W)
  BY <1>2, <1>5, <1>7, <1>8 DEF Books, Counts
<1> QED BY <1>2, <1>4, <1>9
LEMMA BooksMore ==
    ASSUME NEW s, NEW O, NEW H, NEW W, Books(s, O, H, W), NEW H2, H \subseteq H2
    PROVE  Books(s, O, H2, W)
  BY DEF Books

LEMMA AddSame ==
    ASSUME NEW s, NEW O, NEW H, NEW W, Books(s, O, H, W), NEW v \in DOMAIN s.bound
    PROVE  AddBuffer(s, v, s.bound[v], FALSE) = s
<1> DEFINE b == s.bound[v]
           r == AddBuffer(s, v, b, FALSE)
           same == [s.refs[b] EXCEPT !.owned = @ \/ FALSE]
<1>1. r = [s EXCEPT !.refs = [s.refs EXCEPT ![b] = same]]
  BY DEF AddBuffer
<1>2. b \in DOMAIN s.refs /\ s.refs[b] \in [count : Nat \ {0}, owned : BOOLEAN]
  BY DEF Books
<1>3. same = s.refs[b]
  <2>1. (s.refs[b].owned \/ FALSE) = s.refs[b].owned
    BY <1>2
  <2>2. same = [s.refs[b] EXCEPT !.owned = s.refs[b].owned]
    BY <2>1, Zenon
  <2> HIDE DEF same
  <2> QED BY <1>2, <2>2
<1>4. [s.refs EXCEPT ![b] = same] = s.refs
  <2> HIDE DEF b, same
  <2> QED BY <1>2, <1>3 DEF Books
<1> HIDE DEF r, same
<1>5. r = [s EXCEPT !.refs = s.refs]
  BY <1>1, <1>4
<1>6. r = s
  BY <1>5 DEF Books
<1> QED BY <1>6 DEF r

-----------------------------------------------------------------------------
(* The merge after a node                                                   *)

PlaceIn(g, bound, scratch, v) ==
    LET place[u \in Ops(g)] ==
        IF u \in DOMAIN bound THEN bound[u]
        ELSE IF IsAlias(g, u) THEN place[AliasSource(g, u)]
        ELSE scratch
    IN  place[v]

LEMMA PlaceInIs ==
    ASSUME NEW g \in Graphs, NEW bound, NEW scratch, NEW v \in Ops(g)
    PROVE  PlaceIn(g, bound, scratch, v) =
              IF v \in DOMAIN bound THEN bound[v]
              ELSE IF IsAlias(g, v) THEN PlaceIn(g, bound, scratch, AliasSource(g, v))
              ELSE scratch
<1> DEFINE n == Size(g)
           D == {bound[u] : u \in DOMAIN bound} \cup {scratch}
           step == [k \in 1..n |-> [f \in [1..(k - 1) -> D] |->
                      IF k \in DOMAIN bound THEN bound[k]
                      ELSE IF IsAlias(g, k) THEN f[AliasSource(g, k)] ELSE scratch]]
           Is(f) == f = [u \in Ops(g) |->
                      IF u \in DOMAIN bound THEN bound[u]
                      ELSE IF IsAlias(g, u) THEN f[AliasSource(g, u)]
                      ELSE scratch]
<1>1. n \in Nat /\ Ops(g) = 1..n
  BY GraphFacts
<1>2. \A u \in 1..n : IsAlias(g, u) => AliasSource(g, u) \in 1..(u - 1)
  <2> TAKE u \in 1..n
  <2> HAVE IsAlias(g, u)
  <2>1. AliasSource(g, u) \in Ops(g) /\ AliasSource(g, u) < u
    BY <1>1, GraphFacts DEF IsAlias
  <2> QED BY <1>1, <2>1
<1>3. StepsIn(D, n, step)
  BY <1>1, <1>2 DEF StepsIn
<1>4. PICK f \in [1..n -> D] : Follows(f, n, step)
  <2> HIDE DEF D, step, n, Is
  <2> QED BY <1>1, <1>3, Recursion
<1>5. \A k \in 1..n : f[k] = IF k \in DOMAIN bound THEN bound[k]
                             ELSE IF IsAlias(g, k) THEN f[AliasSource(g, k)] ELSE scratch
  <2> TAKE k \in 1..n
  <2> DEFINE h == Before(f, k)
  <2>1. h \in [1..(k - 1) -> D] /\ \A j \in 1..(k - 1) : h[j] = f[j]
    <3> HIDE DEF D
    <3> QED BY <1>1 DEF Before
  <2>2. f[k] = IF k \in DOMAIN bound THEN bound[k]
               ELSE IF IsAlias(g, k) THEN h[AliasSource(g, k)] ELSE scratch
    <3> HIDE DEF h, D
    <3>1. f[k] = step[k][h]
      BY <1>4 DEF h, Follows
    <3> QED BY <2>1, <3>1
  <2> QED BY <1>2, <2>1, <2>2
<1>6. Is(f)
  BY <1>1, <1>5
<1>7. Is(CHOOSE h : Is(h))
  <2> HIDE DEF Is
  <2> QED BY <1>6
<1>8. \A u \in Ops(g) : PlaceIn(g, bound, scratch, u) = (CHOOSE h : Is(h))[u]
  BY DEF PlaceIn
<1>9. IsAlias(g, v) => AliasSource(g, v) \in Ops(g)
  BY <1>1, <1>2
<1> HIDE DEF Is
<1>10. \A u \in Ops(g) : (CHOOSE h : Is(h))[u] =
          IF u \in DOMAIN bound THEN bound[u]
          ELSE IF IsAlias(g, u) THEN (CHOOSE h : Is(h))[AliasSource(g, u)]
          ELSE scratch
  BY <1>7 DEF Is
<1> QED BY <1>8, <1>9, <1>10

\* u and v are views of one tensor.
SameView(g, u, v) == ShownIn(g, u) = ShownIn(g, v) /\ g.device[u] = g.device[v]

\* An export is where a value is bound that shows the same.
LEMMA ExportsPlaced ==
    ASSUME NEW g \in Graphs, NEW p, PlanNodes(g, p), PlanBorders(g, p), NEW n \in DOMAIN p,
           NEW bound, NEW scratch,
           \A v \in p[n].exports : v \in DOMAIN bound \/ IsAlias(g, v),
           \A v \in p[n].imports : v \in DOMAIN bound \/ g.kind[v] = "cache"
    PROVE  \A v \in p[n].exports :
              \E u \in DOMAIN bound : /\ PlaceIn(g, bound, scratch, v) = bound[u]
                                      /\ SameView(g, u, v)
<1> DEFINE N == Size(g)
           OK(v) == \E u \in DOMAIN bound : /\ PlaceIn(g, bound, scratch, v) = bound[u]
                                            /\ SameView(g, u, v)
           T == {v \in Ops(g) : v \in p[n].exports => OK(v)}
<1>1. N \in Nat /\ Ops(g) = 1..N
  BY GraphFacts
<1>2. \A v \in Ops(g) : v \in DOMAIN bound => OK(v)
  BY PlaceInIs DEF SameView
<1>3. ASSUME NEW v \in 1..N, \A j \in 1..(v - 1) : j \in T PROVE v \in T
  <2> SUFFICES ASSUME v \in p[n].exports, v \notin DOMAIN bound PROVE OK(v)
    BY <1>1, <1>2
  <2> DEFINE w == AliasSource(g, v)
  <2>1. IsAlias(g, v) /\ v \in ToSet(p[n].ops)
    BY DEF PlanBorders
  <2>2. w \in Ops(g) /\ w < v /\ w \in Reads(g, v) /\ g.kind[w] # "cache"
    BY <1>1, <2>1, GraphFacts DEF IsAlias
  <2>3. OK(w)
    <3>1. CASE w \in p[n].exports
      <4>1. w \in 1..(v - 1)
        BY <1>1, <2>2
      <4> QED BY <1>3, <3>1, <4>1
    <3>2. CASE w \notin p[n].exports
      <4>1. NodeOf(p, w) # n
        BY <2>1, <3>2 DEF PlanBorders
      <4>2. w \in p[n].imports
        BY <2>1, <2>2, <4>1 DEF PlanBorders
      <4> QED BY <1>2, <2>2, <4>2
    <3> QED BY <3>1, <3>2
  <2>4. PlaceIn(g, bound, scratch, v) = PlaceIn(g, bound, scratch, w)
    BY <1>1, <2>1, PlaceInIs
  <2>5. SameView(g, w, v)
    <3>1. g.device[w] = g.device[v]
      BY <1>1, <2>1, <2>2, GraphFacts DEF IsAlias
    <3> QED BY <1>1, <2>1, <3>1, ShownIs DEF SameView
  <2> QED BY <2>3, <2>4, <2>5 DEF SameView
<1>4. \A v \in 1..N : v \in T
  <2> HIDE DEF T, N
  <2> QED BY <1>1, <1>3, ByEarlier
<1>5. \A v \in p[n].exports : v \in Ops(g)
  BY DEF PlanBorders, PlanNodes
<1> QED BY <1>1, <1>4, <1>5
\* x is s with the exports up to k bound to where they are placed.
Merged(x, s, place, k, O, H, W) ==
    /\ Books(x, O, H, W) /\ x.paged = s.paged /\ DOMAIN x.refs = DOMAIN s.refs
    /\ DOMAIN x.bound = DOMAIN s.bound \cup {v \in DOMAIN place : v <= k}
    /\ \A v \in DOMAIN s.bound : x.bound[v] = s.bound[v]
    /\ \A v \in DOMAIN place : v <= k => x.bound[v] = place[v]

MergeOne(x, place, k) == IF k \in DOMAIN place THEN AddBuffer(x, k, place[k], FALSE) ELSE x

\* What a view may be placed in.
Placed(s, place) ==
    /\ \A v \in DOMAIN place : \E u \in DOMAIN s.bound : place[v] = s.bound[u]
    /\ \A v \in DOMAIN place : v \in DOMAIN s.bound => place[v] = s.bound[v]

LEMMA MergeStep ==
    ASSUME NEW g \in Graphs, NEW s, NEW H, NEW W, Books(s, Ops(g), H, W),
           NEW place, DOMAIN place \subseteq Ops(g), Placed(s, place),
           NEW x, NEW k \in Ops(g), Merged(x, s, place, k - 1, Ops(g), H, W)
    PROVE  Merged(MergeOne(x, place, k), s, place, k, Ops(g), H, W)
<1>1. Size(g) \in Nat /\ Ops(g) = 1..Size(g) /\ IsFiniteSet(Ops(g))
  BY GraphFacts, FS_Interval
<1>2. \A v \in DOMAIN place : v <= k <=> v <= k - 1 \/ v = k
  BY <1>1
<1>3. /\ Books(x, Ops(g), H, W) /\ x.paged = s.paged /\ DOMAIN x.refs = DOMAIN s.refs
      /\ DOMAIN x.bound = DOMAIN s.bound \cup {v \in DOMAIN place : v <= k - 1}
      /\ \A v \in DOMAIN s.bound : x.bound[v] = s.bound[v]
      /\ \A v \in DOMAIN place : v <= k - 1 => x.bound[v] = place[v]
  BY DEF Merged
<1>4. CASE k \notin DOMAIN place
  <2>1. MergeOne(x, place, k) = x
    BY <1>4 DEF MergeOne
  <2>2. \A v \in DOMAIN place : v <= k <=> v <= k - 1
    BY <1>2, <1>4
  <2> QED BY <1>3, <2>1, <2>2 DEF Merged
<1>5. CASE k \in DOMAIN place /\ k \in DOMAIN s.bound
  <2>1. place[k] = x.bound[k] /\ k \in DOMAIN x.bound
    BY <1>3, <1>5 DEF Placed
  <2>2. MergeOne(x, place, k) = x
    BY <1>3, <1>5, <2>1, AddSame DEF MergeOne
  <2>3. DOMAIN x.bound = DOMAIN s.bound \cup {v \in DOMAIN place : v <= k}
    BY <1>2, <1>3, <1>5
  <2>4. \A v \in DOMAIN place : v <= k => x.bound[v] = place[v]
    BY <1>2, <1>3, <2>1
  <2> QED BY <1>3, <2>2, <2>3, <2>4 DEF Merged
<1>6. CASE k \in DOMAIN place /\ k \notin DOMAIN s.bound
  <2> DEFINE r == AddBuffer(x, k, place[k], FALSE)
  <2>1. MergeOne(x, place, k) = r
    BY <1>6 DEF MergeOne
  <2>2. k \notin DOMAIN x.bound
    BY <1>1, <1>3, <1>6
  <2>3. place[k] \in DOMAIN x.refs /\ place[k] \in H
    BY <1>3, <1>6 DEF Placed, Books
  <2>4. /\ Books(r, Ops(g), H, W) /\ r.bound = Put(x.bound, k, place[k])
        /\ r.paged = x.paged /\ DOMAIN r.refs = DOMAIN x.refs \cup {place[k]}
    <3> DEFINE no == FALSE
    <3>1. /\ no \in BOOLEAN /\ (no => place[k] \notin W)
          /\ place[k] \notin DOMAIN x.refs => (no <=> place[k] \notin W)
          /\ r = AddBuffer(x, k, place[k], no)
      BY <2>3
    <3>2. IsFiniteSet(Ops(g)) /\ Books(x, Ops(g), H, W)
      BY <1>1, <1>3
    <3> HIDE DEF no, r
    <3> QED BY <2>2, <2>3, <3>1, <3>2, BooksAdd
  <2> HIDE DEF r
  <2>5. DOMAIN r.bound = DOMAIN s.bound \cup {v \in DOMAIN place : v <= k}
    BY <1>2, <1>3, <1>6, <2>4 DEF Put
  <2>6. \A v \in DOMAIN s.bound : r.bound[v] = s.bound[v]
    BY <1>3, <1>6, <2>4 DEF Put
  <2>7. \A v \in DOMAIN place : v <= k => r.bound[v] = place[v]
    BY <1>2, <1>3, <2>4 DEF Put
  <2> QED BY <1>3, <2>1, <2>3, <2>4, <2>5, <2>6, <2>7 DEF Merged
<1> QED BY <1>4, <1>5, <1>6

\* A set of states of a run that all merges from s are in.
Merges(s, O, H) ==
    [bound : UNION {[S -> H] : S \in SUBSET O},
     refs : UNION {[S -> [count : Nat \ {0}, owned : BOOLEAN]] : S \in SUBSET H},
     retired : {<<>>}, paged : {s.paged}]

LEMMA MergedIn ==
    ASSUME NEW s, NEW place, NEW k, NEW O, NEW H, NEW W, NEW x, Merged(x, s, place, k, O, H, W)
    PROVE  x \in Merges(s, O, H)
<1>1. /\ x = [bound |-> x.bound, refs |-> x.refs, retired |-> x.retired, paged |-> x.paged]
      /\ x.bound \in [DOMAIN x.bound -> H] /\ DOMAIN x.bound \in SUBSET O
      /\ x.refs \in [DOMAIN x.refs -> [count : Nat \ {0}, owned : BOOLEAN]]
      /\ DOMAIN x.refs \in SUBSET H
      /\ x.retired = <<>> /\ x.paged = s.paged
  BY DEF Merged, Books
<1>2. x.bound \in UNION {[S -> H] : S \in SUBSET O}
  BY <1>1
<1>3. x.refs \in UNION {[S -> [count : Nat \ {0}, owned : BOOLEAN]] : S \in SUBSET H}
  BY <1>1
<1> QED BY <1>1, <1>2, <1>3 DEF Merges

BindIn(g, s, exports, place) ==
    LET after[v \in 0..Len(g.kind)] ==
        IF v = 0 THEN s
        ELSE IF v \in exports THEN AddBuffer(after[v - 1], v, place[v], FALSE)
        ELSE after[v - 1]
    IN  after[Len(g.kind)]

LEMMA BindInIs ==
    ASSUME NEW g \in Graphs, NEW s, NEW H, NEW W, Books(s, Ops(g), H, W),
           NEW exports \in SUBSET Ops(g),
           NEW place, DOMAIN place = exports, Placed(s, place)
    PROVE  Merged(BindIn(g, s, exports, place), s, place, Size(g), Ops(g), H, W)
<1> DEFINE n == Size(g)
           O == Ops(g)
           D == Merges(s, O, H)
           OK(x, k) == Merged(x, s, place, k, O, H, W)
           step == [k \in 1..n |-> [x \in D |->
                      IF OK(x, k - 1) THEN MergeOne(x, place, k) ELSE x]]
           Is(f) == f = [v \in 0..n |->
                      IF v = 0 THEN s
                      ELSE IF v \in exports THEN AddBuffer(f[v - 1], v, place[v], FALSE)
                      ELSE f[v - 1]]
<1>1. n \in Nat /\ O = 1..n
  BY GraphFacts
<1>2. OK(s, 0)
  <2>1. {v \in DOMAIN place : v <= 0} = {}
    BY <1>1
  <2> QED BY <2>1 DEF Merged
<1>3. s \in D
  BY <1>2, MergedIn
<1>4. \A k \in 1..n : \A x : OK(x, k - 1) => OK(MergeOne(x, place, k), k)
  BY <1>1, MergeStep
<1> HIDE DEF OK, D
<1>5. StaysIn(D, n, step)
  <2>1. \A k \in 1..n : \A x \in D : OK(x, k - 1) => MergeOne(x, place, k) \in D
    <3> TAKE k \in 1..n
    <3> TAKE x \in D
    <3> HAVE OK(x, k - 1)
    <3>1. OK(MergeOne(x, place, k), k)
      BY <1>4
    <3> QED BY <3>1, MergedIn DEF OK, D
  <2> QED BY <2>1 DEF StaysIn
<1>6. PICK f \in [0..n -> D] : Iterates(f, n, s, step)
  <2> HIDE DEF step, n, Is
  <2> QED BY <1>1, <1>3, <1>5, Iteration
<1>7. \A k \in 1..n : OK(f[k - 1], k - 1) => f[k] = MergeOne(f[k - 1], place, k)
  <2> TAKE k \in 1..n
  <2> HAVE OK(f[k - 1], k - 1)
  <2>1. f[k] = step[k][f[k - 1]]
    <3> HIDE DEF step, n
    <3> QED BY <1>6 DEF Iterates
  <2>2. k - 1 \in 0..n
    BY <1>1
  <2>3. f[k - 1] \in D
    BY <1>6, <2>2
  <2> QED BY <2>1, <2>3
<1>8. \A k \in 0..n : OK(f[k], k)
  <2> DEFINE T == {k \in 0..n : OK(f[k], k)}
  <2>1. 0 \in T
    BY <1>1, <1>2, <1>6 DEF Iterates
  <2>2. \A k \in 1..n : k - 1 \in T => k \in T
    <3> TAKE k \in 1..n
    <3> HAVE k - 1 \in T
    <3>1. k \in 0..n /\ OK(f[k - 1], k - 1)
      BY <1>1
    <3> QED BY <1>4, <1>7, <3>1
  <2>3. \A k \in 0..n : k \in T
    <3> HIDE DEF T
    <3> QED BY <1>1, <2>1, <2>2, ByPrevious
  <2> QED BY <2>3
<1>9. Is(f)
  <2>1. \A k \in 0..n : f[k] = IF k = 0 THEN s ELSE MergeOne(f[k - 1], place, k)
    <3> TAKE k \in 0..n
    <3>1. CASE k = 0
      BY <1>6, <3>1 DEF Iterates
    <3>2. CASE k # 0
      <4>1. k \in 1..n /\ k - 1 \in 0..n
        BY <1>1, <3>2
      <4> QED BY <1>7, <1>8, <3>2, <4>1
    <3> QED BY <3>1, <3>2
  <2> QED BY <2>1 DEF MergeOne
<1> DEFINE h == CHOOSE x : Is(x)
<1>10. Is(h)
  <2> HIDE DEF Is
  <2> QED BY <1>9
<1>11. BindIn(g, s, exports, place) = h[n]
  BY DEF BindIn, Size
<1> HIDE DEF h
<1>12. h[0] = s /\ \A k \in 1..n : h[k] = MergeOne(h[k - 1], place, k)
  <2>1. h[0] = s
    BY <1>1, <1>10
  <2>2. ASSUME NEW k \in 1..n PROVE h[k] = MergeOne(h[k - 1], place, k)
    <3>1. k \in 0..n /\ k # 0
      BY <1>1
    <3>2. h[k] = IF k \in exports THEN AddBuffer(h[k - 1], k, place[k], FALSE)
                 ELSE h[k - 1]
      <4> HIDE DEF n
      <4> QED BY <1>10, <3>1
    <3> QED BY <3>2 DEF MergeOne
  <2> QED BY <2>1, <2>2
<1>13. \A k \in 0..n : OK(h[k], k)
  <2> DEFINE T == {k \in 0..n : OK(h[k], k)}
  <2>1. 0 \in T
    BY <1>1, <1>2, <1>12
  <2>2. \A k \in 1..n : k - 1 \in T => k \in T
    <3> TAKE k \in 1..n
    <3> HAVE k - 1 \in T
    <3>1. k \in 0..n /\ OK(h[k - 1], k - 1)
      BY <1>1
    <3> QED BY <1>4, <1>12, <3>1
  <2>3. \A k \in 0..n : k \in T
    <3> HIDE DEF T
    <3> QED BY <1>1, <2>1, <2>2, ByPrevious
  <2> QED BY <2>3
<1> QED BY <1>1, <1>11, <1>13 DEF OK
-----------------------------------------------------------------------------
(* The devices                                                              *)

LEMMA HeapGrows ==
    ASSUME HeapInv, NEW d \in Devices, NEW content, Allocate(d, content)
    PROVE  /\ HeapInv'
           /\ DOMAIN heap' = DOMAIN heap \cup {Fresh(d)}
           /\ Fresh(d) \notin DOMAIN heap
           /\ heap'[Fresh(d)] = content /\ Fresh(d)[1] = d
           /\ \A b \in DOMAIN heap : heap'[b] = heap[b]
           /\ \A e \in Devices : nextBuffer[e] \in Nat /\ nextBuffer'[e] \in Nat
                                 /\ nextBuffer[e] <= nextBuffer'[e]
           /\ nextBuffer[d] < nextBuffer'[d]
<1> DEFINE b == Fresh(d)
<1>1. /\ nextBuffer \in [Devices -> Nat \ {0}]
      /\ nextBuffer' = [nextBuffer EXCEPT ![d] = @ + 1]
      /\ nextBuffer' \in [Devices -> Nat \ {0}]
      /\ \A e \in Devices : nextBuffer[e] <= nextBuffer'[e]
  BY DEF HeapInv, Allocate
<1>2. b = <<d, nextBuffer[d]>> /\ b \in Buffers /\ b[1] = d /\ b[2] = nextBuffer[d]
      /\ b[2] < nextBuffer'[d]
  BY <1>1 DEF Fresh, Buffers
<1>3. \A c \in DOMAIN heap : c \in Buffers /\ c[1] \in Devices /\ c[2] \in Nat
                             /\ c[2] < nextBuffer[c[1]]
  BY DEF HeapInv, Buffers
<1>4. b \notin DOMAIN heap
  BY <1>1, <1>2, <1>3
<1>7. /\ DOMAIN heap' = DOMAIN heap \cup {b} /\ heap'[b] = content
      /\ \A c \in DOMAIN heap : heap'[c] = heap[c]
  BY <1>4 DEF Allocate, Put
<1> HIDE DEF b
<1>8. HeapInv'
  <2>1. \A c \in DOMAIN heap' : c \in Buffers /\ c[2] < nextBuffer'[c[1]]
    <3> TAKE c \in DOMAIN heap'
    <3>1. CASE c = b
      BY <1>2, <3>1
    <3>2. CASE c \in DOMAIN heap
      <4>1. c[2] < nextBuffer[c[1]] /\ nextBuffer[c[1]] <= nextBuffer'[c[1]]
            /\ c[2] \in Nat /\ nextBuffer[c[1]] \in Nat /\ nextBuffer'[c[1]] \in Nat
        BY <1>1, <1>3, <3>2
      <4> QED BY <1>3, <3>2, <4>1
    <3> QED BY <1>7, <3>1, <3>2
  <2> QED BY <1>1, <2>1 DEF HeapInv, Buffers
<1>9. \A e \in Devices : nextBuffer[e] \in Nat /\ nextBuffer'[e] \in Nat
  BY <1>1
<1> QED BY <1>1, <1>2, <1>4, <1>7, <1>8, <1>9 DEF b

\* The weights stay as they are when a buffer is allocated.
LEMMA AllocateIs ==
    ASSUME HeapInv, WeightsHeld, weights' = weights,
           NEW d \in Devices, NEW content, Allocate(d, content)
    PROVE  WeightsHeld' /\ WeightBuffers' = WeightBuffers /\ Fresh(d) \notin WeightBuffers
<1>1. /\ DOMAIN heap' = DOMAIN heap \cup {Fresh(d)}
      /\ \A c \in DOMAIN heap : heap'[c] = heap[c]
      /\ nextBuffer[0] \in Nat /\ nextBuffer'[0] \in Nat /\ nextBuffer[0] <= nextBuffer'[0]
  BY HeapGrows, EngineAssumption
<1>2. Fresh(d) \notin WeightBuffers
  <2> SUFFICES ASSUME NEW name \in DOMAIN weights, Fresh(d) = <<0, weights[name]>> PROVE FALSE
    BY DEF WeightBuffers
  <2>1. d = 0 /\ weights[name] = nextBuffer[0]
    BY DEF Fresh
  <2>2. weights[name] \in Nat /\ weights[name] < nextBuffer[0]
    BY DEF WeightsHeld
  <2> QED BY <1>1, <2>1, <2>2
<1>3. WeightsHeld'
  <2>1. \A name \in DOMAIN weights : weights[name] < nextBuffer'[0]
    <3> TAKE name \in DOMAIN weights
    <3>1. weights[name] \in Nat /\ weights[name] < nextBuffer[0]
      BY DEF WeightsHeld
    <3> QED BY <1>1, <3>1
  <2> QED BY <1>1, <2>1 DEF WeightsHeld, Resident
<1> QED BY <1>2, <1>3 DEF WeightBuffers

LEMMA AdvanceIs ==
    ASSUME graph \in Graphs, at \in Ops(graph), NEW next, Advance(next)
    PROVE  /\ at' \in Ops(graph) /\ at' \in Nat \ {0}
           /\ \/ stage' = stage /\ at' = at + 1
              \/ stage' = next /\ at' = 1 /\ at = Size(graph)
<1>1. Size(graph) \in Nat \ {0} /\ Ops(graph) = 1..Size(graph)
  BY GraphFacts
<1> QED BY <1>1 DEF Advance, Size

\* A run that has not bound anything.
LEMMA FreshBooks ==
    ASSUME NEW O, NEW H, NEW W
    PROVE  /\ Books(FreshState, O, H, W)
           /\ DOMAIN FreshState.bound = {} /\ DOMAIN FreshState.paged = {}
           /\ DOMAIN FreshState.refs = {}
           /\ FreshState.paged \in [DOMAIN FreshState.paged -> Nat]
<1>1. DOMAIN <<>> = {} /\ \A S : <<>> \in [{} -> S]
  OBVIOUS
<1> QED BY <1>1 DEF Books, FreshState, Empty

LEMMA Freed ==
    ASSUME graph \in Graphs, rows \in [Caches -> Nat], state' = FreshState, graph' = graph,
           rows' \in [Caches -> Nat]
    PROVE  /\ StateBooks' /\ LengthInv'
           /\ stage' \in {"idle", "loading", "bind"} => StateInv'
<1>1. /\ Books(FreshState, Ops(graph'), DOMAIN heap', WeightBuffers')
      /\ DOMAIN FreshState.bound = {} /\ DOMAIN FreshState.paged = {}
      /\ FreshState.paged \in [DOMAIN FreshState.paged -> Nat]
  BY FreshBooks
<1> QED BY <1>1 DEF StateBooks, LengthInv, StateInv, Caches

-----------------------------------------------------------------------------
(* The rows that a node appends                                             *)

LEMMA GrownIs ==
    ASSUME TypeInv, LengthInv, StartsNode, NEW k \in 0..Len(plan[AtNode].ops)
    PROVE  /\ Grown(k) \in [Caches -> Nat]
           /\ \A c \in Caches : c \notin plan[AtNode].mutableImports => Grown(k)[c] = rows[c]
<1> DEFINE ops == plan[AtNode].ops
           Of(c) == {i \in 1..k : LET op == ops[i]
                                  IN  graph.kind[op] = "append" /\ graph.inputs[op][1] = c}
<1>1. PlanNodes(graph, plan) /\ PlanBorders(graph, plan)
  BY PartitionNodes, PartitionBorders DEF TypeInv
<1>2. AtNode \in DOMAIN plan /\ ops \in Seq(Ops(graph))
  BY <1>1 DEF PlanNodes, AtNode, StartsNode
<1>3. Len(ops) \in Nat /\ DOMAIN ops = 1..Len(ops) /\ k \in Nat /\ 1..k \subseteq 1..Len(ops)
  BY <1>2, LenProperties
<1>4. \A c : IsFiniteSet(Of(c)) /\ Cardinality(Of(c)) \in Nat
  <2> TAKE c
  <2>1. IsFiniteSet(1..k)
    BY <1>3, FS_Interval
  <2>2. Of(c) \in SUBSET (1..k)
    OBVIOUS
  <2> HIDE DEF Of
  <2> QED BY <2>1, <2>2, FS_Subset, FS_CardinalityType
<1>5. Grown(k) = [c \in Caches |-> rows[c] + Cardinality(Of(c))]
  BY DEF Grown, LengthInv
<1>6. \A c \in Caches : c \notin plan[AtNode].mutableImports => Of(c) = {}
  <2> SUFFICES ASSUME NEW c \in Caches, NEW i \in Of(c)
               PROVE  c \in plan[AtNode].mutableImports
    OBVIOUS
  <2>1. ops[i] \in ToSet(ops)
    BY <1>3 DEF ToSet
  <2>2. graph.kind[ops[i]] = "append" /\ c = AliasSource(graph, ops[i])
    BY DEF AliasSource
  <2> QED BY <1>1, <1>2, <2>1, <2>2 DEF PlanBorders
<1> HIDE DEF Of
<1>7. \A c \in Caches : rows[c] \in Nat
  BY DEF LengthInv
<1> QED BY <1>4, <1>5, <1>6, <1>7, FS_EmptySet
-----------------------------------------------------------------------------
(* The books, step by step                                                  *)

LEMMA InitKeeps == Init => IInv
<1> SUFFICES ASSUME Init PROVE IInv
  OBVIOUS
<1>1. TypeInv /\ HeapInv
  <2>1. DOMAIN Empty = {}
    BY DEF Empty
  <2> QED BY <2>1, EngineAssumption DEF Init, TypeInv, HeapInv
<1>2. WeightsHeld /\ WeightsThere
  <2>1. DOMAIN Empty = {} /\ Empty \in [{} -> Nat]
    BY DEF Empty
  <2> QED BY <2>1 DEF Init, WeightsHeld, WeightsThere, Resident
<1>3. Books(FreshState, Ops(graph), DOMAIN heap, WeightBuffers) /\ state = FreshState
      /\ DOMAIN FreshState.bound = {} /\ DOMAIN FreshState.paged = {}
      /\ FreshState.paged \in [DOMAIN FreshState.paged -> Nat]
  BY FreshBooks DEF Init
<1>4. rows \in [Caches -> Nat]
  BY DEF Init, Caches
<1> QED BY <1>1, <1>2, <1>3, <1>4 DEF IInv, StateBooks, StateInv, LengthInv

LEMMA NextWeightIs ==
    ASSUME graph \in Graphs
    PROVE  \A v \in NextWeight :
              /\ v \in Ops(graph) /\ graph.kind[v] = "weight"
              /\ graph.name[v] \notin DOMAIN weights
<1> DEFINE missing == {u \in Ops(graph) : graph.kind[u] = "weight"
                                          /\ graph.name[u] \notin DOMAIN weights}
<1>1. missing \in SUBSET Nat
  BY GraphFacts
<1>2. NextWeight = IF missing = {} THEN {}
                   ELSE {CHOOSE u \in missing : \A w \in missing : u <= w}
  BY DEF NextWeight
<1>3. missing # {} => \E u \in missing : \A w \in missing : u <= w
  <2> HIDE DEF missing
  <2> QED BY <1>1, Smallest
<1> QED BY <1>2, <1>3

LEMMA LoadWeightKeeps == IInv /\ LoadWeight => IInv'
<1> SUFFICES ASSUME IInv, LoadWeight PROVE IInv'
  OBVIOUS
<1>1. PICK v \in NextWeight :
         /\ Allocate(0, graph.name[v])
         /\ weights' = Put(weights, graph.name[v], nextBuffer[0])
  BY DEF LoadWeight
<1> DEFINE name == graph.name[v]
           b == <<0, nextBuffer[0]>>
<1>2. name \notin DOMAIN weights /\ b = Fresh(0) /\ 0 \in Devices
  BY <1>1, NextWeightIs, EngineAssumption DEF IInv, TypeInv, Fresh
<1>3. /\ DOMAIN heap' = DOMAIN heap \cup {b} /\ heap'[b] = name /\ HeapInv'
      /\ b \notin DOMAIN heap
      /\ \A c \in DOMAIN heap : heap'[c] = heap[c]
      /\ nextBuffer[0] \in Nat /\ nextBuffer'[0] \in Nat /\ nextBuffer[0] < nextBuffer'[0]
  BY <1>1, <1>2, HeapGrows DEF IInv
<1>4. /\ DOMAIN weights' = DOMAIN weights \cup {name} /\ weights'[name] = nextBuffer[0]
      /\ \A w \in DOMAIN weights : weights'[w] = weights[w]
      /\ weights' \in [DOMAIN weights' -> Nat]
  BY <1>1, <1>2, <1>3 DEF Put, IInv, WeightsHeld
<1>5. /\ UNCHANGED <<graph, plan, at, hostWeights, state, outputs, outcome, rows, before,
                     runs>>
      /\ stage \in {"idle", "loading"} /\ stage' \in {"idle", "loading"}
      /\ state = FreshState
  BY DEF LoadWeight, IInv, StateInv
<1> HIDE DEF name, b
<1>6. TypeInv'
  BY <1>5 DEF IInv, TypeInv
<1>7. WeightsHeld'
  <2>1. \A w \in DOMAIN weights' : weights'[w] < nextBuffer'[0]
    <3> TAKE w \in DOMAIN weights'
    <3>1. CASE w = name
      BY <1>3, <1>4, <3>1
    <3>2. CASE w \in DOMAIN weights
      <4>1. weights'[w] = weights[w] /\ weights[w] \in Nat /\ weights[w] < nextBuffer[0]
        BY <1>4, <3>2 DEF IInv, WeightsHeld
      <4> QED BY <1>3, <4>1
    <3> QED BY <1>4, <3>1, <3>2
  <2>2. \A w \in Resident' : /\ <<0, weights'[w]>> \in DOMAIN heap'
                             /\ heap'[<<0, weights'[w]>>] = w
    <3> TAKE w \in Resident'
    <3>1. CASE w = name
      BY <1>3, <1>4, <3>1 DEF b
    <3>2. CASE w # name
      <4>1. w \in Resident /\ weights'[w] = weights[w]
        BY <1>4, <3>2 DEF Resident
      <4>2. <<0, weights[w]>> \in DOMAIN heap /\ heap[<<0, weights[w]>>] = w
        BY <4>1 DEF IInv, WeightsHeld
      <4> QED BY <1>3, <4>1, <4>2
    <3> QED BY <3>1, <3>2
  <2> QED BY <1>4, <2>1, <2>2 DEF WeightsHeld
<1>8. WeightsThere'
  <2>1. name \in Resident'
    <3>1. weights'[name] # 0
      BY <1>2, <1>4 DEF IInv, HeapInv
    <3> QED BY <1>4, <3>1 DEF Resident
  <2>2. runs < MaxRuns => Resident' = DOMAIN weights'
    BY <1>4, <1>5, <2>1 DEF IInv, WeightsThere, Resident
  <2> QED BY <1>5, <2>2 DEF WeightsThere
<1>9. StateBooks' /\ LengthInv' /\ StateInv'
  <2>1. rows \in [Caches -> Nat] /\ rows' \in [Caches -> Nat] /\ graph \in Graphs
    BY <1>5 DEF IInv, LengthInv, TypeInv
  <2> QED BY <1>5, <2>1, Freed
<1> QED BY <1>3, <1>6, <1>7, <1>8, <1>9 DEF IInv

LEMMA LoadWeightFailsKeeps == IInv /\ LoadWeightFails => IInv'
<1> SUFFICES ASSUME IInv, LoadWeightFails PROVE IInv'
  OBVIOUS
<1>1. /\ UNCHANGED <<graph, plan, at, hostWeights, state, outputs, heap, nextBuffer, rows,
                     before, runs>>
      /\ weights' = Empty /\ DOMAIN Empty = {} /\ Empty \in [{} -> Nat]
      /\ stage' = "idle" /\ outcome' = "error" /\ state = FreshState
  BY DEF LoadWeightFails, IInv, StateInv, Empty
<1>2. TypeInv' /\ HeapInv'
  BY <1>1 DEF IInv, TypeInv, HeapInv
<1>3. WeightsHeld' /\ WeightsThere'
  BY <1>1 DEF WeightsHeld, WeightsThere, Resident
<1>4. StateBooks' /\ LengthInv' /\ StateInv'
  <2>1. rows \in [Caches -> Nat] /\ rows' \in [Caches -> Nat] /\ graph \in Graphs
    BY <1>1 DEF IInv, LengthInv, TypeInv
  <2> QED BY <1>1, <2>1, Freed
<1> QED BY <1>2, <1>3, <1>4 DEF IInv

LEMMA DeallocWeightKeeps == IInv /\ DeallocWeight => IInv'
<1> SUFFICES ASSUME IInv, DeallocWeight PROVE IInv'
  OBVIOUS
<1>1. PICK name \in Resident :
         /\ heap' = Without(heap, {<<0, weights[name]>>})
         /\ weights' = IF Resident = {name} THEN Empty ELSE [weights EXCEPT ![name] = 0]
         /\ outcome' = IF <<0, weights[name]>> \in DOMAIN heap THEN outcome ELSE "error"
  BY DEF DeallocWeight
<1>2. /\ UNCHANGED <<graph, plan, stage, at, hostWeights, state, outputs, nextBuffer, rows,
                     before, runs, faults>>
      /\ stage = "idle" /\ runs = MaxRuns /\ state = FreshState
  BY DEF DeallocWeight, IInv, StateInv
<1>3. TypeInv' /\ HeapInv'
  BY <1>1, <1>2 DEF IInv, TypeInv, HeapInv, Without
<1>4. WeightsHeld'
  <2>1. CASE Resident = {name}
    <3>1. weights' = Empty /\ DOMAIN Empty = {} /\ Empty \in [{} -> Nat]
      BY <1>1, <2>1 DEF Empty
    <3> QED BY <3>1 DEF WeightsHeld, Resident
  <2>2. CASE Resident # {name}
    <3>1. /\ DOMAIN weights' = DOMAIN weights /\ weights'[name] = 0
          /\ \A w \in DOMAIN weights : w # name => weights'[w] = weights[w]
          /\ weights' \in [DOMAIN weights' -> Nat]
          /\ \A w \in DOMAIN weights : weights[w] \in Nat
      BY <1>1, <2>2 DEF IInv, WeightsHeld, Resident
    <3>2. nextBuffer[0] \in Nat \ {0}
      BY EngineAssumption DEF IInv, HeapInv
    <3>3. \A w \in DOMAIN weights' : weights'[w] < nextBuffer'[0]
      BY <1>2, <3>1, <3>2 DEF IInv, WeightsHeld
    <3>4. ASSUME NEW w \in Resident'
          PROVE  <<0, weights'[w]>> \in DOMAIN heap' /\ heap'[<<0, weights'[w]>>] = w
      <4>1. w \in Resident /\ w # name /\ weights'[w] = weights[w]
        BY <3>1 DEF Resident
      <4>2. /\ <<0, weights[w]>> \in DOMAIN heap /\ heap[<<0, weights[w]>>] = w
            /\ heap[<<0, weights[name]>>] = name
        BY <4>1 DEF IInv, WeightsHeld
      <4>3. <<0, weights[w]>> # <<0, weights[name]>>
        BY <4>1, <4>2
      <4> QED BY <1>1, <4>1, <4>2, <4>3 DEF Without
    <3> QED BY <3>1, <3>3, <3>4 DEF WeightsHeld
  <2> QED BY <2>1, <2>2
<1>5. WeightsThere'
  <2>1. ~(runs < MaxRuns)
    BY <1>2, EngineAssumption
  <2> QED BY <1>2, <2>1 DEF WeightsThere
<1>6. StateBooks' /\ LengthInv' /\ StateInv'
  <2>1. rows \in [Caches -> Nat] /\ rows' \in [Caches -> Nat] /\ graph \in Graphs
    BY <1>2 DEF IInv, LengthInv, TypeInv
  <2> QED BY <1>2, <2>1, Freed
<1> QED BY <1>3, <1>4, <1>5, <1>6 DEF IInv

LEMMA DeallocWeightFailsKeeps == IInv /\ DeallocWeightFails => IInv'
<1> SUFFICES ASSUME IInv, DeallocWeightFails PROVE IInv'
  OBVIOUS
<1>1. UNCHANGED <<graph, plan, weights, stage, at, hostWeights, state, outputs, heap,
                  nextBuffer, rows, before, runs>> /\ outcome' = "error"
  BY DEF DeallocWeightFails
<1> QED BY <1>1 DEF IInv, TypeInv, HeapInv, WeightsHeld, WeightsThere, Resident, StateBooks,
                    WeightBuffers, StateInv, LengthInv, Caches

LEMMA BeginRunKeeps == IInv /\ BeginRun => IInv'
<1> SUFFICES ASSUME IInv, BeginRun PROVE IInv'
  OBVIOUS
<1>1. /\ UNCHANGED <<graph, plan, weights, heap, nextBuffer, rows, faults>>
      /\ hostWeights' \in IF NextWeight = {} THEN BOOLEAN ELSE {TRUE}
      /\ stage = "idle" /\ stage' = "bind" /\ at' = 1 /\ state' = FreshState
      /\ outcome' = "running" /\ before' = DOMAIN heap
      /\ runs < MaxRuns /\ runs' = runs + 1
  BY DEF BeginRun, deviceVars
<1>2. graph \in Graphs /\ Size(graph) \in Nat \ {0} /\ Ops(graph) = 1..Size(graph)
  BY GraphFacts DEF IInv, TypeInv
<1>3. TypeInv'
  <2>1. runs' \in 0..MaxRuns
    BY <1>1, EngineAssumption DEF IInv, TypeInv
  <2>2. before' \subseteq Buffers
    BY <1>1 DEF IInv, HeapInv
  <2>3. at' \in Nat \ {0} /\ at' \in Ops(graph)
    BY <1>1, <1>2
  <2>4. hostWeights' \in BOOLEAN
    BY <1>1
  <2> QED BY <1>1, <2>1, <2>2, <2>3, <2>4 DEF IInv, TypeInv
<1>4. HeapInv' /\ WeightsHeld'
  BY <1>1 DEF IInv, HeapInv, WeightsHeld, Resident
<1>5. WeightsThere'
  <2>1. Resident = DOMAIN weights
    BY <1>1 DEF IInv, WeightsThere
  <2>2. ~hostWeights' => NextWeight = {}
    BY <1>1
  <2>3. ~hostWeights' =>
           \A v \in Ops(graph) : graph.kind[v] = "weight" => graph.name[v] \in DOMAIN weights
    BY <2>2 DEF NextWeight
  <2> QED BY <1>1, <2>1, <2>3 DEF WeightsThere, Resident
<1>6. StateBooks' /\ LengthInv' /\ StateInv'
  <2>1. rows \in [Caches -> Nat] /\ rows' \in [Caches -> Nat]
    BY <1>1 DEF IInv, LengthInv
  <2> QED BY <1>1, <1>2, <2>1, Freed
<1> QED BY <1>3, <1>4, <1>5, <1>6 DEF IInv
\* What a step of a run leaves alone.
LEMMA RunGoesOn ==
    ASSUME IInv, UNCHANGED running, stage \notin {"idle", "loading"},
           stage' \in {"idle", "bind", "ops", "read", "outputs"}, at' \in Nat \ {0},
           stage' \in {"bind", "ops"} => at' \in Ops(graph),
           outcome' \in {"running", "ok", "error"}
    PROVE  /\ TypeInv' /\ WeightsThere' /\ graph \in Graphs
           /\ weights' = weights /\ WeightBuffers' = WeightBuffers /\ graph' = graph
<1>1. UNCHANGED <<graph, plan, weights, hostWeights, before, runs>>
  BY DEF running
<1>2. TypeInv' /\ graph \in Graphs
  BY <1>1 DEF IInv, TypeInv
<1>3. WeightsThere'
  BY <1>1 DEF IInv, WeightsThere, Resident
<1> QED BY <1>1, <1>2, <1>3 DEF WeightBuffers

LEMMA DevicesStay ==
    ASSUME IInv, UNCHANGED <<heap, nextBuffer, weights>>
    PROVE  HeapInv' /\ WeightsHeld'
  BY DEF IInv, HeapInv, WeightsHeld, Resident

LEMMA ErrorKeeps ==
    ASSUME IInv, UNCHANGED running, stage \notin {"idle", "loading"}, EndWithError,
           HeapInv', WeightsHeld', rows' \in [Caches -> Nat]
    PROVE  IInv'
<1>1. /\ stage' = "idle" /\ at' = 1 /\ state' = FreshState /\ outcome' = "error"
      /\ rows \in [Caches -> Nat]
  BY DEF EndWithError, IInv, LengthInv
<1>2. TypeInv' /\ WeightsThere' /\ graph \in Graphs /\ graph' = graph
  BY <1>1, RunGoesOn
<1>3. StateBooks' /\ LengthInv' /\ StateInv'
  BY <1>1, <1>2, Freed
<1> QED BY <1>2, <1>3 DEF IInv

\* A value is bound to a buffer that is allocated for it.
LEMMA AddFresh ==
    ASSUME IInv, weights' = weights, graph' = graph,
           NEW d \in Devices, NEW content, Allocate(d, content),
           NEW v \in Ops(graph), v \notin DOMAIN state.bound,
           state' = AddBuffer(state, v, Fresh(d), TRUE)
    PROVE  /\ HeapInv' /\ WeightsHeld' /\ StateBooks'
           /\ state'.bound = Put(state.bound, v, Fresh(d)) /\ state'.paged = state.paged
           /\ DOMAIN state'.refs = DOMAIN state.refs \cup {Fresh(d)}
           /\ Fresh(d) \notin WeightBuffers
<1> DEFINE b == Fresh(d)
           yes == TRUE
<1>1. /\ HeapInv' /\ DOMAIN heap' = DOMAIN heap \cup {b} /\ b \notin DOMAIN heap
  BY HeapGrows DEF IInv
<1>2. WeightsHeld' /\ WeightBuffers' = WeightBuffers /\ b \notin WeightBuffers
  BY AllocateIs DEF IInv
<1>3. Books(state, Ops(graph), DOMAIN heap', WeightBuffers) /\ b \notin DOMAIN state.refs
  BY <1>1 DEF IInv, StateBooks, Books
<1>4. IsFiniteSet(Ops(graph))
  BY GraphFacts, FS_Interval DEF IInv, TypeInv
<1>5. /\ yes \in BOOLEAN /\ (yes => b \notin WeightBuffers)
      /\ b \notin DOMAIN state.refs => (yes <=> b \notin WeightBuffers)
      /\ state' = AddBuffer(state, v, b, yes)
  BY <1>2
<1>6. b \in DOMAIN heap'
  BY <1>1
<1> DEFINE H == DOMAIN heap'
           r == AddBuffer(state, v, b, yes)
<1>7. /\ Books(r, Ops(graph), H, WeightBuffers)
      /\ r.bound = Put(state.bound, v, b) /\ r.paged = state.paged
      /\ DOMAIN r.refs = DOMAIN state.refs \cup {b}
  <2>1. b \in H /\ Books(state, Ops(graph), H, WeightBuffers)
    BY <1>3, <1>6
  <2>2. /\ yes \in BOOLEAN /\ (yes => b \notin WeightBuffers)
        /\ b \notin DOMAIN state.refs => (yes <=> b \notin WeightBuffers)
    BY <1>5
  <2> HIDE DEF b, yes, H
  <2> QED BY <1>4, <2>1, <2>2, BooksAdd
<1> HIDE DEF b, yes
<1>8. StateBooks'
  BY <1>2, <1>5, <1>7 DEF StateBooks
<1> QED BY <1>1, <1>2, <1>5, <1>7, <1>8 DEF b

LEMMA BindInputKeeps == IInv /\ BindInput => IInv'
<1> SUFFICES ASSUME IInv, BindInput PROVE IInv'
  OBVIOUS
<1>1. /\ stage = "bind" /\ Advance("ops")
      /\ UNCHANGED running /\ UNCHANGED <<outputs, outcome, rows, faults>>
  BY DEF BindInput
<1>2. /\ graph \in Graphs /\ at \in Ops(graph) /\ Ops(graph) = 1..Size(graph)
      /\ Size(graph) \in Nat /\ outcome \in {"none", "running", "ok", "error"}
  BY <1>1, GraphFacts DEF IInv, TypeInv
<1>3. /\ at' \in Ops(graph) /\ at' \in Nat \ {0}
      /\ \/ stage' = "bind" /\ at' = at + 1
         \/ stage' = "ops" /\ at' = 1 /\ at = Size(graph)
  BY <1>1, <1>2, AdvanceIs
<1>4. TypeInv' /\ WeightsThere' /\ UNCHANGED <<weights, graph, plan>>
      /\ WeightBuffers' = WeightBuffers
  BY <1>1, <1>2, <1>3 DEF IInv, TypeInv, WeightsThere, Resident, running, WeightBuffers
<1>5. /\ rows \in [Caches -> Nat]
      /\ state.paged \in [DOMAIN state.paged -> Nat] /\ DOMAIN state.paged \subseteq Caches
      /\ \A c \in DOMAIN state.paged : state.paged[c] = rows[c]
      /\ \A v \in DOMAIN state.bound :
            /\ graph.kind[v] = "kernel" => state.bound[v] \notin WeightBuffers
            /\ v < at /\ graph.kind[v] \in InputKinds /\ v \in Ops(graph)
  BY <1>1 DEF IInv, LengthInv, StateInv, StateBooks, Books
<1>6. at \notin DOMAIN state.bound
  BY <1>2, <1>5
<1>7. ASSUME DOMAIN state'.bound \subseteq DOMAIN state.bound \cup {at},
             \A v \in DOMAIN state'.bound : v # at => state'.bound[v] = state.bound[v],
             at \in DOMAIN state'.bound => graph.kind[at] \in InputKinds
      PROVE  StateInv'
  <2>1. \A v \in DOMAIN state'.bound : graph.kind[v] \in InputKinds /\ v < at + 1
    BY <1>2, <1>5, <1>7
  <2>2. \A v \in DOMAIN state'.bound :
           graph.kind[v] # "kernel" /\ graph.kind[v] # "transfer"
    BY <2>1 DEF InputKinds
  <2> QED BY <1>3, <1>4, <2>1, <2>2 DEF StateInv
<1>8. ASSUME state'.paged = state.paged PROVE LengthInv'
  BY <1>1, <1>4, <1>5, <1>8 DEF LengthInv, Caches
<1>9. CASE LoadsInput
  <2>1. Allocate(0, Shown(at)) /\ state' = AddBuffer(state, at, Fresh(0), TRUE)
    BY <1>9 DEF BindInput, LoadsInput
  <2>2. /\ HeapInv' /\ WeightsHeld' /\ StateBooks'
        /\ state'.bound = Put(state.bound, at, Fresh(0)) /\ state'.paged = state.paged
    BY <1>2, <1>4, <1>6, <2>1, AddFresh, EngineAssumption
  <2>3. graph.kind[at] \in InputKinds
    BY <1>9 DEF LoadsInput, InputKinds
  <2>4. StateInv'
    BY <1>7, <2>2, <2>3 DEF Put
  <2> QED BY <1>4, <1>8, <2>2, <2>4 DEF IInv
<1>10. CASE graph.kind[at] = "weight" /\ ~hostWeights
  <2> DEFINE b == <<0, weights[graph.name[at]]>>
             no == FALSE
  <2>1. state' = AddBuffer(state, at, b, no) /\ UNCHANGED <<heap, nextBuffer>>
    BY <1>10 DEF BindInput, LoadsInput, WeightOwned
  <2>2. b \in WeightBuffers /\ b \in DOMAIN heap
    <3>1. graph.name[at] \in DOMAIN weights /\ graph.name[at] \in Resident
      BY <1>1, <1>2, <1>10 DEF IInv, WeightsThere
    <3> QED BY <3>1 DEF WeightBuffers, IInv, WeightsHeld
  <2>3. /\ no \in BOOLEAN /\ (no => b \notin WeightBuffers)
        /\ b \notin DOMAIN state.refs => (no <=> b \notin WeightBuffers)
    BY <2>2
  <2>4. IsFiniteSet(Ops(graph)) /\ Books(state, Ops(graph), DOMAIN heap, WeightBuffers)
    BY <1>2, FS_Interval DEF IInv, StateBooks
  <2> HIDE DEF b, no
  <2>5. /\ Books(state', Ops(graph), DOMAIN heap, WeightBuffers)
        /\ state'.bound = Put(state.bound, at, b) /\ state'.paged = state.paged
    BY <1>2, <1>6, <2>1, <2>2, <2>3, <2>4, BooksAdd
  <2>6. HeapInv' /\ WeightsHeld' /\ StateBooks'
    BY <1>4, <2>1, <2>5, DevicesStay DEF StateBooks
  <2>7. StateInv'
    BY <1>7, <1>10, <2>5 DEF Put, InputKinds
  <2> QED BY <1>4, <1>8, <2>5, <2>6, <2>7 DEF IInv
<1>11. CASE graph.kind[at] = "cache"
  <2>1. state' = [state EXCEPT !.paged = Put(@, at, rows[at])] /\ UNCHANGED <<heap, nextBuffer>>
    BY <1>11 DEF BindInput, LoadsInput
  <2>2. HeapInv' /\ WeightsHeld'
    BY <1>4, <2>1, DevicesStay
  <2>3. /\ state'.bound = state.bound /\ state'.refs = state.refs
        /\ state'.retired = state.retired /\ state'.paged = Put(state.paged, at, rows[at])
        /\ DOMAIN state' = {"bound", "refs", "retired", "paged"}
        /\ state' = [bound |-> state'.bound, refs |-> state'.refs,
                     retired |-> state'.retired, paged |-> state'.paged]
    BY <2>1 DEF IInv, StateBooks, Books
  <2>4. StateBooks'
    <3>1. Books(state, Ops(graph), DOMAIN heap, WeightBuffers)
      BY DEF IInv, StateBooks
    <3>2. Books(state', Ops(graph), DOMAIN heap, WeightBuffers)
      BY <2>3, <3>1 DEF Books
    <3> QED BY <1>4, <2>1, <3>2 DEF StateBooks
  <2>5. LengthInv'
    <3>1. at \in Caches /\ rows[at] \in Nat
      BY <1>2, <1>5, <1>11 DEF Caches
    <3> QED BY <1>1, <1>4, <1>5, <2>3, <3>1 DEF LengthInv, Put, Caches
  <2>6. StateInv'
    BY <1>6, <1>7, <2>3
  <2> QED BY <1>4, <2>2, <2>4, <2>5, <2>6 DEF IInv
<1>12. CASE ~LoadsInput /\ ~(graph.kind[at] = "weight" /\ ~hostWeights)
            /\ graph.kind[at] # "cache"
  <2>1. UNCHANGED <<state, heap, nextBuffer>>
    BY <1>12 DEF BindInput
  <2>2. HeapInv' /\ WeightsHeld' /\ StateBooks'
    BY <1>4, <2>1, DevicesStay DEF IInv, StateBooks
  <2>3. StateInv'
    BY <1>6, <1>7, <2>1
  <2> QED BY <1>4, <1>8, <2>1, <2>2, <2>3 DEF IInv
<1> QED BY <1>9, <1>10, <1>11, <1>12

LEMMA BindInputFailsKeeps == IInv /\ BindInputFails => IInv'
<1> SUFFICES ASSUME IInv, BindInputFails PROVE IInv'
  OBVIOUS
<1>1. /\ stage = "bind" /\ EndWithError /\ UNCHANGED running /\ rows' = rows
      /\ weights' = weights
      /\ Allocate(0, Shown(at)) \/ UNCHANGED <<heap, nextBuffer>>
  BY DEF BindInputFails, running
<1>2. HeapInv' /\ WeightsHeld'
  BY <1>1, HeapGrows, AllocateIs, DevicesStay, EngineAssumption DEF IInv
<1>3. rows' \in [Caches -> Nat]
  BY <1>1 DEF IInv, LengthInv
<1> QED BY <1>1, <1>2, <1>3, ErrorKeeps
LEMMA PassOverKeeps == IInv /\ PassOver => IInv'
<1> SUFFICES ASSUME IInv, PassOver PROVE IInv'
  OBVIOUS
<1>1. /\ stage = "ops" /\ graph.kind[at] # "transfer" /\ Advance("read")
      /\ UNCHANGED running /\ UNCHANGED <<state, outputs, outcome>>
      /\ UNCHANGED <<heap, nextBuffer, rows, faults, weights>>
  BY DEF PassOver, deviceVars, running
<1>2. graph \in Graphs /\ at \in Ops(graph) /\ Ops(graph) = 1..Size(graph)
  BY <1>1, GraphFacts DEF IInv, TypeInv
<1>3. /\ at' \in Ops(graph) /\ at' \in Nat \ {0}
      /\ stage' \in {"ops", "read"} /\ (stage' = "ops" => at' = at + 1)
  BY <1>1, <1>2, AdvanceIs
<1>4. TypeInv' /\ WeightsThere' /\ graph' = graph /\ WeightBuffers' = WeightBuffers
  BY <1>1, <1>2, <1>3 DEF IInv, TypeInv, WeightsThere, Resident, running, WeightBuffers
<1>5. HeapInv' /\ WeightsHeld' /\ StateBooks' /\ LengthInv'
  BY <1>1, <1>3, <1>4, DevicesStay DEF IInv, StateBooks, LengthInv, Caches
<1>6. StateInv'
  <2>1. \A v \in DOMAIN state.bound : graph.kind[v] = "transfer" => v < at /\ v \in Ops(graph)
    BY <1>1 DEF IInv, StateInv, StateBooks, Books
  <2>2. stage' = "ops" => \A v \in DOMAIN state.bound : graph.kind[v] = "transfer" => v < at'
    BY <1>2, <1>3, <2>1
  <2> QED BY <1>1, <1>3, <1>4, <2>2 DEF IInv, StateInv
<1> QED BY <1>4, <1>5, <1>6 DEF IInv

LEMMA TransferKeeps == IInv /\ Transfer => IInv'
<1> SUFFICES ASSUME IInv, Transfer PROVE IInv'
  OBVIOUS
<1> DEFINE source == AliasSource(graph, at)
           d == graph.device[at]
<1>1. /\ stage = "ops" /\ graph.kind[at] = "transfer"
      /\ UNCHANGED running /\ UNCHANGED <<rows, faults, weights, graph>>
  BY DEF Transfer, running
<1>2. /\ graph \in Graphs /\ at \in Ops(graph) /\ Ops(graph) = 1..Size(graph)
      /\ Size(graph) \in Nat /\ d \in Devices
  BY <1>1, GraphFacts DEF IInv, TypeInv
<1>3. rows' \in [Caches -> Nat] /\ state.paged \in [DOMAIN state.paged -> Nat]
      /\ DOMAIN state.paged \subseteq Caches
      /\ \A c \in DOMAIN state.paged : state.paged[c] = rows[c]
  BY <1>1 DEF IInv, LengthInv
<1>4. CASE source \in DOMAIN state.bound /\ state.bound[source][1] = graph.device[source]
  <2>1. /\ Allocate(d, IF Holds(source) THEN at ELSE Garbage)
        /\ state' = AddBuffer(state, at, Fresh(d), TRUE)
        /\ Advance("read") /\ UNCHANGED <<outputs, outcome>>
    BY <1>4 DEF Transfer
  <2>2. /\ at' \in Ops(graph) /\ at' \in Nat \ {0}
        /\ stage' \in {"ops", "read"} /\ (stage' = "ops" => at' = at + 1)
    BY <1>1, <1>2, <2>1, AdvanceIs
  <2>3. TypeInv' /\ WeightsThere' /\ WeightBuffers' = WeightBuffers
    BY <1>1, <1>2, <2>1, <2>2 DEF IInv, TypeInv, WeightsThere, Resident, running,
                                  WeightBuffers
  <2>4. \A v \in DOMAIN state.bound :
           /\ graph.kind[v] = "transfer" => v < at
           /\ graph.kind[v] = "kernel" => state.bound[v] \notin WeightBuffers
           /\ v \in Ops(graph)
    BY <1>1 DEF IInv, StateInv, StateBooks, Books
  <2>5. at \notin DOMAIN state.bound
    BY <1>1, <1>2, <2>4
  <2>6. /\ HeapInv' /\ WeightsHeld' /\ StateBooks'
        /\ state'.bound = Put(state.bound, at, Fresh(d)) /\ state'.paged = state.paged
    <3> HIDE DEF d
    <3> QED BY <1>1, <1>2, <2>1, <2>5, AddFresh
  <2>7. StateInv'
    <3>1. \A v \in DOMAIN state'.bound : v # at =>
             v \in DOMAIN state.bound /\ state'.bound[v] = state.bound[v]
      BY <2>6 DEF Put
    <3>2. \A v \in DOMAIN state'.bound : graph.kind[v] = "transfer" => v < at + 1
      BY <1>2, <2>4, <3>1
    <3>3. \A v \in DOMAIN state'.bound :
             graph.kind[v] = "kernel" => state'.bound[v] \notin WeightBuffers
      BY <1>1, <2>4, <3>1
    <3> QED BY <1>1, <2>2, <2>3, <3>2, <3>3 DEF StateInv
  <2>8. LengthInv'
    BY <1>1, <1>3, <2>6 DEF LengthInv, Caches
  <2> QED BY <2>3, <2>6, <2>7, <2>8 DEF IInv
<1>5. CASE ~(source \in DOMAIN state.bound /\ state.bound[source][1] = graph.device[source])
  <2>1. EndWithError /\ UNCHANGED <<heap, nextBuffer>>
    BY <1>5 DEF Transfer
  <2>2. rows' \in [Caches -> Nat]
    BY <1>3
  <2> QED BY <1>1, <2>1, <2>2, ErrorKeeps, DevicesStay
<1> QED BY <1>4, <1>5

LEMMA TransferFailsKeeps == IInv /\ TransferFails => IInv'
<1> SUFFICES ASSUME IInv, TransferFails PROVE IInv'
  OBVIOUS
<1>1. /\ stage = "ops" /\ EndWithError /\ UNCHANGED running /\ rows' = rows
      /\ weights' = weights
      /\ Allocate(graph.device[at], at) \/ UNCHANGED <<heap, nextBuffer>>
  BY DEF TransferFails, running
<1>2. graph.device[at] \in Devices
  BY <1>1, GraphFacts DEF IInv, TypeInv
<1>3. HeapInv' /\ WeightsHeld'
  BY <1>1, <1>2, HeapGrows, AllocateIs, DevicesStay DEF IInv
<1>4. rows' \in [Caches -> Nat]
  BY <1>1 DEF IInv, LengthInv
<1> QED BY <1>1, <1>3, <1>4, ErrorKeeps

\* The node that starts at an operation.
LEMMA NodeStarts ==
    ASSUME TypeInv, StartsNode
    PROVE  /\ PlanNodes(graph, plan) /\ PlanBorders(graph, plan)
           /\ AtNode \in DOMAIN plan /\ plan[AtNode].device \in Devices
           /\ plan[AtNode].ops \in Seq(Ops(graph))
           /\ \A v \in plan[AtNode].exports :
                 v \in Ops(graph) /\ graph.kind[v] \in {"kernel", "alias"}
<1>1. PlanNodes(graph, plan) /\ PlanBorders(graph, plan)
  BY PartitionNodes, PartitionBorders DEF TypeInv
<1>2. AtNode \in DOMAIN plan
  BY <1>1 DEF PlanNodes, AtNode, StartsNode
<1> QED BY <1>1, <1>2 DEF PlanNodes, PlanBorders

LEMMA AllocExportKeeps == IInv /\ AllocExport => IInv'
<1> SUFFICES ASSUME IInv, AllocExport PROVE IInv'
  OBVIOUS
<1> DEFINE d == plan[AtNode].device
<1>1. /\ stage = "ops" /\ StartsNode /\ UNCHANGED running
      /\ UNCHANGED <<stage, at, outputs, outcome, rows, faults, weights, graph, plan>>
  BY DEF AllocExport, running
<1>2. PICK v \in Unallocated :
         Allocate(d, Garbage) /\ state' = AddBuffer(state, v, Fresh(d), TRUE)
  BY DEF AllocExport
<1>3. /\ d \in Devices /\ v \in Ops(graph) /\ v \notin DOMAIN state.bound
      /\ graph.kind[v] = "kernel"
  BY <1>1, NodeStarts DEF IInv, Unallocated, IsAlias
<1>4. TypeInv' /\ WeightsThere' /\ WeightBuffers' = WeightBuffers
  BY <1>1 DEF IInv, TypeInv, WeightsThere, Resident, running, WeightBuffers
<1>5. /\ HeapInv' /\ WeightsHeld' /\ StateBooks'
      /\ state'.bound = Put(state.bound, v, Fresh(d)) /\ state'.paged = state.paged
      /\ Fresh(d) \notin WeightBuffers
  <2> HIDE DEF d
  <2> QED BY <1>1, <1>2, <1>3, AddFresh
<1>6. StateInv'
  <2>1. \A u \in DOMAIN state'.bound :
           \/ u = v /\ state'.bound[u] = Fresh(d)
           \/ u \in DOMAIN state.bound /\ state'.bound[u] = state.bound[u]
    BY <1>5 DEF Put
  <2> QED BY <1>1, <1>3, <1>4, <1>5, <2>1 DEF IInv, StateInv
<1>7. LengthInv'
  BY <1>1, <1>5 DEF IInv, LengthInv, Caches
<1> QED BY <1>4, <1>5, <1>6, <1>7 DEF IInv

\* What a node's run leaves in the books.
LEMMA ExportsBound ==
    ASSUME IInv, StartsNode, Unallocated = {}, ImportsBound
    PROVE  /\ Merged(BindExports(plan[AtNode].exports), state,
                     [v \in plan[AtNode].exports |-> PlaceInNode(v)],
                     Size(graph), Ops(graph), DOMAIN heap, WeightBuffers)
           /\ \A v \in plan[AtNode].exports :
                 /\ v \in Ops(graph) /\ graph.kind[v] \in {"kernel", "alias"}
                 /\ graph.kind[v] = "kernel" => v \in DOMAIN state.bound
                 /\ \E u \in DOMAIN state.bound :
                       /\ PlaceInNode(v) = state.bound[u]
                       /\ SameView(graph, u, v)
                 /\ v \in DOMAIN state.bound => PlaceInNode(v) = state.bound[v]
<1> DEFINE n == AtNode
           exports == plan[n].exports
           place == [v \in exports |-> PlaceInNode(v)]
           scratch == <<plan[n].device, 0>>
<1>1. /\ PlanNodes(graph, plan) /\ PlanBorders(graph, plan) /\ n \in DOMAIN plan
      /\ \A v \in exports : v \in Ops(graph) /\ graph.kind[v] \in {"kernel", "alias"}
      /\ graph \in Graphs
  BY NodeStarts DEF IInv, TypeInv
<1>2. \A v \in exports : v \in DOMAIN state.bound \/ IsAlias(graph, v)
  BY DEF Unallocated
<1>3. \A v \in plan[n].imports : v \in DOMAIN state.bound \/ graph.kind[v] = "cache"
  BY DEF ImportsBound, IInv, LengthInv, Caches
<1>4. \A v : PlaceInNode(v) = PlaceIn(graph, state.bound, scratch, v)
  BY DEF PlaceInNode, PlaceIn
<1>5. \A v \in exports : \E u \in DOMAIN state.bound :
         /\ PlaceInNode(v) = state.bound[u] /\ SameView(graph, u, v)
  <2> HIDE DEF n, scratch
  <2>1. \A v \in plan[n].exports : \E u \in DOMAIN state.bound :
           /\ PlaceIn(graph, state.bound, scratch, v) = state.bound[u]
           /\ SameView(graph, u, v)
    BY <1>1, <1>2, <1>3, ExportsPlaced
  <2> QED BY <1>4, <2>1
<1>6. \A v \in exports : v \in DOMAIN state.bound => PlaceInNode(v) = state.bound[v]
  BY <1>1, <1>4, PlaceInIs
<1>7. Placed(state, place) /\ DOMAIN place = exports /\ exports \in SUBSET Ops(graph)
  BY <1>1, <1>5, <1>6 DEF Placed
<1>8. BindExports(exports) = BindIn(graph, state, exports, place)
  BY DEF BindExports, BindIn
<1>9. Books(state, Ops(graph), DOMAIN heap, WeightBuffers)
  BY DEF IInv, StateBooks
<1>10. Merged(BindExports(exports), state, place, Size(graph), Ops(graph), DOMAIN heap,
              WeightBuffers)
  <2> HIDE DEF place, exports
  <2> QED BY <1>1, <1>7, <1>8, <1>9, BindInIs
<1>11. \A v \in exports : graph.kind[v] = "kernel" => v \in DOMAIN state.bound
  BY <1>2 DEF IsAlias
<1> QED BY <1>1, <1>5, <1>6, <1>10, <1>11

LEMMA ExecuteKeeps == IInv /\ Execute => IInv'
<1> SUFFICES ASSUME IInv, Execute PROVE IInv'
  OBVIOUS
<1> DEFINE n == plan[AtNode]
           written == {v \in n.exports : graph.kind[v] = "kernel"}
           grown == Grown(Len(n.ops))
           r == BindExports(n.exports)
<1>1. /\ stage = "ops" /\ StartsNode /\ Unallocated = {}
      /\ UNCHANGED running /\ UNCHANGED <<nextBuffer, faults, weights, graph, plan>>
  BY DEF Execute, running
<1>2. graph \in Graphs /\ at \in Ops(graph) /\ Ops(graph) = 1..Size(graph)
      /\ Size(graph) \in Nat
  BY <1>1, GraphFacts DEF IInv, TypeInv
<1>3. CASE ~ImportsBound
  <2>1. EndWithError /\ UNCHANGED <<heap, rows>>
    BY <1>3 DEF Execute
  <2>2. rows' \in [Caches -> Nat]
    BY <2>1 DEF IInv, LengthInv
  <2> QED BY <1>1, <2>1, <2>2, ErrorKeeps, DevicesStay
<1>4. CASE ImportsBound
  <2>1. /\ DOMAIN heap' = DOMAIN heap
        /\ \A b \in DOMAIN heap : (\A v \in written : state.bound[v] # b) =>
              heap'[b] = heap[b]
        /\ rows' = grown /\ state' = [r EXCEPT !.paged = MergedLengths(grown)]
        /\ Advance("read") /\ UNCHANGED <<outputs, outcome>>
    BY <1>4 DEF Execute
  <2>2. /\ at' \in Ops(graph) /\ at' \in Nat \ {0}
        /\ stage' \in {"ops", "read"} /\ (stage' = "ops" => at' = at + 1)
    BY <1>1, <1>2, <2>1, AdvanceIs
  <2>3. TypeInv' /\ WeightsThere' /\ WeightBuffers' = WeightBuffers
    BY <1>1, <1>2, <2>1, <2>2 DEF IInv, TypeInv, WeightsThere, Resident, running,
                                  WeightBuffers
  <2> DEFINE place == [v \in n.exports |-> PlaceInNode(v)]
  <2>4. /\ Merged(r, state, place, Size(graph), Ops(graph), DOMAIN heap, WeightBuffers)
        /\ \A v \in n.exports :
              /\ v \in Ops(graph) /\ graph.kind[v] \in {"kernel", "alias"}
              /\ graph.kind[v] = "kernel" => v \in DOMAIN state.bound
    BY <1>1, <1>4, ExportsBound
  <2>5. /\ grown \in [Caches -> Nat]
        /\ \A c \in Caches : c \notin n.mutableImports => grown[c] = rows[c]
    <3>1. Len(n.ops) \in 0..Len(n.ops)
      BY <1>1, NodeStarts, LenProperties DEF IInv
    <3> QED BY <1>1, <3>1, GrownIs DEF IInv
  <2> HIDE DEF n, grown, r, place
  <2>6. /\ Books(r, Ops(graph), DOMAIN heap, WeightBuffers)
        /\ DOMAIN r.bound \subseteq DOMAIN state.bound \cup n.exports
        /\ \A v \in DOMAIN state.bound : r.bound[v] = state.bound[v]
    BY <2>4 DEF Merged, place
  <2>7. /\ state'.bound = r.bound /\ state'.refs = r.refs /\ state'.retired = r.retired
        /\ state'.paged = MergedLengths(grown)
        /\ DOMAIN state' = {"bound", "refs", "retired", "paged"}
        /\ state' = [bound |-> state'.bound, refs |-> state'.refs,
                     retired |-> state'.retired, paged |-> state'.paged]
    BY <2>1, <2>6 DEF Books
  <2>8. StateBooks'
    <3>1. Books(state', Ops(graph), DOMAIN heap, WeightBuffers)
      BY <2>6, <2>7 DEF Books
    <3> QED BY <1>1, <2>1, <2>3, <3>1 DEF StateBooks
  <2>9. HeapInv'
    BY <1>1, <2>1 DEF IInv, HeapInv
  <2>10. WeightsHeld'
    <3>1. \A v \in written : state.bound[v] \notin WeightBuffers
      BY <2>4 DEF IInv, StateInv
    <3>2. \A name \in Resident : /\ <<0, weights[name]>> \in DOMAIN heap
                                 /\ heap[<<0, weights[name]>>] = name
                                 /\ <<0, weights[name]>> \in WeightBuffers
      BY DEF IInv, WeightsHeld, WeightBuffers, Resident
    <3>3. \A name \in Resident : heap'[<<0, weights[name]>>] = name
      BY <2>1, <3>1, <3>2
    <3> QED BY <1>1, <2>1, <3>2, <3>3 DEF IInv, WeightsHeld, Resident
  <2>11. StateInv'
    <3>1. \A v \in DOMAIN state'.bound :
             \/ v \in DOMAIN state.bound /\ state'.bound[v] = state.bound[v]
             \/ v \notin DOMAIN state.bound /\ v \in n.exports /\ graph.kind[v] = "alias"
      BY <2>4, <2>6, <2>7
    <3>2. \A v \in DOMAIN state'.bound :
             graph.kind[v] = "kernel" => state'.bound[v] \notin WeightBuffers
      BY <3>1 DEF IInv, StateInv
    <3>3. \A v \in DOMAIN state'.bound : graph.kind[v] = "transfer" => v < at + 1
      <4>1. \A v \in DOMAIN state.bound : graph.kind[v] = "transfer" =>
               v < at /\ v \in Ops(graph)
        BY <1>1 DEF IInv, StateInv, StateBooks, Books
      <4> QED BY <1>2, <3>1, <4>1
    <3> QED BY <1>1, <2>2, <2>3, <3>2, <3>3 DEF StateInv
  <2>12. LengthInv'
    <3>1. /\ state'.paged = [c \in DOMAIN state.paged |->
                               IF c \in n.mutableImports THEN grown[c] ELSE state.paged[c]]
          /\ DOMAIN state.paged \subseteq Caches
          /\ \A c \in DOMAIN state.paged : state.paged[c] = rows[c]
      BY <1>1, <2>7 DEF MergedLengths, IInv, LengthInv, n
    <3>2. \A c \in DOMAIN state'.paged : state'.paged[c] = grown[c]
      BY <2>5, <3>1
    <3>3. state'.paged \in [DOMAIN state'.paged -> Nat] /\ DOMAIN state'.paged \subseteq Caches
      BY <2>5, <3>1, <3>2
    <3> QED BY <1>1, <2>1, <2>5, <3>2, <3>3 DEF LengthInv, Caches
  <2> QED BY <2>3, <2>8, <2>9, <2>10, <2>11, <2>12 DEF IInv
<1> QED BY <1>3, <1>4

LEMMA NodeFailsKeeps == IInv /\ NodeFails => IInv'
<1> SUFFICES ASSUME IInv, NodeFails PROVE IInv'
  OBVIOUS
<1>1. /\ stage = "ops" /\ StartsNode /\ EndWithError /\ UNCHANGED running
      /\ UNCHANGED <<heap, nextBuffer, weights>>
      /\ rows' = rows \/ \E k \in 0..Len(plan[AtNode].ops) : rows' = Grown(k)
  BY DEF NodeFails, running
<1>2. rows' \in [Caches -> Nat]
  BY <1>1, GrownIs DEF IInv, LengthInv
<1> QED BY <1>1, <1>2, ErrorKeeps, DevicesStay
LEMMA ReadKeeps == IInv /\ (ReadOutput \/ ReadFails \/ DoneReading) => IInv'
<1> SUFFICES ASSUME IInv, ReadOutput \/ ReadFails \/ DoneReading PROVE IInv'
  OBVIOUS
<1>1. /\ stage = "read" /\ UNCHANGED running
      /\ UNCHANGED <<heap, nextBuffer, rows, weights, graph, plan>>
      /\ at \in Nat \ {0} /\ rows \in [Caches -> Nat]
      /\ outcome \in {"none", "running", "ok", "error"}
  BY DEF ReadOutput, ReadFails, DoneReading, running, deviceVars, IInv, TypeInv, LengthInv
<1>2. HeapInv' /\ WeightsHeld'
  BY <1>1, DevicesStay
<1>3. CASE EndWithError
  BY <1>1, <1>2, <1>3, ErrorKeeps
<1>4. CASE ~EndWithError
  <2>1. /\ state' = state /\ outcome' = outcome /\ stage' \in {"read", "outputs"}
        /\ at' \in Nat \ {0}
    BY <1>1, <1>4 DEF ReadOutput, ReadFails, DoneReading
  <2>2. TypeInv' /\ WeightsThere' /\ WeightBuffers' = WeightBuffers
    BY <1>1, <2>1 DEF IInv, TypeInv, WeightsThere, Resident, running, WeightBuffers
  <2>3. StateBooks' /\ StateInv' /\ LengthInv'
    BY <1>1, <2>1, <2>2 DEF IInv, StateBooks, StateInv, LengthInv, Caches
  <2> QED BY <1>2, <2>2, <2>3 DEF IInv
<1> QED BY <1>3, <1>4

\* A value that can be given back is: its buffer too if it was the last one.
LEMMA DeallocIs ==
    ASSUME IInv, UNCHANGED <<graph, weights, nextBuffer>>,
           NEW v \in DOMAIN state.bound, Dealloc(v)
    PROVE  /\ HeapInv' /\ WeightsHeld' /\ StateBooks'
           /\ state'.bound = Without(state.bound, {v}) /\ state'.paged = state.paged
           /\ DOMAIN state'.refs = IF state.refs[state.bound[v]].count = 1
                                   THEN DOMAIN state.refs \ {state.bound[v]}
                                   ELSE DOMAIN state.refs
           /\ DOMAIN heap' = IF GivesBack(v) THEN DOMAIN heap \ {state.bound[v]} ELSE DOMAIN heap
<1> DEFINE b == state.bound[v]
<1>1. /\ state' = [DropRef(state, v) EXCEPT !.bound = Without(@, {v})]
      /\ heap' = IF GivesBack(v) THEN Without(heap, {b}) ELSE heap
  BY DEF Dealloc
<1>2. Books(state, Ops(graph), DOMAIN heap, WeightBuffers) /\ IsFiniteSet(Ops(graph))
  BY GraphFacts, FS_Interval DEF IInv, StateBooks, TypeInv
<1>3. /\ Books(state', Ops(graph), DOMAIN heap, WeightBuffers)
      /\ state'.bound = Without(state.bound, {v}) /\ state'.paged = state.paged
      /\ DOMAIN state'.refs = IF state.refs[b].count = 1
                              THEN DOMAIN state.refs \ {b} ELSE DOMAIN state.refs
  <2> DEFINE H == DOMAIN heap
  <2>1. state' = Unbound(state, v)
    BY <1>1 DEF Unbound
  <2>2. Books(state, Ops(graph), H, WeightBuffers) /\ IsFiniteSet(Ops(graph))
    BY <1>2
  <2> HIDE DEF H
  <2>3. /\ Books(Unbound(state, v), Ops(graph), H, WeightBuffers)
        /\ Unbound(state, v).bound = Without(state.bound, {v})
        /\ Unbound(state, v).paged = state.paged
        /\ DOMAIN Unbound(state, v).refs =
              IF state.refs[state.bound[v]].count = 1
              THEN DOMAIN state.refs \ {state.bound[v]} ELSE DOMAIN state.refs
    BY <2>2, BooksDrop
  <2> QED BY <2>1, <2>3 DEF H
<1>4. /\ DOMAIN heap' = IF GivesBack(v) THEN DOMAIN heap \ {b} ELSE DOMAIN heap
      /\ \A c \in DOMAIN heap' : c \in DOMAIN heap /\ heap'[c] = heap[c]
  BY <1>1 DEF Without
<1>5. GivesBack(v) => state.refs[b].count = 1 /\ b \notin WeightBuffers
  BY <1>2 DEF GivesBack, Books
<1> HIDE DEF b
<1>6. DOMAIN state'.refs \subseteq DOMAIN heap'
  BY <1>2, <1>3, <1>4, <1>5 DEF Books
<1>7. StateBooks'
  <2>1. Books(state', Ops(graph), DOMAIN heap', WeightBuffers)
    BY <1>3, <1>6 DEF Books
  <2>2. WeightBuffers' = WeightBuffers
    BY DEF WeightBuffers
  <2> QED BY <2>1, <2>2 DEF StateBooks
<1>8. HeapInv'
  BY <1>4 DEF IInv, HeapInv
<1>9. WeightsHeld'
  <2>1. \A name \in Resident : /\ <<0, weights[name]>> \in DOMAIN heap
                               /\ heap[<<0, weights[name]>>] = name
                               /\ <<0, weights[name]>> \in WeightBuffers
    BY DEF IInv, WeightsHeld, WeightBuffers, Resident
  <2>2. \A name \in Resident : /\ <<0, weights[name]>> \in DOMAIN heap'
                               /\ heap'[<<0, weights[name]>>] = name
    BY <1>4, <1>5, <2>1
  <2> QED BY <2>2 DEF IInv, WeightsHeld, Resident
<1> QED BY <1>3, <1>4, <1>7, <1>8, <1>9 DEF b

LEMMA DeallocsKeep == IInv /\ (DeallocOutput \/ DeallocRemaining \/ DeallocFails) => IInv'
<1> SUFFICES ASSUME IInv, DeallocOutput \/ DeallocRemaining \/ DeallocFails PROVE IInv'
  OBVIOUS
<1>1. /\ stage = "outputs" /\ UNCHANGED running
      /\ UNCHANGED <<nextBuffer, rows, weights, graph, plan>>
      /\ at \in Nat \ {0} /\ rows \in [Caches -> Nat]
      /\ outcome \in {"none", "running", "ok", "error"}
  BY DEF DeallocOutput, DeallocRemaining, DeallocFails, running, IInv, TypeInv, LengthInv
<1>2. CASE EndWithError /\ heap' = heap
  BY <1>1, <1>2, ErrorKeeps, DevicesStay
<1>3. CASE at' = at + 1 /\ UNCHANGED <<state, heap, stage, outputs, outcome>>
  <2>1. TypeInv' /\ WeightsThere' /\ WeightBuffers' = WeightBuffers
    BY <1>1, <1>3 DEF IInv, TypeInv, WeightsThere, Resident, running, WeightBuffers
  <2>2. StateBooks' /\ StateInv' /\ LengthInv'
    BY <1>1, <1>3, <2>1 DEF IInv, StateBooks, StateInv, LengthInv, Caches
  <2> QED BY <1>1, <1>3, <2>1, <2>2, DevicesStay DEF IInv
<1>4. ASSUME NEW v, CanDealloc(v), Dealloc(v), at' \in {at, at + 1} PROVE IInv'
  <2>1. v \in DOMAIN state.bound /\ UNCHANGED <<stage, outputs, outcome>>
    BY <1>4 DEF CanDealloc, Dealloc
  <2>2. TypeInv' /\ WeightsThere' /\ WeightBuffers' = WeightBuffers
    BY <1>1, <1>4, <2>1 DEF IInv, TypeInv, WeightsThere, Resident, running, WeightBuffers
  <2>3. /\ HeapInv' /\ WeightsHeld' /\ StateBooks'
        /\ state'.bound = Without(state.bound, {v}) /\ state'.paged = state.paged
    BY <1>1, <1>4, <2>1, DeallocIs
  <2>4. StateInv' /\ LengthInv'
    <3>1. \A u \in DOMAIN state'.bound :
             u \in DOMAIN state.bound /\ state'.bound[u] = state.bound[u]
      BY <2>3 DEF Without
    <3> QED BY <1>1, <2>1, <2>2, <2>3, <3>1 DEF IInv, StateInv, LengthInv, Caches
  <2> QED BY <2>2, <2>3, <2>4 DEF IInv
<1>5. CASE DeallocOutput
  BY <1>2, <1>3, <1>4, <1>5 DEF DeallocOutput
<1>6. CASE DeallocRemaining
  BY <1>2, <1>4, <1>6 DEF DeallocRemaining
<1>7. CASE DeallocFails
  BY <1>2, <1>7 DEF DeallocFails
<1> QED BY <1>5, <1>6, <1>7

LEMMA EndRunKeeps == IInv /\ EndRun => IInv'
<1> SUFFICES ASSUME IInv, EndRun PROVE IInv'
  OBVIOUS
<1>1. /\ stage = "outputs" /\ UNCHANGED running /\ heap' = Without(heap, ToSet(state.retired))
      /\ state' = FreshState /\ stage' = "idle" /\ at' = 1 /\ outcome' = "ok"
      /\ UNCHANGED <<outputs, nextBuffer, rows, weights, graph, plan>>
  BY DEF EndRun, running
<1>2. ToSet(state.retired) = {}
  BY DEF IInv, StateBooks, Books, ToSet
<1>3. DOMAIN heap' = DOMAIN heap /\ \A b \in DOMAIN heap : heap'[b] = heap[b]
  BY <1>1, <1>2 DEF Without
<1>4. HeapInv' /\ WeightsHeld'
  BY <1>1, <1>3 DEF IInv, HeapInv, WeightsHeld, Resident
<1>5. TypeInv' /\ WeightsThere'
  BY <1>1 DEF IInv, TypeInv, WeightsThere, Resident, running
<1>6. StateBooks' /\ LengthInv' /\ StateInv'
  <2>1. rows \in [Caches -> Nat] /\ rows' \in [Caches -> Nat] /\ graph \in Graphs
    BY <1>1 DEF IInv, LengthInv, TypeInv
  <2> QED BY <1>1, <2>1, Freed
<1> QED BY <1>4, <1>5, <1>6 DEF IInv

LEMMA StutterKeeps == IInv /\ UNCHANGED vars => IInv'
  BY DEF IInv, vars, deviceVars, TypeInv, HeapInv, WeightsHeld, WeightsThere, Resident,
         StateBooks, WeightBuffers, StateInv, LengthInv, Caches

\* What the engine keeps of the devices stays true through every step of every
\* run, whichever device call fails (Engine.cpp: runValuesImpl, loadWeights,
\* deallocWeights).
THEOREM BooksKept == Spec => []IInv
<1>1. IInv /\ [Next]_vars => IInv'
  BY LoadWeightKeeps, LoadWeightFailsKeeps, DeallocWeightKeeps, DeallocWeightFailsKeeps,
     BeginRunKeeps, BindInputKeeps, BindInputFailsKeeps, PassOverKeeps, TransferKeeps,
     TransferFailsKeeps, AllocExportKeeps, ExecuteKeeps, NodeFailsKeeps, ReadKeeps,
     DeallocsKeep, EndRunKeeps, StutterKeeps DEF Next
<1> QED BY <1>1, InitKeeps, PTL DEF Spec

\* The engine's stage, its place and its tables stay what they are declared to be.
THEOREM EngineTypes == Spec => []TypeOK
<1>1. IInv => TypeOK
  <2> SUFFICES ASSUME IInv PROVE TypeOK
    OBVIOUS
  <2>1. ToSet(state.retired) = {}
    BY DEF IInv, StateBooks, Books, ToSet
  <2>2. /\ DOMAIN state.bound \subseteq Ops(graph)
        /\ \A v \in DOMAIN state.bound : state.bound[v] \in DOMAIN state.refs
        /\ \A b \in DOMAIN state.refs : state.refs[b] \in [count : Nat \ {0}, owned : BOOLEAN]
    BY DEF IInv, StateBooks, Books
  <2>3. DOMAIN heap \subseteq Buffers
    BY DEF IInv, HeapInv
  <2> QED BY <2>1, <2>2, <2>3 DEF IInv, TypeInv, TypeOK
<1> QED BY <1>1, BooksKept, PTL

\* A buffer of a run is referred to by as many values as it counts, is allocated
\* while any value refers to it, and is owned exactly if it is not a weight of
\* the device; between two nodes the engine knows each cache's length.
THEOREM BooksMatch == Spec => []BooksMatchDevices
<1>1. IInv => BooksMatchDevices
  <2> SUFFICES ASSUME IInv PROVE BooksMatchDevices
    OBVIOUS
  <2>1. \A b \in DOMAIN state.refs :
           /\ state.refs[b].count = Cardinality({v \in DOMAIN state.bound : state.bound[v] = b})
           /\ b \in DOMAIN heap
           /\ state.refs[b].owned <=> b \notin {<<0, weights[name]>> : name \in DOMAIN weights}
    BY DEF IInv, StateBooks, Books, BoundTo, WeightBuffers
  <2> QED BY <2>1 DEF BooksMatchDevices, IInv, WeightsHeld, LengthInv
<1> QED BY <1>1, BooksKept, PTL
-----------------------------------------------------------------------------
(* How far a run has come                                                   *)

ReadOrderIn(g) ==
    LET order[i \in 0..Len(g.outputs)] ==
        IF i = 0 THEN <<>>
        ELSE order[i - 1] \o (IF g.kind[g.outputs[i]] = "tuple"
                              THEN g.inputs[g.outputs[i]]
                              ELSE <<g.outputs[i]>>)
    IN  order[Len(g.outputs)]

\* The values of plan p that are bound once the engine has come to operation k.
Visible(g, p, k) ==
    {v \in Ops(g) :
        \/ g.kind[v] \in {"argument", "weight"}
        \/ g.kind[v] = "transfer" /\ v < k
        \/ \E n \in DOMAIN p : v \in p[n].exports /\ Head(p[n].ops) < k}

\* The exports of the node that starts at k which the engine gives storage to.
Pending(g, p, k) ==
    {v \in Ops(g) : g.kind[v] = "kernel"
                    /\ \E n \in DOMAIN p : v \in p[n].exports /\ Head(p[n].ops) = k}

\* v is bound, on its device, to a buffer that holds what v should show.
Shows(g, bound, contents, v) ==
    /\ v \in DOMAIN bound /\ bound[v] \in DOMAIN contents
    /\ contents[bound[v]] = ShownIn(g, v)

OnDevices(g, bound) == \A v \in DOMAIN bound : bound[v][1] = g.device[v]

BindInv ==
    stage = "bind" =>
        /\ outputs = <<>>
        /\ DOMAIN state.bound = {v \in Ops(graph) : v < at /\ graph.kind[v] \in {"argument", "weight"}}
        /\ DOMAIN state.paged = {c \in Caches : c < at}
        /\ \A v \in DOMAIN state.bound : Shows(graph, state.bound, heap, v)
        /\ OnDevices(graph, state.bound)

\* Values that share a buffer are views of one tensor.
Views(g, bound) ==
    \A u, v \in DOMAIN bound : bound[u] = bound[v] => ShownIn(g, u) = ShownIn(g, v)

OpsInv ==
    stage = "ops" =>
        /\ outputs = <<>>
        /\ DOMAIN state.bound \subseteq Visible(graph, plan, at) \cup Pending(graph, plan, at)
        /\ DOMAIN state.paged = Caches
        /\ \A v \in Visible(graph, plan, at) : Shows(graph, state.bound, heap, v)
        /\ OnDevices(graph, state.bound)
        /\ Views(graph, state.bound)

ReadInv ==
    stage = "read" =>
        /\ \A v \in Visible(graph, plan, Len(graph.kind) + 1) : Shows(graph, state.bound, heap, v)
        /\ at \in 1..(Len(ReadOrderIn(graph)) + 1)
        /\ outputs = [i \in 1..(at - 1) |-> ShownIn(graph, ReadOrderIn(graph)[i])]

FirstIn(order, i) == \A j \in 1..(i - 1) : order[j] # order[i]

OutputsInv ==
    stage = "outputs" =>
        /\ outputs = [i \in 1..Len(ReadOrderIn(graph)) |-> ShownIn(graph, ReadOrderIn(graph)[i])]
        /\ \A i \in at..Len(ReadOrderIn(graph)) :
              FirstIn(ReadOrderIn(graph), i) => ReadOrderIn(graph)[i] \in DOMAIN state.bound

\* The buffers of a run: those it found and those it owns.
Owned == DOMAIN state.refs \ WeightBuffers

AccountInv ==
    stage \notin {"idle", "loading"} =>
        /\ outcome = "running"
        /\ DOMAIN heap = before \cup Owned
        /\ before \cap Owned = {}

RunInv == BindInv /\ OpsInv /\ ReadInv /\ OutputsInv /\ AccountInv /\ faults \in Nat
-----------------------------------------------------------------------------
(* What is bound when                                                       *)

PlanOK(g, p) == g \in Graphs /\ PlanNodes(g, p) /\ PlanBorders(g, p)

LEMMA VisibleNext ==
    ASSUME NEW g, NEW p, PlanOK(g, p), NEW k \in Ops(g)
    PROVE  /\ g.kind[k] = "transfer" =>
                 Visible(g, p, k + 1) = Visible(g, p, k) \cup {k} /\ Pending(g, p, k) = {}
           /\ g.kind[k] # "transfer" /\ (\A n \in DOMAIN p : Head(p[n].ops) # k) =>
                 Visible(g, p, k + 1) = Visible(g, p, k) /\ Pending(g, p, k) = {}
           /\ \A n \in DOMAIN p : Head(p[n].ops) = k =>
                 /\ Visible(g, p, k + 1) = Visible(g, p, k) \cup p[n].exports
                 /\ Pending(g, p, k) = {v \in p[n].exports : g.kind[v] = "kernel"}
<1>1. Size(g) \in Nat /\ Ops(g) = 1..Size(g)
  BY GraphFacts DEF PlanOK
<1>2. \A v \in Ops(g) : v < k + 1 <=> v < k \/ v = k
  BY <1>1
<1>3. \A n \in DOMAIN p : /\ Head(p[n].ops) \in ToSet(p[n].ops) /\ Head(p[n].ops) \in Ops(g)
                          /\ g.kind[Head(p[n].ops)] # "transfer"
                          /\ NodeOf(p, Head(p[n].ops)) = n
  BY DEF PlanOK, PlanNodes, BelongsToExecutable
<1>4. \A n \in DOMAIN p : p[n].exports \subseteq Ops(g)
  BY DEF PlanOK, PlanNodes, PlanBorders
<1>5. \A n \in DOMAIN p : Head(p[n].ops) < k + 1 <=> Head(p[n].ops) < k \/ Head(p[n].ops) = k
  BY <1>2, <1>3
<1>6. g.kind[k] = "transfer" => \A n \in DOMAIN p : Head(p[n].ops) # k
  BY <1>3
<1>7. ASSUME \A n \in DOMAIN p : Head(p[n].ops) # k
      PROVE  /\ g.kind[k] = "transfer" => Visible(g, p, k + 1) = Visible(g, p, k) \cup {k}
             /\ g.kind[k] # "transfer" => Visible(g, p, k + 1) = Visible(g, p, k)
             /\ Pending(g, p, k) = {}
  <2>1. \A n \in DOMAIN p : Head(p[n].ops) < k + 1 <=> Head(p[n].ops) < k
    BY <1>5, <1>7
  <2>2. \A v \in Ops(g) : g.kind[v] = "transfer" =>
           (v < k + 1 <=> v < k \/ (v = k /\ g.kind[k] = "transfer"))
    BY <1>2
  <2>3. \A v : v \in Visible(g, p, k + 1) <=>
                  v \in Visible(g, p, k) \/ (v = k /\ g.kind[k] = "transfer")
    BY <2>1, <2>2 DEF Visible
  <2>4. Pending(g, p, k) = {}
    BY <1>7 DEF Pending
  <2> QED BY <2>3, <2>4
<1>8. ASSUME NEW n \in DOMAIN p, Head(p[n].ops) = k
      PROVE  /\ Visible(g, p, k + 1) = Visible(g, p, k) \cup p[n].exports
             /\ Pending(g, p, k) = {v \in p[n].exports : g.kind[v] = "kernel"}
  <2>1. \A m \in DOMAIN p : Head(p[m].ops) = k <=> m = n
    BY <1>3, <1>8
  <2>2. g.kind[k] # "transfer"
    BY <1>3, <1>8
  <2>3. \A v \in Ops(g) : g.kind[v] = "transfer" => (v < k + 1 <=> v < k)
    BY <1>2, <2>2
  <2>4. \A v : v \in Visible(g, p, k + 1) <=> v \in Visible(g, p, k) \/ v \in p[n].exports
    BY <1>4, <1>5, <2>1, <2>3 DEF Visible
  <2>5. \A v : v \in Pending(g, p, k) <=> v \in p[n].exports /\ g.kind[v] = "kernel"
    BY <1>4, <2>1 DEF Pending
  <2> QED BY <2>4, <2>5
<1> QED BY <1>6, <1>7, <1>8

\* What crosses a border is visible from then on.
LEMMA ExportVisible ==
    ASSUME NEW g, NEW p, PlanOK(g, p), NEW v \in Ops(g), NEW k \in Nat, v < k,
           g.kind[v] \notin {"cache", "append", "tuple"},
           v \in ToSet(g.outputs)
              \/ \E i \in Ops(g) : v \in Reads(g, i) /\ NodeOf(p, i) # NodeOf(p, v)
    PROVE  v \in Visible(g, p, k)
<1>1. Size(g) \in Nat /\ Ops(g) = 1..Size(g) /\ g.kind[v] \in Kinds
  BY GraphFacts DEF PlanOK
<1>2. CASE g.kind[v] \in {"argument", "weight", "transfer"}
  BY <1>2 DEF Visible
<1>3. CASE g.kind[v] \in {"kernel", "alias"}
  <2> DEFINE n == NodeOf(p, v)
  <2>1. n \in DOMAIN p /\ v \in ToSet(p[n].ops)
    BY <1>3 DEF PlanOK, PlanNodes, BelongsToExecutable, InputKinds
  <2>2. v \in p[n].exports
    BY <2>1 DEF PlanOK, PlanBorders
  <2>3. Head(p[n].ops) \in Ops(g) /\ Head(p[n].ops) <= v
    BY <2>1 DEF PlanOK, PlanNodes
  <2>4. Head(p[n].ops) < k
    BY <1>1, <2>3
  <2> QED BY <2>1, <2>2, <2>4 DEF Visible
<1> QED BY <1>1, <1>2, <1>3 DEF Kinds, InputKinds

\* A transfer or a tuple reads what is visible.
LEMMA EngineReads ==
    ASSUME NEW g, NEW p, PlanOK(g, p), NEW i \in Ops(g), g.kind[i] \in {"transfer", "tuple"},
           NEW v \in Reads(g, i)
    PROVE  v \in Visible(g, p, i)
<1>1. /\ Size(g) \in Nat /\ Ops(g) = 1..Size(g) /\ g.kind[v] \in Kinds
      /\ v \in Ops(g) /\ v < i /\ g.kind[v] \notin {"cache", "append", "tuple"}
  BY GraphFacts DEF PlanOK
<1>2. NodeOf(p, i) \notin DOMAIN p
  BY DEF PlanOK, PlanNodes, BelongsToExecutable
<1>3. CASE NodeOf(p, i) # NodeOf(p, v)
  BY <1>1, <1>3, ExportVisible
<1>4. CASE NodeOf(p, i) = NodeOf(p, v)
  <2>1. ~BelongsToExecutable(g, v)
    BY <1>1, <1>2, <1>4 DEF PlanOK, PlanNodes
  <2>2. g.kind[v] \in {"argument", "weight", "transfer"}
    BY <1>1, <2>1 DEF BelongsToExecutable, Kinds, InputKinds
  <2> QED BY <1>1, <2>2 DEF Visible
<1> QED BY <1>3, <1>4

\* What a node reads from outside is visible when it starts, or a cache.
LEMMA NodeReads ==
    ASSUME NEW g, NEW p, PlanOK(g, p), NEW n \in DOMAIN p, NEW i \in ToSet(p[n].ops),
           NEW v \in Reads(g, i), NodeOf(p, v) # n
    PROVE  g.kind[v] = "cache" \/ v \in Visible(g, p, Head(p[n].ops))
<1> DEFINE k == Head(p[n].ops)
<1>1. /\ i \in Ops(g) /\ k \in Ops(g) /\ NodeOf(p, i) = n
      /\ \A u \in Ops(g) : k <= u /\ u <= i => u \in ToSet(p[n].ops) \/ Passed(g, u)
      /\ v \notin ToSet(p[n].ops)
  <2>1. PlanNodes(g, p)
    BY DEF PlanOK
  <2>2. /\ Head(p[n].ops) \in ToSet(p[n].ops)
        /\ \A u : NodeOf(p, u) = n <=> u \in ToSet(p[n].ops)
        /\ \A u \in ToSet(p[n].ops) :
              /\ u \in Ops(g)
              /\ \A w \in Ops(g) : k <= w /\ w <= u => w \in ToSet(p[n].ops) \/ Passed(g, w)
    BY <2>1 DEF PlanNodes
  <2> QED BY <2>2
<1>2. /\ Size(g) \in Nat /\ Ops(g) = 1..Size(g) /\ g.kind[v] \in Kinds
      /\ v \in Ops(g) /\ v < i /\ g.kind[v] \notin {"append", "tuple"}
  BY <1>1, GraphFacts DEF PlanOK
<1> HIDE DEF k
<1>3. CASE g.kind[v] \in {"argument", "weight", "cache"}
  BY <1>2, <1>3 DEF Visible
<1>4. CASE g.kind[v] \notin {"argument", "weight", "cache"}
  <2>1. ~Passed(g, v)
    BY <1>2, <1>4 DEF Passed, InputKinds
  <2>2. v < k
    BY <1>1, <1>2, <2>1
  <2>3. NodeOf(p, i) # NodeOf(p, v)
    BY <1>1
  <2>4. v \in Visible(g, p, k)
    BY <1>1, <1>2, <1>4, <2>2, <2>3, ExportVisible
  <2> QED BY <2>4 DEF k
<1> QED BY <1>3, <1>4 DEF k

\* The tensors that are read in the end are visible then.
LEMMA OutputsVisible ==
    ASSUME NEW g, NEW p, PlanOK(g, p), NEW i \in 1..Len(g.outputs)
    PROVE  /\ g.kind[g.outputs[i]] = "tuple" =>
                 g.inputs[g.outputs[i]] \in Seq(Visible(g, p, Size(g) + 1))
           /\ g.kind[g.outputs[i]] # "tuple" =>
                 <<g.outputs[i]>> \in Seq(Visible(g, p, Size(g) + 1))
<1> DEFINE v == g.outputs[i]
           V == Visible(g, p, Size(g) + 1)
<1>1. /\ Size(g) \in Nat /\ Ops(g) = 1..Size(g)
      /\ g.outputs \in Seq(Ops(g)) /\ ToSet(g.outputs) \subseteq Ops(g)
      /\ \A u \in ToSet(g.outputs) : g.kind[u] \notin {"append", "cache"}
  BY GraphFacts DEF PlanOK
<1>2. v \in ToSet(g.outputs) /\ v \in Ops(g)
  BY <1>1, LenProperties DEF ToSet
<1>3. ASSUME g.kind[v] # "tuple" PROVE v \in V
  BY <1>1, <1>2, <1>3, ExportVisible
<1>4. ASSUME g.kind[v] = "tuple" PROVE g.inputs[v] \in Seq(V)
  <2> DEFINE s == g.inputs[v]
  <2>1. s \in Seq(Ops(g)) /\ Reads(g, v) = ToSet(s)
    BY <1>2, GraphFacts DEF PlanOK, Reads
  <2>2. \A u \in Reads(g, v) : u \in Visible(g, p, v)
    BY <1>2, <1>4, EngineReads
  <2>3. Visible(g, p, v) \subseteq V
    <3>1. \A u \in Ops(g) : u < v => u < Size(g) + 1
      BY <1>1, <1>2
    <3>2. \A n \in DOMAIN p : Head(p[n].ops) \in Ops(g)
      BY DEF PlanOK, PlanNodes
    <3>3. \A n \in DOMAIN p : Head(p[n].ops) < v => Head(p[n].ops) < Size(g) + 1
      BY <3>1, <3>2
    <3> QED BY <3>1, <3>3 DEF Visible
  <2> HIDE DEF s, V, v
  <2>4. \A j \in 1..Len(s) : s[j] \in V
    BY <2>1, <2>2, <2>3, LenProperties DEF ToSet
  <2>5. s \in Seq(V)
    <3>1. Len(s) \in Nat /\ s = [j \in 1..Len(s) |-> s[j]]
      BY <2>1, LenProperties
    <3>2. s \in [1..Len(s) -> V]
      BY <2>4, <3>1
    <3> QED BY <3>1, <3>2, SeqDef
  <2> QED BY <2>5 DEF s
<1> HIDE DEF V
<1>5. v \in V => <<v>> \in Seq(V)
  OBVIOUS
<1> QED BY <1>3, <1>4, <1>5 DEF V
LEMMA ReadOrderIs ==
    ASSUME NEW g, NEW p, PlanOK(g, p)
    PROVE  ReadOrderIn(g) \in Seq(Visible(g, p, Size(g) + 1))
<1> DEFINE n == Len(g.outputs)
           D == Seq(Visible(g, p, Size(g) + 1))
           piece == [i \in 1..n |-> IF g.kind[g.outputs[i]] = "tuple"
                                    THEN g.inputs[g.outputs[i]] ELSE <<g.outputs[i]>>]
           step == [i \in 1..n |-> [s \in D |-> s \o piece[i]]]
           Is(f) == f = [i \in 0..n |->
                      IF i = 0 THEN <<>>
                      ELSE f[i - 1] \o (IF g.kind[g.outputs[i]] = "tuple"
                                        THEN g.inputs[g.outputs[i]]
                                        ELSE <<g.outputs[i]>>)]
<1>1. n \in Nat
  BY GraphFacts, LenProperties DEF PlanOK
<1>2. \A i \in 1..n : piece[i] \in D
  BY OutputsVisible
<1>3. \A s, t \in D : s \o t \in D
  BY ConcatProperties
<1>4. <<>> \in D
  OBVIOUS
<1> HIDE DEF D
<1>5. StaysIn(D, n, step)
  <2> HIDE DEF piece
  <2> QED BY <1>2, <1>3 DEF StaysIn
<1>6. PICK f \in [0..n -> D] : Iterates(f, n, <<>>, step)
  <2> HIDE DEF step, n, Is
  <2> QED BY <1>1, <1>4, <1>5, Iteration
<1>7. \A i \in 1..n : f[i] = f[i - 1] \o piece[i]
  <2> TAKE i \in 1..n
  <2>1. f[i] = step[i][f[i - 1]]
    <3> HIDE DEF step, n
    <3> QED BY <1>6 DEF Iterates
  <2>2. i - 1 \in 0..n
    BY <1>1
  <2>3. f[i - 1] \in D
    BY <1>6, <2>2
  <2> HIDE DEF piece
  <2> QED BY <2>1, <2>3
<1>8. Is(f)
  <2>1. \A i \in 0..n : f[i] = IF i = 0 THEN <<>> ELSE f[i - 1] \o piece[i]
    <3> TAKE i \in 0..n
    <3>1. CASE i = 0
      BY <1>6, <3>1 DEF Iterates
    <3>2. CASE i # 0
      <4>1. i \in 1..n
        BY <1>1, <3>2
      <4> QED BY <1>7, <3>2, <4>1
    <3> QED BY <3>1, <3>2
  <2>2. \A i \in 0..n : i # 0 => i \in 1..n
    BY <1>1
  <2> QED BY <2>1, <2>2
<1> DEFINE h == CHOOSE x : Is(x)
<1>9. Is(h)
  <2> HIDE DEF Is
  <2> QED BY <1>8
<1>10. ReadOrderIn(g) = h[n]
  BY DEF ReadOrderIn
<1> HIDE DEF h
<1>11. h[0] = <<>> /\ \A i \in 1..n : h[i] = h[i - 1] \o piece[i]
  <2>1. h[0] = <<>>
    BY <1>1, <1>9
  <2>2. ASSUME NEW i \in 1..n PROVE h[i] = h[i - 1] \o piece[i]
    <3>1. i \in 0..n /\ i # 0
      BY <1>1
    <3>2. h[i] = h[i - 1] \o (IF g.kind[g.outputs[i]] = "tuple"
                              THEN g.inputs[g.outputs[i]] ELSE <<g.outputs[i]>>)
      <4> HIDE DEF n, piece, step
      <4> QED BY <1>9, <3>1
    <3>3. piece[i] = IF g.kind[g.outputs[i]] = "tuple"
                     THEN g.inputs[g.outputs[i]] ELSE <<g.outputs[i]>>
      OBVIOUS
    <3> HIDE DEF piece
    <3> QED BY <3>2, <3>3
  <2> QED BY <2>1, <2>2
<1>12. \A i \in 0..n : h[i] \in D
  <2> DEFINE T == {i \in 0..n : h[i] \in D}
  <2>1. 0 \in T
    BY <1>1, <1>4, <1>11
  <2>2. \A i \in 1..n : i - 1 \in T => i \in T
    <3> TAKE i \in 1..n
    <3> HAVE i - 1 \in T
    <3>1. i \in 0..n /\ h[i - 1] \in D
      BY <1>1
    <3>3. piece[i] \in D
      <4> HIDE DEF piece, T, step
      <4> QED BY <1>2
    <3>2. h[i] = h[i - 1] \o piece[i]
      BY <1>11
    <3> HIDE DEF piece
    <3> QED BY <1>3, <3>1, <3>2, <3>3
  <2>3. \A i \in 0..n : i \in T
    <3> HIDE DEF T
    <3> QED BY <1>1, <2>1, <2>2, ByPrevious
  <2> QED BY <2>3
<1> QED BY <1>1, <1>10, <1>12 DEF D

\* A node whose inputs are what they should be computes what it should.
LEMMA NodeComputes ==
    ASSUME graph \in Graphs,
           \A u \in Ops(graph) : NodeOf(plan, u) = AtNode =>
              \A w \in Reads(graph, u) : NodeOf(plan, w) # AtNode =>
                 IF graph.kind[w] = "cache"
                 THEN w \in DOMAIN state.paged /\ state.paged[w] = rows[w]
                 ELSE Holds(w)
    PROVE  \A v \in Ops(graph) : NodeOf(plan, v) = AtNode => Computed(v)
<1> DEFINE N == Size(graph)
           n == AtNode
           Is(f) == f = [u \in Ops(graph) |->
                      IF NodeOf(plan, u) = n
                      THEN \A w \in Reads(graph, u) : f[w]
                      ELSE IF graph.kind[u] = "cache"
                      THEN u \in DOMAIN state.paged /\ state.paged[u] = rows[u]
                      ELSE Holds(u)]
           f == [u \in Ops(graph) |->
                   IF NodeOf(plan, u) = n THEN TRUE
                   ELSE IF graph.kind[u] = "cache"
                   THEN u \in DOMAIN state.paged /\ state.paged[u] = rows[u]
                   ELSE Holds(u)]
<1>1. /\ N \in Nat /\ Ops(graph) = 1..N
      /\ \A u \in Ops(graph) : \A w \in Reads(graph, u) : w \in Ops(graph) /\ w < u
  BY GraphFacts
<1>2. Is(f)
  <2>1. \A u \in Ops(graph) : NodeOf(plan, u) = n => \A w \in Reads(graph, u) : f[w] = TRUE
    BY <1>1
  <2>2. \A u \in Ops(graph) : NodeOf(plan, u) = n => ((\A w \in Reads(graph, u) : f[w]) <=> TRUE)
    BY <2>1
  <2>3. \A u \in Ops(graph) : NodeOf(plan, u) = n => ((\A w \in Reads(graph, u) : f[w]) = TRUE)
    BY <2>2
  <2> QED BY <2>3
<1> DEFINE h == CHOOSE x : Is(x)
<1>3. Is(h)
  <2> HIDE DEF Is
  <2> QED BY <1>2
<1>4. \A v : Computed(v) = h[v]
  BY DEF Computed
<1> HIDE DEF h, f, n
<1>5. \A u \in Ops(graph) : h[u] = IF NodeOf(plan, u) = n
                               THEN \A w \in Reads(graph, u) : h[w]
                               ELSE IF graph.kind[u] = "cache"
                               THEN u \in DOMAIN state.paged /\ state.paged[u] = rows[u]
                               ELSE Holds(u)
  BY <1>3
<1> HIDE DEF Is
<1> DEFINE T == {v \in Ops(graph) : NodeOf(plan, v) = n => h[v]}
<1>6. ASSUME NEW v \in 1..N, \A j \in 1..(v - 1) : j \in T PROVE v \in T
  <2> SUFFICES ASSUME NodeOf(plan, v) = n PROVE h[v]
    BY <1>1
  <2>1. ASSUME NEW w \in Reads(graph, v) PROVE h[w]
    <3>1. w \in Ops(graph) /\ w \in 1..(v - 1)
      BY <1>1
    <3>2. CASE NodeOf(plan, w) = n
      BY <1>6, <3>1, <3>2
    <3>3. CASE NodeOf(plan, w) # n
      <4>1. IF graph.kind[w] = "cache"
            THEN w \in DOMAIN state.paged /\ state.paged[w] = rows[w] ELSE Holds(w)
        BY <1>1, <3>3 DEF n
      <4> QED BY <1>5, <3>1, <3>3, <4>1
    <3> QED BY <3>2, <3>3
  <2> QED BY <1>1, <1>5, <2>1
<1>7. \A v \in 1..N : v \in T
  <2> HIDE DEF T, N
  <2> QED BY <1>1, <1>6, ByEarlier
<1> QED BY <1>1, <1>4, <1>7 DEF n

LEMMA ReadOrderGraph == ReadOrder = ReadOrderIn(graph)
  BY DEF ReadOrder, ReadOrderIn
-----------------------------------------------------------------------------
(* A run ends right                                                         *)

\* What RunsEndRight says of a step.
EndsRight ==
    /\ outcome = "running" /\ outcome' = "ok" =>
          /\ outputs = [i \in DOMAIN ReadOrder |-> Shown(ReadOrder[i])]
          /\ DOMAIN heap' = before
    /\ outcome' = "error" => outcome = "error" \/ faults' # faults

LEMMA PlanIs ==
    ASSUME TypeInv
    PROVE  PlanOK(graph, plan)
  BY PartitionNodes, PartitionBorders DEF TypeInv, PlanOK

\* Between runs there is nothing to keep.
LEMMA RunOver ==
    ASSUME stage' \in {"idle", "loading"}, faults' \in Nat
    PROVE  RunInv'
  BY DEF RunInv, BindInv, OpsInv, ReadInv, OutputsInv, AccountInv

\* A device call that fails may end the run.
LEMMA FaultRight ==
    ASSUME RunInv, DeviceFails, stage' \in {"idle", "loading"}, outcome' = "error"
    PROVE  RunInv' /\ EndsRight
<1>1. faults \in Nat /\ faults' \in Nat /\ faults' # faults
  BY DEF DeviceFails, RunInv
<1> QED BY <1>1, RunOver DEF EndsRight

\* The steps between runs.
LEMMA BetweenRuns ==
    ASSUME IInv, RunInv, LoadWeight \/ LoadWeightFails \/ DeallocWeight \/ DeallocWeightFails
    PROVE  RunInv' /\ EndsRight
<1>1. CASE LoadWeightFails \/ DeallocWeightFails
  <2>1. DeviceFails /\ stage' \in {"idle", "loading"} /\ outcome' = "error"
    BY <1>1 DEF LoadWeightFails, DeallocWeightFails
  <2> QED BY <2>1, FaultRight
<1>2. CASE LoadWeight \/ DeallocWeight
  <2>1. stage' \in {"idle", "loading"} /\ faults' = faults
    BY <1>2 DEF LoadWeight, DeallocWeight
  <2>2. outcome' = outcome
    BY <1>2 DEF LoadWeight, DeallocWeight, IInv, WeightsHeld
  <2> QED BY <2>1, <2>2, RunOver DEF EndsRight, RunInv
<1> QED BY <1>1, <1>2

\* A run that goes on ends nothing.
LEMMA GoesOnRight ==
    ASSUME outcome' = outcome, outcome = "running" \/ faults' = faults
    PROVE  EndsRight
  BY DEF EndsRight

\* The failures within a run.
LEMMA FailuresRight ==
    ASSUME RunInv, \/ BindInputFails \/ TransferFails \/ NodeFails \/ ReadFails \/ DeallocFails
    PROVE  RunInv' /\ EndsRight
<1>1. DeviceFails /\ stage' = "idle" /\ outcome' = "error"
  BY DEF BindInputFails, TransferFails, NodeFails, ReadFails, DeallocFails, EndWithError
<1> QED BY <1>1, FaultRight

LEMMA BeginRunRight ==
    ASSUME IInv, RunInv, BeginRun
    PROVE  RunInv' /\ EndsRight
<1>1. /\ UNCHANGED <<graph, plan, weights, heap, faults>> /\ outputs' = <<>>
      /\ stage' = "bind" /\ at' = 1 /\ state' = FreshState
      /\ outcome' = "running" /\ before' = DOMAIN heap
  BY DEF BeginRun, deviceVars
<1>2. /\ DOMAIN state'.bound = {} /\ DOMAIN state'.paged = {} /\ DOMAIN state'.refs = {}
  BY <1>1, FreshBooks
<1>3. graph \in Graphs /\ Ops(graph) = 1..Size(graph) /\ Caches' \subseteq Ops(graph)
  BY <1>1, GraphFacts DEF IInv, TypeInv, Caches
<1>4. \A v \in Ops(graph) : ~(v < 1)
  BY <1>3, GraphFacts
<1>5. BindInv'
  BY <1>1, <1>2, <1>3, <1>4 DEF BindInv, OnDevices
<1>6. AccountInv'
  BY <1>1, <1>2 DEF AccountInv, Owned
<1> QED BY <1>1, <1>5, <1>6 DEF RunInv, OpsInv, ReadInv, OutputsInv, EndsRight

\* The accounts when a value is bound to a buffer allocated for it, and when
\* the buffers stay as they are.
LEMMA AccountFresh ==
    ASSUME IInv, AccountInv, stage \notin {"idle", "loading"},
           UNCHANGED <<graph, weights, before, outcome>>,
           NEW d \in Devices, NEW content, Allocate(d, content),
           NEW v \in Ops(graph), v \notin DOMAIN state.bound,
           state' = AddBuffer(state, v, Fresh(d), TRUE)
    PROVE  AccountInv'
<1>1. /\ DOMAIN state'.refs = DOMAIN state.refs \cup {Fresh(d)}
      /\ Fresh(d) \notin WeightBuffers
  BY AddFresh
<1>2. DOMAIN heap' = DOMAIN heap \cup {Fresh(d)} /\ Fresh(d) \notin DOMAIN heap
  BY HeapGrows DEF IInv
<1>3. Owned' = Owned \cup {Fresh(d)}
  BY <1>1 DEF Owned, WeightBuffers
<1>4. /\ outcome = "running" /\ DOMAIN heap = before \cup Owned /\ before \cap Owned = {}
  BY DEF AccountInv
<1> QED BY <1>2, <1>3, <1>4 DEF AccountInv

LEMMA AccountSame ==
    ASSUME AccountInv, stage \notin {"idle", "loading"}, UNCHANGED <<before, outcome>>,
           Owned' = Owned, DOMAIN heap' = DOMAIN heap
    PROVE  AccountInv'
  BY DEF AccountInv

\* What an operation of the run finds visible before the first one, when all
\* inputs are bound.
LEMMA VisibleFirst ==
    ASSUME NEW g, NEW p, PlanOK(g, p)
    PROVE  Visible(g, p, 1) = {v \in Ops(g) : g.kind[v] \in {"argument", "weight"}}
<1>1. Size(g) \in Nat /\ Ops(g) = 1..Size(g)
  BY GraphFacts DEF PlanOK
<1>2. \A v \in Ops(g) : ~(v < 1)
  BY <1>1
<1>3. \A n \in DOMAIN p : ~(Head(p[n].ops) < 1)
  BY <1>2 DEF PlanOK, PlanNodes
<1> QED BY <1>2, <1>3 DEF Visible

\* The inputs are bound up to the one the engine is at.
Bound(g, bound, paged, contents, k) ==
    /\ DOMAIN bound = {v \in Ops(g) : v < k /\ g.kind[v] \in {"argument", "weight"}}
    /\ DOMAIN paged = {c \in Ops(g) : g.kind[c] = "cache" /\ c < k}
    /\ \A v \in DOMAIN bound : Shows(g, bound, contents, v)
    /\ OnDevices(g, bound)

LEMMA BoundMoreOn ==
    ASSUME NEW g \in Graphs, NEW bound, NEW paged, NEW contents, NEW k \in Ops(g),
           Bound(g, bound, paged, contents, k),
           NEW b, NEW contents2, DOMAIN contents \subseteq DOMAIN contents2,
           \A c \in DOMAIN contents : contents2[c] = contents[c],
           b \in DOMAIN contents2, contents2[b] = ShownIn(g, k), b[1] = g.device[k],
           g.kind[k] \in {"argument", "weight"}
    PROVE  Bound(g, Put(bound, k, b), paged, contents2, k + 1)
<1>1. k \in Nat /\ \A v \in Ops(g) : v < k + 1 <=> v < k \/ v = k
  BY GraphFacts
<1>2. k \notin DOMAIN bound /\ g.kind[k] # "cache"
  BY <1>1 DEF Bound
<1>3. /\ DOMAIN Put(bound, k, b) = DOMAIN bound \cup {k} /\ Put(bound, k, b)[k] = b
      /\ \A v \in DOMAIN bound : Put(bound, k, b)[v] = bound[v]
  BY <1>2 DEF Put
<1>4. \A v \in DOMAIN Put(bound, k, b) : Shows(g, Put(bound, k, b), contents2, v)
  BY <1>3 DEF Bound, Shows
<1>5. OnDevices(g, Put(bound, k, b))
  BY <1>3 DEF Bound, OnDevices
<1>6. DOMAIN paged = {c \in Ops(g) : g.kind[c] = "cache" /\ c < k + 1}
  BY <1>1, <1>2 DEF Bound
<1>7. DOMAIN Put(bound, k, b) =
         {v \in Ops(g) : v < k + 1 /\ g.kind[v] \in {"argument", "weight"}}
  BY <1>1, <1>3 DEF Bound
<1> QED BY <1>4, <1>5, <1>6, <1>7 DEF Bound

LEMMA BoundNext ==
    ASSUME IInv, stage = "bind", Advance("ops"), UNCHANGED <<graph, plan>>, outputs' = <<>>,
           Bound(graph, state'.bound, state'.paged, heap', at + 1), AccountInv', faults' \in Nat
    PROVE  RunInv'
<1>1. /\ PlanOK(graph, plan) /\ graph \in Graphs /\ at \in Ops(graph)
      /\ Ops(graph) = 1..Size(graph) /\ Size(graph) \in Nat
  BY PlanIs, GraphFacts DEF IInv, TypeInv
<1>2. \/ stage' = "bind" /\ at' = at + 1
      \/ stage' = "ops" /\ at' = 1 /\ at = Size(graph)
  BY <1>1, AdvanceIs
<1>3. CASE stage' = "bind" /\ at' = at + 1
  <2>1. BindInv'
    BY <1>3 DEF BindInv, Bound, Caches
  <2> QED BY <1>3, <2>1 DEF RunInv, OpsInv, ReadInv, OutputsInv
<1>4. CASE stage' = "ops" /\ at' = 1 /\ at = Size(graph)
  <2>1. \A v \in Ops(graph) : v < at + 1
    BY <1>1, <1>4
  <2>2. DOMAIN state'.bound = Visible(graph, plan, 1)
    BY <1>1, <2>1, VisibleFirst DEF Bound
  <2>3. DOMAIN state'.paged = Caches'
    BY <2>1 DEF Bound, Caches
  <2>4. Views(graph, state'.bound)
    BY DEF Views, Bound, Shows
  <2>5. OpsInv'
    BY <1>4, <2>2, <2>3, <2>4 DEF OpsInv, Bound
  <2> QED BY <1>4, <2>5 DEF RunInv, BindInv, ReadInv, OutputsInv
<1> QED BY <1>2, <1>3, <1>4

LEMMA BindInputRight ==
    ASSUME IInv, RunInv, BindInput
    PROVE  RunInv' /\ EndsRight
<1>1. /\ stage = "bind" /\ Advance("ops")
      /\ UNCHANGED running /\ UNCHANGED <<outputs, outcome, rows, faults>>
      /\ UNCHANGED <<graph, plan, weights, before>>
  BY DEF BindInput, running
<1>2. /\ graph \in Graphs /\ at \in Ops(graph) /\ at \in Nat /\ 0 \in Devices
      /\ \A v \in Ops(graph) : v < at + 1 <=> v < at \/ v = at
      /\ graph.kind[at] \in InputKinds => graph.device[at] = 0
  BY <1>1, GraphFacts, EngineAssumption DEF IInv, TypeInv
<1>3. /\ outputs' = <<>> /\ faults' \in Nat /\ AccountInv
      /\ Bound(graph, state.bound, state.paged, heap, at)
  BY <1>1 DEF RunInv, BindInv, Bound, Caches
<1>4. EndsRight
  BY <1>1, GoesOnRight
<1>5. at \notin DOMAIN state.bound
  BY <1>2, <1>3 DEF Bound
<1>6. CASE LoadsInput
  <2> DEFINE b == Fresh(0)
  <2>1. Allocate(0, Shown(at)) /\ state' = AddBuffer(state, at, b, TRUE)
    BY <1>6 DEF BindInput, LoadsInput
  <2>2. state'.bound = Put(state.bound, at, b) /\ state'.paged = state.paged
    BY <1>1, <1>2, <1>5, <2>1, AddFresh
  <2>3. /\ DOMAIN heap' = DOMAIN heap \cup {b} /\ heap'[b] = ShownIn(graph, at) /\ b[1] = 0
        /\ \A c \in DOMAIN heap : heap'[c] = heap[c]
    BY <1>2, <2>1, HeapGrows, ShownInGraph DEF IInv
  <2>4. graph.kind[at] \in {"argument", "weight"} /\ graph.device[at] = 0
    BY <1>2, <1>6 DEF LoadsInput, InputKinds
  <2>5. AccountInv'
    BY <1>1, <1>2, <1>3, <1>5, <2>1, AccountFresh
  <2> HIDE DEF b
  <2>6. Bound(graph, state'.bound, state'.paged, heap', at + 1)
    BY <1>2, <1>3, <2>2, <2>3, <2>4, BoundMoreOn
  <2> QED BY <1>1, <1>3, <1>4, <2>5, <2>6, BoundNext
<1>7. CASE graph.kind[at] = "weight" /\ ~hostWeights
  <2> DEFINE b == <<0, weights[graph.name[at]]>>
             no == FALSE
  <2>1. state' = AddBuffer(state, at, b, no) /\ UNCHANGED <<heap, nextBuffer>>
    BY <1>7 DEF BindInput, LoadsInput, WeightOwned
  <2>2. /\ b \in WeightBuffers /\ b \in DOMAIN heap
        /\ heap[b] = graph.name[at] /\ b[1] = 0
    <3>1. graph.name[at] \in DOMAIN weights /\ graph.name[at] \in Resident
      BY <1>1, <1>2, <1>7 DEF IInv, WeightsThere
    <3> QED BY <3>1 DEF WeightBuffers, IInv, WeightsHeld
  <2>3. graph.device[at] = 0 /\ ShownIn(graph, at) = graph.name[at]
    BY <1>2, <1>7, ShownIs DEF InputKinds, IsAlias
  <2>4. /\ no \in BOOLEAN /\ (no => b \notin WeightBuffers)
        /\ b \notin DOMAIN state.refs => (no <=> b \notin WeightBuffers)
    BY <2>2
  <2>5. IsFiniteSet(Ops(graph)) /\ Books(state, Ops(graph), DOMAIN heap, WeightBuffers)
    BY <1>2, GraphFacts, FS_Interval DEF IInv, StateBooks
  <2> HIDE DEF b, no
  <2>6. /\ state'.bound = Put(state.bound, at, b) /\ state'.paged = state.paged
        /\ DOMAIN state'.refs = DOMAIN state.refs \cup {b}
    BY <1>2, <1>5, <2>1, <2>2, <2>4, <2>5, BooksAdd
  <2>7. Bound(graph, state'.bound, state'.paged, heap', at + 1)
    BY <1>2, <1>3, <1>7, <2>1, <2>2, <2>3, <2>6, BoundMoreOn
  <2>8. AccountInv'
    <3>1. Owned' = Owned
      BY <1>1, <2>2, <2>6 DEF Owned, WeightBuffers
    <3> QED BY <1>1, <1>3, <2>1, <3>1, AccountSame
  <2> QED BY <1>1, <1>3, <1>4, <2>7, <2>8, BoundNext
<1>8. CASE graph.kind[at] = "cache"
  <2>1. state' = [state EXCEPT !.paged = Put(@, at, rows[at])] /\ UNCHANGED <<heap, nextBuffer>>
    BY <1>8 DEF BindInput, LoadsInput
  <2>2. /\ state'.bound = state.bound /\ state'.refs = state.refs
        /\ state'.paged = Put(state.paged, at, rows[at])
    BY <2>1 DEF IInv, StateBooks, Books
  <2>3. DOMAIN state'.paged = DOMAIN state.paged \cup {at}
    BY <2>2 DEF Put
  <2>4. Bound(graph, state'.bound, state'.paged, heap', at + 1)
    BY <1>2, <1>3, <1>8, <2>1, <2>2, <2>3 DEF Bound
  <2>5. AccountInv'
    <3>1. Owned' = Owned
      BY <1>1, <2>2 DEF Owned, WeightBuffers
    <3> QED BY <1>1, <1>3, <2>1, <3>1, AccountSame
  <2> QED BY <1>1, <1>3, <1>4, <2>4, <2>5, BoundNext
<1>9. CASE ~LoadsInput /\ ~(graph.kind[at] = "weight" /\ ~hostWeights)
            /\ graph.kind[at] # "cache"
  <2>1. UNCHANGED <<state, heap, nextBuffer>>
    BY <1>9 DEF BindInput
  <2>2. graph.kind[at] \notin {"argument", "weight", "cache"}
    BY <1>9 DEF LoadsInput, IInv, TypeInv
  <2>3. Bound(graph, state'.bound, state'.paged, heap', at + 1)
    BY <1>2, <1>3, <2>1, <2>2 DEF Bound
  <2>4. AccountInv'
    <3>1. Owned' = Owned
      BY <1>1, <2>1 DEF Owned, WeightBuffers
    <3> QED BY <1>1, <1>3, <2>1, <3>1, AccountSame
  <2> QED BY <1>1, <1>3, <1>4, <2>3, <2>4, BoundNext
<1> QED BY <1>6, <1>7, <1>8, <1>9

\* The operations before k have run, each transfer and each node right.
Ran(g, p, bound, paged, contents, k) ==
    /\ DOMAIN bound \subseteq Visible(g, p, k)
    /\ DOMAIN paged = {v \in Ops(g) : g.kind[v] = "cache"}
    /\ \A v \in Visible(g, p, k) : Shows(g, bound, contents, v)
    /\ OnDevices(g, bound)

LEMMA RanNext ==
    ASSUME IInv, stage = "ops", Advance("read"), UNCHANGED <<graph, plan>>, outputs' = <<>>,
           Ran(graph, plan, state'.bound, state'.paged, heap', at + 1), AccountInv',
           faults' \in Nat
    PROVE  RunInv'
<1>1. /\ PlanOK(graph, plan) /\ graph \in Graphs /\ at \in Ops(graph)
  BY PlanIs DEF IInv, TypeInv
<1>2. \/ stage' = "ops" /\ at' = at + 1
      \/ stage' = "read" /\ at' = 1 /\ at = Size(graph)
  BY <1>1, AdvanceIs
<1>3. CASE stage' = "ops" /\ at' = at + 1
  <2>1. Views(graph, state'.bound)
    BY DEF Views, Ran, Shows
  <2>2. OpsInv'
    BY <1>3, <2>1 DEF OpsInv, Ran, Caches
  <2> QED BY <1>3, <2>2 DEF RunInv, BindInv, ReadInv, OutputsInv
<1>4. CASE stage' = "read" /\ at' = 1 /\ at = Size(graph)
  <2> DEFINE order == ReadOrderIn(graph)
  <2>1. Len(order) \in Nat
    BY <1>1, ReadOrderIs, LenProperties
  <2>2. <<>> = [i \in 1..(1 - 1) |-> ShownIn(graph, order[i])]
    OBVIOUS
  <2>3. 1 \in 1..(Len(order) + 1)
    <3> HIDE DEF order
    <3> QED BY <2>1
  <2>4. ReadInv'
    <3> HIDE DEF order
    <3>1. /\ at' \in 1..(Len(order) + 1)
          /\ outputs' = [i \in 1..(at' - 1) |-> ShownIn(graph, order[i])]
      BY <1>4, <2>2, <2>3
    <3>2. \A v \in Visible(graph, plan, Len(graph.kind) + 1) :
             Shows(graph, state'.bound, heap', v)
      BY <1>4 DEF Ran, Size
    <3> QED BY <3>1, <3>2 DEF ReadInv, order
  <2> QED BY <1>4, <2>4 DEF RunInv, BindInv, OpsInv, OutputsInv
<1> QED BY <1>2, <1>3, <1>4

LEMMA StartsIs ==
    ASSUME TypeInv
    PROVE  /\ \A n \in DOMAIN plan : Head(plan[n].ops) = at => StartsNode /\ n = AtNode
           /\ StartsNode => AtNode \in DOMAIN plan /\ Head(plan[AtNode].ops) = at
<1>1. PlanNodes(graph, plan)
  BY PartitionNodes DEF TypeInv
<1> QED BY <1>1 DEF PlanNodes, StartsNode, AtNode

\* What holds at an operation of the run.
LEMMA AtOperation ==
    ASSUME IInv, RunInv, stage = "ops"
    PROVE  /\ PlanOK(graph, plan) /\ graph \in Graphs /\ at \in Ops(graph)
           /\ outputs = <<>> /\ outcome = "running" /\ faults \in Nat /\ AccountInv
           /\ DOMAIN state.bound \subseteq Visible(graph, plan, at) \cup Pending(graph, plan, at)
           /\ DOMAIN state.paged = {v \in Ops(graph) : graph.kind[v] = "cache"}
           /\ \A v \in Visible(graph, plan, at) : Shows(graph, state.bound, heap, v)
           /\ OnDevices(graph, state.bound) /\ Views(graph, state.bound)
  BY PlanIs DEF IInv, TypeInv, RunInv, OpsInv, AccountInv, Caches

LEMMA PassOverRight ==
    ASSUME IInv, RunInv, PassOver
    PROVE  RunInv' /\ EndsRight
<1>1. /\ stage = "ops" /\ graph.kind[at] # "transfer" /\ ~StartsNode /\ Advance("read")
      /\ UNCHANGED <<graph, plan, weights, before, state, heap, outputs, outcome, faults>>
  BY DEF PassOver, running, deviceVars
<1>2. \A n \in DOMAIN plan : Head(plan[n].ops) # at
  BY <1>1, StartsIs DEF IInv
<1>3. /\ Visible(graph, plan, at + 1) = Visible(graph, plan, at)
      /\ Pending(graph, plan, at) = {}
  BY <1>1, <1>2, AtOperation, VisibleNext
<1>4. Ran(graph, plan, state'.bound, state'.paged, heap', at + 1)
  BY <1>1, <1>3, AtOperation DEF Ran
<1>5. AccountInv'
  <2>1. Owned' = Owned
    BY <1>1 DEF Owned, WeightBuffers
  <2> QED BY <1>1, <2>1, AtOperation, AccountSame
<1>6. outputs' = <<>> /\ faults' \in Nat
  BY <1>1, AtOperation
<1> QED BY <1>1, <1>4, <1>5, <1>6, RanNext, GoesOnRight

\* A transfer finds what it reads.
LEMMA TransferRight ==
    ASSUME IInv, RunInv, Transfer
    PROVE  RunInv' /\ EndsRight
<1> DEFINE source == AliasSource(graph, at)
           d == graph.device[at]
           b == Fresh(d)
<1>1. /\ stage = "ops" /\ graph.kind[at] = "transfer"
      /\ UNCHANGED <<graph, plan, weights, before, faults>>
  BY DEF Transfer, running
<1>2. /\ PlanOK(graph, plan) /\ graph \in Graphs /\ at \in Ops(graph) /\ d \in Devices
      /\ source \in Reads(graph, at)
  BY <1>1, AtOperation, GraphFacts
<1>3. Shows(graph, state.bound, heap, source)
  BY <1>1, <1>2, EngineReads, AtOperation
<1>4. /\ source \in DOMAIN state.bound /\ state.bound[source][1] = graph.device[source]
      /\ Holds(source)
  BY <1>1, <1>3, AtOperation, ShownInGraph DEF Shows, OnDevices, Holds
<1>5. /\ Allocate(d, at) /\ state' = AddBuffer(state, at, b, TRUE)
      /\ Advance("read") /\ UNCHANGED <<outputs, outcome>>
  BY <1>4 DEF Transfer
<1>6. at \notin DOMAIN state.bound
  <2>1. graph.kind[at] = "transfer" => ~(at < at)
    BY <1>2, GraphFacts
  <2> QED BY <1>1, <2>1 DEF IInv, StateInv
<1>7. state'.bound = Put(state.bound, at, b) /\ state'.paged = state.paged
  <2> HIDE DEF d
  <2> QED BY <1>1, <1>2, <1>5, <1>6, AddFresh
<1>8. /\ DOMAIN heap' = DOMAIN heap \cup {b} /\ heap'[b] = at /\ b[1] = d
      /\ \A c \in DOMAIN heap : heap'[c] = heap[c]
  BY <1>2, <1>5, HeapGrows DEF IInv
<1>9. AccountInv'
  <2> HIDE DEF d
  <2> QED BY <1>1, <1>2, <1>5, <1>6, AtOperation, AccountFresh
<1>10. ShownIn(graph, at) = at
  BY <1>1, <1>2, ShownIs DEF IsAlias
<1>11. /\ Visible(graph, plan, at + 1) = Visible(graph, plan, at) \cup {at}
       /\ Pending(graph, plan, at) = {}
  BY <1>1, <1>2, VisibleNext
<1> HIDE DEF b
<1>12. /\ DOMAIN state'.bound = DOMAIN state.bound \cup {at} /\ state'.bound[at] = b
       /\ \A v \in DOMAIN state.bound : state'.bound[v] = state.bound[v]
  BY <1>6, <1>7 DEF Put
<1>13. Ran(graph, plan, state'.bound, state'.paged, heap', at + 1)
  <2>1. \A v \in Visible(graph, plan, at) : Shows(graph, state'.bound, heap', v)
    BY <1>1, <1>8, <1>12, AtOperation DEF Shows
  <2>2. Shows(graph, state'.bound, heap', at)
    BY <1>8, <1>10, <1>12 DEF Shows
  <2>3. OnDevices(graph, state'.bound)
    BY <1>1, <1>8, <1>12, AtOperation DEF OnDevices
  <2> QED BY <1>1, <1>7, <1>11, <1>12, <2>1, <2>2, <2>3, AtOperation DEF Ran
<1>14. outputs' = <<>> /\ faults' \in Nat
  BY <1>1, <1>5, AtOperation
<1> QED BY <1>1, <1>5, <1>9, <1>13, <1>14, RanNext, GoesOnRight

\* An export that has no storage yet gets it.
LEMMA AllocExportRight ==
    ASSUME IInv, RunInv, AllocExport
    PROVE  RunInv' /\ EndsRight
<1> DEFINE d == plan[AtNode].device
           b == Fresh(d)
<1>1. /\ stage = "ops" /\ StartsNode
      /\ UNCHANGED <<graph, plan, weights, before, stage, at, outputs, outcome, faults>>
  BY DEF AllocExport, running
<1>2. PICK v \in Unallocated :
         Allocate(d, Garbage) /\ state' = AddBuffer(state, v, b, TRUE)
  BY DEF AllocExport
<1>3. /\ PlanOK(graph, plan) /\ graph \in Graphs /\ AtNode \in DOMAIN plan
      /\ Head(plan[AtNode].ops) = at
  BY <1>1, AtOperation, StartsIs DEF IInv
<1>4. /\ v \in plan[AtNode].exports /\ v \in Ops(graph) /\ v \notin DOMAIN state.bound
      /\ graph.kind[v] = "kernel" /\ d \in Devices
  BY <1>1, NodeStarts DEF IInv, Unallocated, IsAlias
<1>5. graph.device[v] = d
  BY <1>3, <1>4 DEF PlanOK, PlanNodes, PlanBorders
<1>6. v \in Pending(graph, plan, at)
  BY <1>3, <1>4 DEF Pending
<1>7. state'.bound = Put(state.bound, v, b) /\ state'.paged = state.paged
  <2> HIDE DEF d
  <2> QED BY <1>1, <1>2, <1>4, AddFresh
<1>8. /\ DOMAIN heap' = DOMAIN heap \cup {b} /\ b[1] = d /\ b \notin DOMAIN heap
      /\ \A c \in DOMAIN heap : heap'[c] = heap[c]
  <2> HIDE DEF d
  <2> QED BY <1>2, <1>4, HeapGrows DEF IInv
<1>9. AccountInv'
  <2> HIDE DEF d
  <2> QED BY <1>1, <1>2, <1>4, AtOperation, AccountFresh
<1> HIDE DEF b
<1>10. /\ DOMAIN state'.bound = DOMAIN state.bound \cup {v} /\ state'.bound[v] = b
       /\ \A u \in DOMAIN state.bound : state'.bound[u] = state.bound[u]
  BY <1>4, <1>7 DEF Put
<1>11. \A u \in DOMAIN state.bound : state.bound[u] \in DOMAIN heap
  BY DEF IInv, StateBooks, Books
<1>12. Views(graph, state'.bound)
  BY <1>1, <1>8, <1>10, <1>11, AtOperation DEF Views
<1>13. OnDevices(graph, state'.bound)
  BY <1>1, <1>5, <1>8, <1>10, AtOperation DEF OnDevices
<1>14. \A u \in Visible(graph, plan, at) : Shows(graph, state'.bound, heap', u)
  BY <1>1, <1>8, <1>10, AtOperation DEF Shows
<1>15. OpsInv'
  <2>1. DOMAIN state'.bound \subseteq Visible(graph, plan, at) \cup Pending(graph, plan, at)
    BY <1>1, <1>6, <1>10, AtOperation
  <2>2. DOMAIN state'.paged = Caches' /\ outputs' = <<>>
    BY <1>1, <1>7, AtOperation DEF Caches
  <2> QED BY <1>1, <1>12, <1>13, <1>14, <2>1, <2>2 DEF OpsInv
<1>16. stage' = "ops" /\ faults' \in Nat
  BY <1>1, AtOperation
<1> QED BY <1>1, <1>9, <1>15, <1>16, GoesOnRight DEF RunInv, BindInv, ReadInv, OutputsInv

\* A node finds its imports bound, and computes what it should from them.
LEMMA NodeRight ==
    ASSUME IInv, RunInv, stage = "ops", StartsNode
    PROVE  /\ ImportsBound
           /\ \A v \in plan[AtNode].exports : Computed(v)
<1>1. /\ PlanOK(graph, plan) /\ graph \in Graphs /\ AtNode \in DOMAIN plan
      /\ Head(plan[AtNode].ops) = at
  BY AtOperation, StartsIs DEF IInv
<1>2. ASSUME NEW i \in ToSet(plan[AtNode].ops), NEW v \in Reads(graph, i),
             NodeOf(plan, v) # AtNode
      PROVE  /\ v \in DOMAIN state.bound \cup DOMAIN state.paged
             /\ IF graph.kind[v] = "cache"
                THEN v \in DOMAIN state.paged /\ state.paged[v] = rows[v]
                ELSE Holds(v)
  <2>1. i \in Ops(graph) /\ v \in Ops(graph)
    BY <1>1, GraphFacts DEF PlanOK, PlanNodes
  <2>2. CASE graph.kind[v] = "cache"
    BY <2>1, <2>2, AtOperation DEF IInv, LengthInv
  <2>3. CASE graph.kind[v] # "cache"
    <3>1. v \in Visible(graph, plan, at)
      BY <1>1, <1>2, <2>3, NodeReads
    <3>2. Shows(graph, state.bound, heap, v)
      BY <3>1, AtOperation
    <3> QED BY <2>3, <3>2, ShownInGraph DEF Shows, Holds
  <2> QED BY <2>2, <2>3
<1>3. ImportsBound
  <2> SUFFICES ASSUME NEW v \in plan[AtNode].imports
               PROVE  v \in DOMAIN state.bound \cup DOMAIN state.paged
    BY DEF ImportsBound
  <2>1. CASE v \in plan[AtNode].mutableImports
    <3>1. PICK i \in ToSet(plan[AtNode].ops) :
             graph.kind[i] = "append" /\ v = AliasSource(graph, i)
      BY <1>1, <2>1 DEF PlanOK, PlanBorders
    <3>2. i \in Ops(graph)
      BY <1>1 DEF PlanOK, PlanNodes
    <3>3. v \in Ops(graph) /\ graph.kind[v] = "cache"
      BY <1>1, <3>1, <3>2, GraphFacts
    <3> QED BY <3>3, AtOperation
  <2>2. CASE v \notin plan[AtNode].mutableImports
    <3>1. NodeOf(plan, v) # AtNode /\ \E i \in ToSet(plan[AtNode].ops) : v \in Reads(graph, i)
      BY <1>1, <2>2 DEF PlanOK, PlanBorders
    <3> QED BY <1>2, <3>1
  <2> QED BY <2>1, <2>2
<1>4. \A u \in Ops(graph) : NodeOf(plan, u) = AtNode => u \in ToSet(plan[AtNode].ops)
  BY <1>1 DEF PlanOK, PlanNodes
<1>5. \A v \in Ops(graph) : NodeOf(plan, v) = AtNode => Computed(v)
  BY <1>1, <1>2, <1>4, NodeComputes
<1>6. \A v \in plan[AtNode].exports : v \in Ops(graph) /\ NodeOf(plan, v) = AtNode
  BY <1>1 DEF PlanOK, PlanNodes, PlanBorders
<1> QED BY <1>3, <1>5, <1>6

LEMMA ExecuteRight ==
    ASSUME IInv, RunInv, Execute
    PROVE  RunInv' /\ EndsRight
<1> DEFINE n == plan[AtNode]
           written == {v \in n.exports : graph.kind[v] = "kernel"}
           grown == Grown(Len(n.ops))
           r == BindExports(n.exports)
           place == [v \in n.exports |-> PlaceInNode(v)]
<1>1. /\ stage = "ops" /\ StartsNode /\ Unallocated = {}
      /\ UNCHANGED <<graph, plan, weights, before, faults>>
  BY DEF Execute, running
<1>2. /\ ImportsBound /\ \A v \in n.exports : Computed(v)
  BY <1>1, NodeRight
<1>3. /\ PlanOK(graph, plan) /\ graph \in Graphs /\ AtNode \in DOMAIN plan
      /\ at \in Ops(graph) /\ Head(n.ops) = at
  BY <1>1, AtOperation, StartsIs DEF IInv
<1>4. /\ DOMAIN heap' = DOMAIN heap
      /\ \A b \in DOMAIN heap :
            heap'[b] = IF \E v \in written : state.bound[v] = b
                       THEN LET v == CHOOSE v \in written : state.bound[v] = b
                            IN  IF Computed(v) THEN v ELSE Garbage
                       ELSE heap[b]
      /\ state' = [r EXCEPT !.paged = MergedLengths(grown)]
      /\ Advance("read") /\ UNCHANGED <<outputs, outcome>>
  BY <1>2 DEF Execute
<1>5. ASSUME NEW b \in DOMAIN heap
      PROVE  \/ \E v \in written : state.bound[v] = b /\ heap'[b] = v
             \/ (\A v \in written : state.bound[v] # b) /\ heap'[b] = heap[b]
  <2>1. CASE \A v \in written : state.bound[v] # b
    BY <1>4, <2>1
  <2>2. CASE \E v \in written : state.bound[v] = b
    <3> DEFINE v == CHOOSE v \in written : state.bound[v] = b
    <3>1. v \in written /\ state.bound[v] = b
      BY <2>2
    <3>2. heap'[b] = IF Computed(v) THEN v ELSE Garbage
      BY <1>4, <2>2
    <3> HIDE DEF v
    <3>3. Computed(v)
      BY <1>2, <3>1
    <3> QED BY <3>1, <3>2, <3>3
  <2> QED BY <2>1, <2>2
<1>6. /\ Merged(r, state, place, Size(graph), Ops(graph), DOMAIN heap, WeightBuffers)
      /\ \A v \in n.exports :
            /\ v \in Ops(graph) /\ graph.kind[v] \in {"kernel", "alias"}
            /\ graph.kind[v] = "kernel" => v \in DOMAIN state.bound
            /\ \E u \in DOMAIN state.bound :
                  PlaceInNode(v) = state.bound[u] /\ SameView(graph, u, v)
  BY <1>1, <1>2, ExportsBound
<1> HIDE DEF r, grown, n
<1>7. /\ DOMAIN r.bound = DOMAIN state.bound \cup n.exports
      /\ \A v \in DOMAIN state.bound : r.bound[v] = state.bound[v]
      /\ \A v \in n.exports : r.bound[v] = PlaceInNode(v)
      /\ DOMAIN r.refs = DOMAIN state.refs
      /\ DOMAIN r = {"bound", "refs", "retired", "paged"}
  <2>1. \A v \in n.exports : v <= Size(graph)
    BY <1>3, <1>6, GraphFacts
  <2> QED BY <1>6, <2>1 DEF Merged, Books
<1>8. /\ state'.bound = r.bound /\ state'.refs = r.refs
      /\ DOMAIN state'.paged = DOMAIN state.paged
  BY <1>4, <1>7 DEF MergedLengths
<1>9. \A u \in DOMAIN state.bound : state.bound[u] \in DOMAIN heap /\ u \in Ops(graph)
  BY DEF IInv, StateBooks, Books
<1>10. /\ Visible(graph, plan, at + 1) = Visible(graph, plan, at) \cup n.exports
       /\ Pending(graph, plan, at) = written
  BY <1>3, VisibleNext DEF n
<1>11. ASSUME NEW u \in DOMAIN state.bound PROVE heap'[state.bound[u]] = ShownIn(graph, u)
  <2>1. CASE \E v \in written : state.bound[v] = state.bound[u] /\ heap'[state.bound[u]] = v
    <3>1. PICK v \in written : state.bound[v] = state.bound[u] /\ heap'[state.bound[u]] = v
      BY <2>1
    <3>2. v \in DOMAIN state.bound /\ ShownIn(graph, v) = v
      BY <1>3, <1>6, <3>1, ShownIs DEF IsAlias
    <3>3. ShownIn(graph, u) = ShownIn(graph, v)
      BY <1>1, <3>1, <3>2, AtOperation DEF Views
    <3> QED BY <3>1, <3>2, <3>3
  <2>2. CASE (\A v \in written : state.bound[v] # state.bound[u])
              /\ heap'[state.bound[u]] = heap[state.bound[u]]
    <3>1. u \in Visible(graph, plan, at)
      BY <1>1, <1>10, <2>2, AtOperation
    <3> QED BY <1>1, <2>2, <3>1, AtOperation DEF Shows
  <2> QED BY <1>5, <1>9, <2>1, <2>2
<1>12. ASSUME NEW v \in DOMAIN state'.bound
       PROVE  Shows(graph, state'.bound, heap', v) /\ state'.bound[v][1] = graph.device[v]
  <2>1. PICK u \in DOMAIN state.bound :
           state'.bound[v] = state.bound[u] /\ SameView(graph, u, v)
    BY <1>6, <1>7, <1>8 DEF SameView
  <2>2. state.bound[u][1] = graph.device[u]
    BY <1>1, AtOperation DEF OnDevices
  <2> QED BY <1>4, <1>9, <1>11, <2>1, <2>2 DEF Shows, SameView
<1>13. Ran(graph, plan, state'.bound, state'.paged, heap', at + 1)
  <2>1. DOMAIN state'.bound = DOMAIN state.bound \cup n.exports
    BY <1>7, <1>8
  <2>2. DOMAIN state'.bound \subseteq Visible(graph, plan, at + 1)
    BY <1>1, <1>10, <2>1, AtOperation
  <2>3. Visible(graph, plan, at + 1) \subseteq DOMAIN state'.bound
    BY <1>1, <1>10, <2>1, AtOperation DEF Shows
  <2>4. DOMAIN state'.paged = {v \in Ops(graph) : graph.kind[v] = "cache"}
    BY <1>1, <1>8, AtOperation
  <2> QED BY <1>12, <2>2, <2>3, <2>4 DEF Ran, OnDevices
<1>14. AccountInv'
  <2>1. Owned' = Owned
    BY <1>1, <1>7, <1>8 DEF Owned, WeightBuffers
  <2> QED BY <1>1, <1>4, <2>1, AtOperation, AccountSame
<1>15. outputs' = <<>> /\ faults' \in Nat
  BY <1>1, <1>4, AtOperation
<1> QED BY <1>1, <1>4, <1>13, <1>14, <1>15, RanNext, GoesOnRight

\* Every tensor that is read is there, and shows what it should.
LEMMA ReadsRight ==
    ASSUME IInv, RunInv, ReadOutput \/ DoneReading
    PROVE  RunInv' /\ EndsRight
<1> DEFINE order == ReadOrderIn(graph)
           shown == [i \in 1..Len(order) |-> ShownIn(graph, order[i])]
<1>1. /\ stage = "read" /\ PlanOK(graph, plan)
      /\ UNCHANGED <<graph, plan, weights, before, heap, faults>>
      /\ faults \in Nat /\ AccountInv
  BY PlanIs DEF ReadOutput, DoneReading, running, deviceVars, IInv, RunInv
<1>2. /\ order \in Seq(Visible(graph, plan, Size(graph) + 1)) /\ ReadOrder = order
  BY <1>1, ReadOrderIs, ReadOrderGraph
<1>3. /\ \A v \in Visible(graph, plan, Size(graph) + 1) : Shows(graph, state.bound, heap, v)
      /\ at \in 1..(Len(order) + 1)
      /\ outputs = [i \in 1..(at - 1) |-> ShownIn(graph, order[i])]
  BY <1>1 DEF RunInv, ReadInv, Size
<1>4. Len(order) \in Nat /\ \A i \in 1..Len(order) : Shows(graph, state.bound, heap, order[i])
  <2> HIDE DEF order
  <2> QED BY <1>2, <1>3, LenProperties
<1> HIDE DEF order
<1>5. CASE ReadOutput
  <2>1. at \in 1..Len(order)
    BY <1>2, <1>3, <1>4, <1>5 DEF ReadOutput
  <2>2. /\ order[at] \in DOMAIN state.bound /\ Holds(order[at])
        /\ Shown(order[at]) = ShownIn(graph, order[at])
    BY <1>4, <2>1, ShownInGraph DEF Shows, Holds
  <2>3. /\ outputs' = Append(outputs, ShownIn(graph, order[at]))
        /\ at' = at + 1 /\ UNCHANGED <<stage, state, outcome>>
    BY <1>2, <1>5, <2>2 DEF ReadOutput
  <2>4. outputs' = [i \in 1..at |-> ShownIn(graph, order[i])]
    <3>1. Len(outputs) = at - 1 /\ at - 1 \in Nat
      BY <1>3, <2>1
    <3>2. \A i \in 1..at : i # at => i \in 1..(at - 1)
      BY <2>1
    <3> QED BY <1>3, <2>1, <2>3, <3>1, <3>2
  <2>5. ReadInv'
    <3>1. at' - 1 = at /\ at' \in 1..(Len(order) + 1)
      BY <1>4, <2>1, <2>3
    <3>2. outputs' = [i \in 1..(at' - 1) |-> ShownIn(graph', ReadOrderIn(graph')[i])]
      BY <1>1, <2>4, <3>1 DEF order
    <3>3. at' \in 1..(Len(ReadOrderIn(graph')) + 1)
      BY <1>1, <3>1 DEF order
    <3>4. \A v \in Visible(graph', plan', Len(graph'.kind) + 1) :
             Shows(graph', state'.bound, heap', v)
      BY <1>1, <1>3, <2>3 DEF Size
    <3> QED BY <3>2, <3>3, <3>4 DEF ReadInv
  <2>6. AccountInv'
    <3>1. Owned' = Owned
      BY <1>1, <2>3 DEF Owned, WeightBuffers
    <3> QED BY <1>1, <2>3, <3>1, AccountSame
  <2> QED BY <1>1, <2>3, <2>5, <2>6, GoesOnRight DEF RunInv, BindInv, OpsInv, OutputsInv
<1>6. CASE DoneReading
  <2>1. /\ at > Len(order) /\ stage' = "outputs" /\ at' = 1
        /\ UNCHANGED <<state, outputs, outcome>>
    BY <1>2, <1>6 DEF DoneReading
  <2>2. at - 1 = Len(order)
    BY <1>3, <1>4, <2>1
  <2>3. OutputsInv'
    <3>1. outputs' = [i \in 1..Len(order) |-> ShownIn(graph, order[i])]
      BY <1>3, <2>1, <2>2
    <3>2. \A i \in 1..Len(order) : order[i] \in DOMAIN state'.bound
      BY <1>4, <2>1 DEF Shows
    <3> QED BY <1>1, <2>1, <3>1, <3>2 DEF OutputsInv, order
  <2>4. AccountInv'
    <3>1. Owned' = Owned
      BY <1>1, <2>1 DEF Owned, WeightBuffers
    <3> QED BY <1>1, <2>1, <3>1, AccountSame
  <2> QED BY <1>1, <2>1, <2>3, <2>4, GoesOnRight DEF RunInv, BindInv, OpsInv, ReadInv
<1> QED BY <1>5, <1>6

\* A value of the run can be given back, and the accounts stay right.
LEMMA GivenBack ==
    ASSUME IInv, AccountInv, stage = "outputs",
           UNCHANGED <<graph, weights, nextBuffer, before>>,
           NEW v \in DOMAIN state.bound
    PROVE  /\ CanDealloc(v)
           /\ Dealloc(v) => AccountInv' /\ state'.bound = Without(state.bound, {v})
<1> DEFINE b == state.bound[v]
<1>1. /\ b \in DOMAIN state.refs /\ DOMAIN state.refs \subseteq DOMAIN heap
      /\ state.refs[b].owned <=> b \notin WeightBuffers
  BY DEF IInv, StateBooks, Books
<1>2. CanDealloc(v)
  BY <1>1 DEF CanDealloc
<1>3. ASSUME Dealloc(v) PROVE AccountInv' /\ state'.bound = Without(state.bound, {v})
  <2>1. /\ state'.bound = Without(state.bound, {v})
        /\ DOMAIN state'.refs = IF state.refs[b].count = 1
                                THEN DOMAIN state.refs \ {b} ELSE DOMAIN state.refs
        /\ DOMAIN heap' = IF GivesBack(v) THEN DOMAIN heap \ {b} ELSE DOMAIN heap
    BY <1>3, DeallocIs
  <2>2. UNCHANGED <<stage, outputs, outcome>> /\ WeightBuffers' = WeightBuffers
    BY <1>3 DEF Dealloc, WeightBuffers
  <2>3. /\ outcome = "running" /\ DOMAIN heap = before \cup Owned /\ before \cap Owned = {}
    BY DEF AccountInv
  <2> HIDE DEF b
  <2>4. CASE GivesBack(v)
    <3>1. state.refs[b].count = 1 /\ b \in Owned
      BY <1>1, <2>4 DEF GivesBack, Owned, b
    <3>2. Owned' = Owned \ {b} /\ DOMAIN heap' = DOMAIN heap \ {b}
      BY <2>1, <2>2, <2>4, <3>1 DEF Owned
    <3> QED BY <2>1, <2>2, <2>3, <3>1, <3>2 DEF AccountInv
  <2>5. CASE ~GivesBack(v)
    <3>1. state.refs[b].count = 1 => b \in WeightBuffers
      BY <1>1, <2>5 DEF GivesBack, b
    <3>2. Owned' = Owned /\ DOMAIN heap' = DOMAIN heap
      BY <2>1, <2>2, <2>5, <3>1 DEF Owned
    <3> QED BY <2>1, <2>2, <2>3, <3>2 DEF AccountInv
  <2> QED BY <2>4, <2>5
<1> QED BY <1>2, <1>3

LEMMA DeallocsRight ==
    ASSUME IInv, RunInv, DeallocOutput \/ DeallocRemaining
    PROVE  RunInv' /\ EndsRight
<1> DEFINE order == ReadOrderIn(graph)
<1>1. /\ stage = "outputs" /\ AccountInv /\ faults \in Nat /\ at \in Nat \ {0}
      /\ UNCHANGED <<graph, plan, weights, nextBuffer, before, faults>>
  BY DEF DeallocOutput, DeallocRemaining, running, IInv, TypeInv, RunInv
<1>2. Len(order) \in Nat /\ ReadOrder = order
  BY PlanIs, ReadOrderIs, LenProperties, ReadOrderGraph DEF IInv
<1>3. /\ outputs = [i \in 1..Len(order) |-> ShownIn(graph, order[i])]
      /\ \A i \in at..Len(order) : FirstIn(order, i) => order[i] \in DOMAIN state.bound
  BY <1>1 DEF RunInv, OutputsInv
<1> HIDE DEF order
<1>4. ASSUME stage' = "outputs", UNCHANGED <<outputs, outcome>>, AccountInv',
             \A i \in at'..Len(order) : FirstIn(order, i) => order[i] \in DOMAIN state'.bound
      PROVE  RunInv' /\ EndsRight
  <2>1. OutputsInv'
    BY <1>1, <1>3, <1>4 DEF OutputsInv, order
  <2> QED BY <1>1, <1>4, <2>1, GoesOnRight DEF RunInv, BindInv, OpsInv, ReadInv
<1>5. CASE DeallocOutput /\ ~FirstOutput(at)
  <2>1. at' = at + 1 /\ UNCHANGED <<state, heap, stage, outputs, outcome>>
    BY <1>5 DEF DeallocOutput
  <2>2. AccountInv'
    <3>1. Owned' = Owned
      BY <1>1, <2>1 DEF Owned, WeightBuffers
    <3> QED BY <1>1, <2>1, <3>1, AccountSame
  <2>3. \A i \in at'..Len(order) : i \in at..Len(order)
    BY <1>1, <1>2, <2>1
  <2> QED BY <1>1, <1>3, <1>4, <2>1, <2>2, <2>3
<1>6. CASE DeallocOutput /\ FirstOutput(at)
  <2>1. at \in at..Len(order) /\ FirstIn(order, at)
    BY <1>1, <1>2, <1>6 DEF DeallocOutput, FirstOutput, FirstIn
  <2>2. order[at] \in DOMAIN state.bound
    BY <1>3, <2>1
  <2>3. CanDealloc(order[at])
    BY <1>1, <2>2, GivenBack
  <2>4. at' = at + 1 /\ Dealloc(order[at])
    BY <1>2, <1>6, <2>3 DEF DeallocOutput
  <2>5. AccountInv' /\ state'.bound = Without(state.bound, {order[at]})
    BY <1>1, <2>2, <2>4, GivenBack
  <2>6. stage' = "outputs" /\ UNCHANGED <<outputs, outcome>>
    BY <1>1, <2>4 DEF Dealloc
  <2>7. ASSUME NEW i \in at'..Len(order), FirstIn(order, i)
        PROVE  order[i] \in DOMAIN state'.bound
    <3>1. i \in at..Len(order) /\ at \in 1..(i - 1)
      BY <1>1, <1>2, <2>4
    <3>2. order[i] \in DOMAIN state.bound /\ order[at] # order[i]
      BY <1>3, <2>7, <3>1 DEF FirstIn
    <3> QED BY <2>5, <3>2 DEF Without
  <2> QED BY <1>4, <2>5, <2>6, <2>7
<1>7. CASE DeallocRemaining
  <2>1. PICK v \in DOMAIN state.bound :
           IF CanDealloc(v) THEN Dealloc(v) /\ UNCHANGED at
           ELSE EndWithError /\ UNCHANGED heap
    BY <1>7 DEF DeallocRemaining
  <2>2. CanDealloc(v)
    BY <1>1, GivenBack
  <2>3. Dealloc(v) /\ at' = at /\ at > Len(order)
    BY <1>2, <1>7, <2>1, <2>2 DEF DeallocRemaining
  <2>4. AccountInv'
    BY <1>1, <2>3, GivenBack
  <2>5. stage' = "outputs" /\ UNCHANGED <<outputs, outcome>>
    BY <1>1, <2>3 DEF Dealloc
  <2>6. at'..Len(order) = {}
    BY <1>1, <1>2, <2>3
  <2> QED BY <1>4, <2>4, <2>5, <2>6
<1> QED BY <1>5, <1>6, <1>7

\* The run that ends has read what it should and owns nothing.
LEMMA EndRunRight ==
    ASSUME IInv, RunInv, EndRun
    PROVE  RunInv' /\ EndsRight
<1>1. /\ stage = "outputs" /\ state.bound = Empty /\ stage' = "idle" /\ outcome' = "ok"
      /\ heap' = Without(heap, ToSet(state.retired)) /\ faults' = faults /\ faults \in Nat
  BY DEF EndRun, RunInv
<1>2. DOMAIN state.refs = {}
  <2>1. DOMAIN state.bound = {}
    BY <1>1 DEF Empty
  <2>2. \A b : BoundTo(state.bound, b) = {}
    BY <2>1 DEF BoundTo
  <2>3. \A b \in DOMAIN state.refs :
           /\ state.refs[b].count \in Nat \ {0}
           /\ state.refs[b].count = Cardinality(BoundTo(state.bound, b))
    BY DEF IInv, StateBooks, Books
  <2> QED BY <2>2, <2>3, FS_EmptySet
<1>3. DOMAIN heap' = DOMAIN heap
  <2>1. ToSet(state.retired) = {}
    BY DEF IInv, StateBooks, Books, ToSet
  <2> QED BY <1>1, <2>1 DEF Without
<1>4. DOMAIN heap' = before
  BY <1>1, <1>2, <1>3 DEF RunInv, AccountInv, Owned
<1>5. outputs = [i \in DOMAIN ReadOrder |-> Shown(ReadOrder[i])]
  <2> DEFINE order == ReadOrderIn(graph)
  <2>1. ReadOrder = order /\ DOMAIN order = 1..Len(order)
    BY PlanIs, ReadOrderIs, ReadOrderGraph, LenProperties DEF IInv
  <2>2. outputs = [i \in 1..Len(order) |-> ShownIn(graph, order[i])]
    BY <1>1 DEF RunInv, OutputsInv
  <2> HIDE DEF order
  <2> QED BY <2>1, <2>2, ShownInGraph
<1>6. RunInv'
  BY <1>1, RunOver
<1> QED BY <1>1, <1>4, <1>5, <1>6 DEF EndsRight

LEMMA InitRight == Init => RunInv
  BY DEF Init, RunInv, BindInv, OpsInv, ReadInv, OutputsInv, AccountInv

LEMMA StutterRight ==
    ASSUME IInv, RunInv, UNCHANGED vars
    PROVE  RunInv' /\ EndsRight
<1>1. UNCHANGED <<graph, plan, weights, stage, at, state, outputs, outcome, heap, rows,
                  before, faults>>
  BY DEF vars, deviceVars
<1>2. BindInv' /\ OpsInv'
  BY <1>1 DEF RunInv, BindInv, OpsInv, Caches
<1>3. ReadInv' /\ OutputsInv'
  BY <1>1 DEF RunInv, ReadInv, OutputsInv
<1>4. AccountInv' /\ faults' \in Nat
  BY <1>1 DEF RunInv, AccountInv, Owned, WeightBuffers
<1> QED BY <1>1, <1>2, <1>3, <1>4, GoesOnRight DEF RunInv

\* A run that ends well returns what the graph computes and gives back exactly
\* the buffers it took; and no run fails unless a device call does (Engine.cpp:
\* runValuesImpl, over partitionKernelGraph of ExecutionPlan.cpp).
THEOREM RunsRight == Spec => RunsEndRight
<1>1. IInv /\ RunInv /\ [Next]_vars => RunInv' /\ EndsRight
  BY BetweenRuns, FailuresRight, BeginRunRight, BindInputRight, PassOverRight, TransferRight,
     AllocExportRight, ExecuteRight, ReadsRight, DeallocsRight, EndRunRight, StutterRight
     DEF Next
<1>2. RunsEndRight <=> [][EndsRight]_vars
  BY DEF RunsEndRight, EndsRight
<1> QED BY <1>1, <1>2, InitRight, BooksKept, PTL DEF Spec
=============================================================================
