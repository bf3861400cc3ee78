---------------------------- MODULE ExecutionPlan ----------------------------
(***************************************************************************)
(* How a kernel graph is cut into device executables, and which values     *)
(* cross their borders (partitionKernelGraph).                             *)
(*                                                                         *)
(* A graph g has g.kind, g.inputs and g.device by operation.  Operation i  *)
(* produces value i ("append" produces none); g.device is where the value  *)
(* is, for a "transfer" the target.  g.outputs are the results in order.   *)
(***************************************************************************)
EXTENDS Integers, Sequences, SequencesExt

Ops(g) == DOMAIN g.kind
InputKinds == {"argument", "weight", "cache"}

Reads(g, i) == ToSet(g.inputs[i])
IsAlias(g, v) == g.kind[v] = "alias"
AliasSource(g, v) == g.inputs[v][1]

\* The operations a device executes; the others are the engine's.
BelongsToExecutable(g, i) == g.kind[i] \notin InputKinds \cup {"tuple", "transfer"}

-----------------------------------------------------------------------------
(* The cut: a new node where the device changes and after a transfer.       *)

\* What operation i does to the nodes so far and the one that is open (0: none).
Place(g, walk, i) ==
    IF ~BelongsToExecutable(g, i) THEN walk
    ELSE IF walk.open = 0 \/ walk.nodes[walk.open].device # g.device[i]
    THEN [open |-> Len(walk.nodes) + 1,
          nodes |-> Append(walk.nodes, [device |-> g.device[i], ops |-> <<i>>])]
    ELSE [walk EXCEPT !.nodes[walk.open].ops = Append(@, i)]

AfterOp_TransferKeepsNode(g, walk, i) == Place(g, walk, i)

AfterOp(g, walk, i) ==
    IF g.kind[i] = "transfer" THEN [walk EXCEPT !.open = 0] ELSE Place(g, walk, i)

Walk(g) ==
    LET walk[i \in 0..Len(g.kind)] ==
        IF i = 0 THEN [open |-> 0, nodes |-> <<>>] ELSE AfterOp(g, walk[i - 1], i)
    IN  walk[Len(g.kind)]

Nodes(g) == Walk(g).nodes

\* nodeForOp and producerNode, 0 for what no executable runs.
NodeOf(nodes, i) ==
    IF \E n \in DOMAIN nodes : i \in ToSet(nodes[n].ops)
    THEN CHOOSE n \in DOMAIN nodes : i \in ToSet(nodes[n].ops)
    ELSE 0

-----------------------------------------------------------------------------
(* The borders *)

UsedElsewhere(g, nodes, n, v) ==
    \E i \in Ops(g) : v \in Reads(g, i) /\ NodeOf(nodes, i) # n

DirectExports(g, nodes, n) ==
    {v \in ToSet(nodes[n].ops) :
        UsedElsewhere(g, nodes, n, v) \/ v \in ToSet(g.outputs)}

\* A view and what it is a view of, as far as this node produces it.
ViewedBy(g, nodes, n) ==
    LET viewed[v \in Ops(g)] ==
        {v} \cup (IF IsAlias(g, v) /\ NodeOf(nodes, AliasSource(g, v)) = n
                  THEN viewed[AliasSource(g, v)] ELSE {})
    IN  viewed

\* "An exported alias cannot retain backing storage from private scratch":
\* its sources in the node are exported with it.
Exports_AliasAlone(g, nodes, n) == DirectExports(g, nodes, n)

Exports(g, nodes, n) ==
    UNION {ViewedBy(g, nodes, n)[v] : v \in DirectExports(g, nodes, n)}

\* The caches it appends to; the engine takes their new lengths back.
MutableImports(g, nodes, n) ==
    {g.inputs[i][1] : i \in {j \in ToSet(nodes[n].ops) : g.kind[j] = "append"}}

\* What its operations read from outside, exported aliases' sources included.
Imports(g, nodes, n) ==
    {v \in Ops(g) : /\ NodeOf(nodes, v) # n
                    /\ \E i \in ToSet(nodes[n].ops) : v \in Reads(g, i)}
    \cup MutableImports(g, nodes, n)

\* The plan of a graph: its nodes with their borders.
Partition(g) ==
    LET nodes == Nodes(g)
    IN  [n \in DOMAIN nodes |->
            [device |-> nodes[n].device,
             ops |-> nodes[n].ops,
             imports |-> Imports(g, nodes, n),
             mutableImports |-> MutableImports(g, nodes, n),
             exports |-> Exports(g, nodes, n)]]
=============================================================================
