----------------------------- MODULE ScratchPlan -----------------------------
(***************************************************************************)
(* Scratch storage of a device executable: a sequence of operations whose  *)
(* intermediate values share two buffers.  compileExecutable plans the     *)
(* values of static shape once, every run plans those of dynamic shape,    *)
(* and each plan drives a ScratchAllocator along the operations: outputs   *)
(* are placed, then the values whose last use this was are freed.  A run   *)
(* then executes the operations in order on the planned storage.           *)
(*                                                                         *)
(* Operation i produces value i, and value 0 is an import.  A "kernel"     *)
(* writes storage of its own, an "alias" is a view of its input and an     *)
(* "append" adds its input to a paged tensor.                              *)
(***************************************************************************)
EXTENDS Integers, FiniteSets

CONSTANTS
    NumOps,       \* operations of the program
    StaticSize,   \* bytes of the values of static shape, by value
    RunSizes,     \* bytes a value of dynamic shape may have in a run
    Alignment,
    Graphs        \* the programs to plan

Ops == 1..NumOps
Kinds == {"kernel", "alias", "append"}

ASSUME PlanAssumption ==
    /\ NumOps \in Nat \ {0}
    /\ Alignment \in Nat \ {0}
    /\ StaticSize \in [Ops -> Nat \ {0}]
    /\ RunSizes \subseteq Nat \ {0}

\* Verified programs are in order, and a view is one of one value.
ASSUME GraphsAssumption ==
    \A g \in Graphs :
        /\ g.kind \in [Ops -> Kinds]
        /\ \A i \in Ops : g.inputs[i] \subseteq 0..(i - 1)
        /\ \A i \in Ops : g.kind[i] = "alias" => \E v \in 0..(i - 1) : g.inputs[i] = {v}

VARIABLES
    graph,     \* the program: kind, inputs, exports and dynamic values
    pass,      \* "fixed" or "dynamic" while planning, "run" while executing
    index,     \* the operation reached
    placed,    \* in a planning pass: the outputs of this operation are placed
    runSize,   \* bytes of the dynamic values in this run
    layout,    \* where the values planned so far are: buffer and byte range
    memory,    \* the bytes written so far in the two buffers: whose they are
    freeRanges, placements, live, cursor, finalized   \* the allocator in use

allocatorVars == <<freeRanges, placements, live, cursor, finalized>>
vars == <<graph, pass, index, placed, runSize, layout, memory, allocatorVars>>

Allocator == INSTANCE ScratchAllocator
    WITH Values <- Ops, Sizes <- {StaticSize[v] : v \in Ops} \cup RunSizes

-----------------------------------------------------------------------------
(* plan_executable_scratch *)

\* root: an alias stands for what its input stands for.
Root[v \in 0..NumOps] ==
    IF v # 0 /\ graph.kind[v] = "alias"
    THEN Root[CHOOSE input \in graph.inputs[v] : TRUE]
    ELSE v

\* lastUse of a root: the last operation that reads it or a view of it, its
\* own operation when nothing does.
LastUse_OfValue(v) ==
    LET uses == {i \in Ops : v \in graph.inputs[i]}
    IN  CHOOSE i \in uses \cup {v} : \A j \in uses : j <= i

LastUse(v) ==
    LET uses == {i \in Ops : \E input \in graph.inputs[i] : Root[input] = v}
    IN  CHOOSE i \in uses \cup {v} : \A j \in uses : j <= i

\* escapedRoot: an exported value lives in a buffer of the caller.
Escaped_Never(v) == FALSE
Escaped(v) == \E value \in graph.exports : Root[value] = Root[v]

\* The values this pass places: written by a kernel, not escaping, and of
\* static shape in the fixed pass, of dynamic shape in the other.
Candidate(v) ==
    /\ graph.kind[v] = "kernel"
    /\ ~Escaped(v)
    /\ pass = "fixed" <=> v \notin graph.dynamic

SizeOf(v) == IF v \in graph.dynamic THEN runSize ELSE StaticSize[v]

\* releaseAt[index], with what was freed already taken out.
Releasable == {v \in live : LastUse(v) = index}

\* The order of an operation's two loops: its outputs are placed, and then
\* what it was the last to use is freed.
MayRelease == placed

Init ==
    /\ graph \in Graphs
    /\ pass = "fixed"
    /\ index = 1
    /\ placed = FALSE
    /\ runSize \in RunSizes
    /\ graph.dynamic = {} => runSize = CHOOSE s \in RunSizes : TRUE
    /\ layout = <<>>
    /\ memory = <<>>
    /\ Allocator!Init

Planning == pass \in {"fixed", "dynamic"}

\* The operation's output gets a place, if this pass places it.
PlaceOutput ==
    /\ Planning /\ index \in Ops /\ ~placed
    /\ IF Candidate(index)
       THEN Allocator!Alloc(index, SizeOf(index))
       ELSE UNCHANGED allocatorVars
    /\ placed' = TRUE
    /\ UNCHANGED <<graph, pass, index, runSize, layout, memory>>

\* The values whose last use this operation was are freed, in value order.
Release ==
    /\ Planning /\ index \in Ops
    /\ MayRelease
    /\ \E v \in Releasable :
          /\ \A w \in Releasable : v <= w
          /\ Allocator!Free(v)
    /\ UNCHANGED <<graph, pass, index, placed, runSize, layout, memory>>

NextOp ==
    /\ Planning /\ index \in Ops /\ placed
    /\ Releasable = {}
    /\ index' = index + 1
    /\ placed' = FALSE
    /\ UNCHANGED <<graph, pass, runSize, layout, memory, allocatorVars>>

\* finalizeLayout and instantiate_scratch: the placements become views of
\* this pass's buffer, and the next pass has an allocator of its own.
Instantiate ==
    /\ Planning /\ index > NumOps
    /\ layout' = [v \in DOMAIN layout \cup DOMAIN placements |->
                     IF v \in DOMAIN placements
                     THEN [buffer |-> pass, range |-> placements[v]]
                     ELSE layout[v]]
    /\ pass' = IF pass = "fixed" THEN "dynamic" ELSE "run"
    /\ index' = 1
    /\ freeRanges' = {} /\ placements' = <<>> /\ live' = {}
    /\ cursor' = 0 /\ finalized' = FALSE
    /\ UNCHANGED <<graph, placed, runSize, memory>>

-----------------------------------------------------------------------------
(* runExecutable *)

CellsOf(v) == {layout[v].buffer} \X Allocator!Bytes(layout[v].range)
InScratch(v) == Root[v] \in DOMAIN layout

\* A kernel writes all of its output; aliases and appends write no scratch.
Execute ==
    /\ pass = "run" /\ index \in Ops
    /\ memory' = IF graph.kind[index] = "kernel" /\ InScratch(index)
                 THEN [cell \in DOMAIN memory \cup CellsOf(index) |->
                          IF cell \in CellsOf(index) THEN index ELSE memory[cell]]
                 ELSE memory
    /\ index' = index + 1
    /\ UNCHANGED <<graph, pass, placed, runSize, layout, allocatorVars>>

\* The run is over: its dynamic buffer is gone, the fixed one stays with what
\* it holds, and the executable may be run again with other dynamic shapes.
RunAgain ==
    /\ pass = "run" /\ index > NumOps
    /\ pass' = "dynamic"
    /\ index' = 1
    /\ IF graph.dynamic = {} THEN UNCHANGED runSize ELSE runSize' \in RunSizes
    /\ layout' = [v \in {w \in DOMAIN layout : layout[w].buffer = "fixed"} |-> layout[v]]
    /\ memory' = [cell \in {c \in DOMAIN memory : c[1] = "fixed"} |-> memory[cell]]
    /\ UNCHANGED <<graph, placed, allocatorVars>>

Next == PlaceOutput \/ Release \/ NextOp \/ Instantiate \/ Execute \/ RunAgain

Spec == Init /\ [][Next]_vars

-----------------------------------------------------------------------------
(* Properties *)

\* When an operation is about to run, every input it reads from scratch
\* still holds what its producer wrote, also through any chain of views:
\* no value placed later reuses the bytes before the last view is read.  Nor
\* does the operation write over an input it is reading itself: its output
\* was placed before the inputs it ends were freed.
InputsIntact ==
    pass = "run" /\ index \in Ops =>
        \A input \in graph.inputs[index] :
            InScratch(input) =>
                /\ \A cell \in CellsOf(Root[input]) :
                      cell \in DOMAIN memory /\ memory[cell] = Root[input]
                /\ graph.kind[index] = "kernel" /\ InScratch(index) =>
                      CellsOf(Root[input]) \cap CellsOf(index) = {}

\* Exactly what the caller sees outlives the run: nothing that an export is
\* or shows through a view lies in scratch, and a plan ends with all that it
\* placed released, each at the last use of its views.
OnlyExportsOutlive ==
    /\ \A value \in graph.exports : ~InScratch(value)
    /\ Planning /\ index > NumOps => live = {}
=============================================================================
