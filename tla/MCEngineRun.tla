----------------------------- MODULE MCEngineRun -----------------------------
(***************************************************************************)
(* Graphs for EngineRun: all those that KernelIR verification lets through  *)
(* among argument, weight and two or three more operations, and some larger *)
(* ones with caches, tuples and nodes on two devices.                      *)
(***************************************************************************)
EXTENDS EngineRun

\* A graph with one more operation.
With(g, kind, inputs, device) ==
    [g EXCEPT !.kind = Append(@, kind), !.inputs = Append(@, inputs),
              !.device = Append(@, device), !.name = Append(@, 2)]

Roots == {[kind |-> <<"argument", "weight">>, inputs |-> <<<<>>, <<>>>>,
           device |-> <<0, 0>>, name |-> <<0, 2>>]}

Extensions(g) ==
    LET last == Len(g.kind)
        other(d) == 1 - d
    IN  {With(g, "kernel", <<v>>, g.device[v]) : v \in 1..last}
        \cup {With(g, "kernel", <<v, last>>, g.device[last]) :
                 v \in {u \in 1..(last - 1) : g.device[u] = g.device[last]}}
        \cup {With(g, "alias", <<v>>, g.device[v]) : v \in 1..last}
        \cup {With(g, "transfer", <<v>>, other(g.device[v])) : v \in 1..last}

Grow(gs) == UNION {Extensions(g) : g \in gs}

OutputLists(g) ==
    LET last == Len(g.kind) IN {<<last>>, <<last - 1, last, last>>}

WithOutputs(gs) ==
    UNION {{[kind |-> g.kind, inputs |-> g.inputs, device |-> g.device, name |-> g.name,
             outputs |-> o] : o \in OutputLists(g)} : g \in gs}

Small == WithOutputs(Grow(Roots) \cup Grow(Grow(Roots)))

\* A weight is the first of its name, except the one at 8, which repeats that at 3.
G(kind, inputs, device, results) ==
    [kind |-> kind, inputs |-> inputs, device |-> device, outputs |-> results,
     name |-> [i \in DOMAIN kind |-> IF i = 8 THEN 3 ELSE i]]

Large == {
    \* A cache that two nodes append to, with a copy to the other device and
    \* back between them, and a weight that is bound twice.
    G(<<"cache", "argument", "weight", "kernel", "append", "transfer", "transfer",
        "weight", "append", "kernel">>,
      <<<<>>, <<>>, <<>>, <<2, 3>>, <<1, 4>>, <<4>>, <<6>>, <<>>, <<1, 7>>, <<1, 7, 8>>>>,
      <<0, 0, 0, 0, 0, 1, 0, 0, 0, 0>>, <<10, 4>>),
    \* Views of views of a value, used by the other device and put in a tuple
    \* together with an input.
    G(<<"argument", "weight", "kernel", "alias", "alias", "transfer", "kernel", "alias",
        "transfer", "tuple">>,
      <<<<>>, <<>>, <<1, 2>>, <<3>>, <<4>>, <<5>>, <<6>>, <<7>>, <<8>>, <<9, 5, 2, 9>>>>,
      <<0, 0, 0, 0, 0, 1, 1, 1, 0, 0>>, <<10, 5>>),
    \* Two weights, one of them an output.
    G(<<"weight", "argument", "weight", "kernel", "kernel">>,
      <<<<>>, <<>>, <<>>, <<1, 2>>, <<4, 3>>>>, <<0, 0, 0, 0, 0>>, <<5, 3>>),
    \* A view that another node makes of this node's view.
    G(<<"argument", "kernel", "alias", "transfer", "alias", "kernel", "kernel">>,
      <<<<>>, <<1>>, <<2>>, <<3>>, <<3>>, <<5>>, <<4>>>>,
      <<0, 0, 0, 1, 0, 0, 1>>, <<5, 7, 6>>)}

MCGraphs == Small \cup Large
=============================================================================
