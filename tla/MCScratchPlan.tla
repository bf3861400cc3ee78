---------------------------- MODULE MCScratchPlan ----------------------------
(***************************************************************************)
(* Instance of ScratchPlan for TLC: every program of MCNumOps operations   *)
(* that KernelIR verification and the execution plan let through.          *)
(***************************************************************************)
EXTENDS ScratchPlan

CONSTANTS DynamicSets   \* the sets of values that may have a dynamic shape

\* Kernels read one or two values; a view or an append has one dense input.
\* The import 0 is given its buffer by the caller: beside another input it
\* changes nothing in the plan.
InputsOf(i, kinds) ==
    IF kinds[i] = "kernel"
    THEN {{0}} \cup {s \in SUBSET (1..(i - 1)) : Cardinality(s) \in {1, 2}}
    ELSE {{v} : v \in {w \in 0..(i - 1) : w = 0 \/ kinds[w] # "append"}}

\* NumOps is 4.
Wirings(kinds) ==
    {<<a, b, c, d>> : a \in InputsOf(1, kinds), b \in InputsOf(2, kinds),
                      c \in InputsOf(3, kinds), d \in InputsOf(4, kinds)}

\* An exported view exports what it is a view of, and something is exported.
ExportSets(kinds, wiring) ==
    {s \in SUBSET Ops :
        /\ NumOps \in s
        /\ \A v \in s : kinds[v] = "alias" => wiring[v] \subseteq s \cup {0}}

\* Aliases need no storage of their own, so only kernels differ in shape.
MCGraphs ==
    UNION {UNION {[kind : {kinds}, inputs : {wiring}, exports : ExportSets(kinds, wiring),
                   dynamic : {d \in DynamicSets : \A v \in d : kinds[v] = "kernel"}]
                  : wiring \in Wirings(kinds)}
           : kinds \in [Ops -> {"kernel", "alias", "append"}]}

\* Two sizes of two and three aligned units, so that best fit has to choose.
MCStaticSize == [v \in Ops |-> IF v % 2 = 1 THEN 3 ELSE 2]
=============================================================================
