------------------------------ MODULE EngineRun ------------------------------
(***************************************************************************)
(* Engine: loadWeights, runValues and deallocWeights of one compiled graph. *)
(* A run binds the inputs, runs the nodes of the execution plan and the    *)
(* transfers between devices in order, reads the outputs and gives back    *)
(* its buffers.  Every device call may fail.  Buffers are numbered by each *)
(* device; a buffer is named by its device and its number.                 *)
(***************************************************************************)
EXTENDS ExecutionPlan, FiniteSets

CONSTANTS
    Graphs,      \* the compiled graphs; g.name gives weights their name
    Devices,     \* 0 is the default device
    MaxRuns,
    MaxFaults    \* device calls that fail

ASSUME EngineAssumption ==
    /\ 0 \in Devices
    /\ MaxRuns \in Nat /\ MaxFaults \in Nat

Kinds == InputKinds \cup {"kernel", "alias", "append", "transfer", "tuple"}

\* A graph that verification lets through: an operation reads what earlier ones
\* produce, on its own device; inputs are on the default device; a view is of a
\* tensor that is not paged; tuples and caches are not read like tensors.
ASSUME GraphsAssumption ==
    \A g \in Graphs :
        /\ g.kind \in Seq(Kinds) /\ g.kind # <<>>
        /\ g.inputs \in [Ops(g) -> Seq(Ops(g))]
        /\ g.device \in [Ops(g) -> Devices]
        /\ g.outputs \in Seq(Ops(g))
        /\ \A i \in Ops(g) :
              /\ g.kind[i] \in InputKinds => g.device[i] = 0
              /\ g.kind[i] \in {"alias", "append", "transfer"} => g.inputs[i] # <<>>
              /\ g.kind[i] = "append" => g.kind[g.inputs[i][1]] = "cache"
              /\ \A v \in Reads(g, i) :
                    /\ v < i
                    /\ g.kind[i] # "transfer" => g.device[v] = g.device[i]
                    /\ g.kind[v] \notin {"append", "tuple"}
                    /\ g.kind[v] = "cache" => g.kind[i] \in {"kernel", "append"}
        /\ \A v \in ToSet(g.outputs) : g.kind[v] \notin {"append", "cache"}

VARIABLES
    graph, plan,   \* CompiledKernelGraph
    weights,       \* DeviceWeightMap: the buffer of each name, 0 once given back
    stage,         \* what the engine is doing
    at,            \* the operation or output it is at
    hostWeights,   \* this run loads the weights itself
    state,         \* RuntimeState: bound (buffers, bufferDevices), refs
                   \* (bufferRefs), retired, paged (the lengths it knows)
    outputs,       \* contents of the outputs read so far
    outcome,       \* how the last run or call ended
    heap,          \* the devices: allocated buffers and what they hold
    nextBuffer,
    rows,          \* the length of each paged tensor
    before,        \* buffers allocated when the run began
    runs, faults

deviceVars == <<heap, nextBuffer, rows, faults>>
vars == <<graph, plan, weights, stage, at, hostWeights, state, outputs, outcome,
          deviceVars, before, runs>>

Empty == <<>>     \* the function of no argument
Without(f, keys) == [k \in DOMAIN f \ keys |-> f[k]]
Put(f, key, x) == [k \in DOMAIN f \cup {key} |-> IF k = key THEN x ELSE f[k]]
Garbage == 0

\* What a value shows when every step before it was right: a weight is named,
\* a view shows what its source shows, a copy on another device is a new value.
Shown(v) ==
    LET shown[u \in Ops(graph)] ==
        IF IsAlias(graph, u) THEN shown[AliasSource(graph, u)]
        ELSE IF graph.kind[u] = "weight" THEN graph.name[u] ELSE u
    IN  shown[v]

Holds(v) ==
    /\ v \in DOMAIN state.bound
    /\ state.bound[v] \in DOMAIN heap
    /\ heap[state.bound[v]] = Shown(v)

FreshState == [bound |-> Empty, refs |-> Empty, retired |-> <<>>, paged |-> Empty]

Init ==
    /\ graph \in Graphs
    /\ plan = Partition(graph)
    /\ weights = Empty
    /\ stage = "idle" /\ at = 1 /\ hostWeights = TRUE
    /\ state = FreshState
    /\ outputs = <<>> /\ outcome = "none"
    /\ heap = Empty
    /\ nextBuffer = [d \in Devices |-> 1]
    /\ rows = [v \in {u \in Ops(graph) : graph.kind[u] = "cache"} |-> 0]
    /\ before = {}
    /\ runs = 0 /\ faults = 0

-----------------------------------------------------------------------------
(* Device calls *)

\* A call fails: it has no effect, and the engine's own call ends with "error".
DeviceFails ==
    /\ faults < MaxFaults
    /\ faults' = faults + 1

Fresh(d) == <<d, nextBuffer[d]>>

\* alloc and load: a new buffer, holding content.
Allocate(d, content) ==
    /\ heap' = Put(heap, Fresh(d), content)
    /\ nextBuffer' = [nextBuffer EXCEPT ![d] = @ + 1]

\* The run returns an error.  Only scratch has a guard; the buffers that
\* RuntimeState owns stay allocated.
EndWithError ==
    /\ stage' = "idle" /\ at' = 1
    /\ state' = FreshState
    /\ outputs' = <<>>
    /\ outcome' = "error"

-----------------------------------------------------------------------------
(* RuntimeState *)

\* One value less refers to the buffer of v.
DropRef(s, v) ==
    IF s.refs[s.bound[v]].count > 1
    THEN [s EXCEPT !.refs[s.bound[v]].count = @ - 1]
    ELSE [s EXCEPT !.refs = Without(@, {s.bound[v]})]

\* The buffer v was bound to is remembered if it was owned and nobody's now.
Rebind(s, v) ==
    LET ref == s.refs[s.bound[v]]
    IN  [DropRef(s, v) EXCEPT
            !.retired = IF ref.count = 1 /\ ref.owned THEN Append(@, s.bound[v]) ELSE @]

AddRef(s, b, owned) ==
    LET ref == IF b \in DOMAIN s.refs THEN s.refs[b] ELSE [count |-> 0, owned |-> FALSE]
    IN  [s EXCEPT !.refs =
            Put(@, b, [count |-> ref.count + 1, owned |-> ref.owned \/ owned])]

AddBuffer_AliasUncounted(s, v, b, owned) ==
    IF b \in DOMAIN s.refs
    THEN [s EXCEPT !.bound = Put(@, v, b), !.refs[b].owned = @ \/ owned]
    ELSE [AddRef(s, b, owned) EXCEPT !.bound = Put(@, v, b)]

AddBuffer_OwnerOverwritten(s, v, b, owned) ==
    IF v \in DOMAIN s.bound /\ s.bound[v] = b
    THEN [s EXCEPT !.refs[b].owned = owned]
    ELSE LET t == IF v \in DOMAIN s.bound THEN Rebind(s, v) ELSE s
         IN  [AddRef(t, b, owned) EXCEPT !.bound = Put(@, v, b)]

AddBuffer(s, v, b, owned) ==
    IF v \in DOMAIN s.bound /\ s.bound[v] = b
    THEN [s EXCEPT !.refs[b].owned = @ \/ owned]
    ELSE LET t == IF v \in DOMAIN s.bound THEN Rebind(s, v) ELSE s
         IN  [AddRef(t, b, owned) EXCEPT !.bound = Put(@, v, b)]

-----------------------------------------------------------------------------
(* Weights on the device *)

NextWeight ==
    LET missing == {v \in Ops(graph) : graph.kind[v] = "weight"
                                       /\ graph.name[v] \notin DOMAIN weights}
    IN  IF missing = {} THEN {} ELSE {CHOOSE v \in missing : \A u \in missing : v <= u}

\* loadWeights, one tensor at a time; a name seen before is skipped.
LoadWeight ==
    /\ stage \in {"idle", "loading"} /\ runs = 0
    /\ \E v \in NextWeight :
          /\ Allocate(0, graph.name[v])
          /\ weights' = Put(weights, graph.name[v], nextBuffer[0])
    /\ UNCHANGED <<graph, plan, at, hostWeights, state, outputs, outcome, rows, before,
                   runs, faults>>
    /\ stage' = IF NextWeight' = {} THEN "idle" ELSE "loading"

\* It fails, and what it had loaded is dropped without dealloc.
LoadWeightFails ==
    /\ stage \in {"idle", "loading"} /\ runs = 0 /\ NextWeight # {}
    /\ DeviceFails
    /\ weights' = Empty
    /\ stage' = "idle"
    /\ outcome' = "error"
    /\ UNCHANGED <<graph, plan, at, hostWeights, state, outputs, heap, nextBuffer, rows,
                   before, runs>>

Resident == {name \in DOMAIN weights : weights[name] # 0}

\* deallocWeights, in the order of a hash map.
DeallocWeight ==
    /\ stage = "idle" /\ runs = MaxRuns
    /\ \E name \in Resident :
          /\ heap' = Without(heap, {<<0, weights[name]>>})
          /\ weights' = IF Resident = {name} THEN Empty ELSE [weights EXCEPT ![name] = 0]
          /\ outcome' = IF <<0, weights[name]>> \in DOMAIN heap THEN outcome ELSE "error"
    /\ UNCHANGED <<graph, plan, stage, at, hostWeights, state, outputs, nextBuffer, rows,
                   before, runs, faults>>

DeallocWeightFails ==
    /\ stage = "idle" /\ runs = MaxRuns /\ Resident # {}
    /\ DeviceFails
    /\ outcome' = "error"
    /\ UNCHANGED <<graph, plan, weights, stage, at, hostWeights, state, outputs, heap,
                   nextBuffer, rows, before, runs>>

-----------------------------------------------------------------------------
(* runValuesImpl *)

running == <<graph, plan, weights, hostWeights, before, runs>>

BeginRun ==
    /\ stage = "idle" /\ runs < MaxRuns
    /\ hostWeights' \in IF NextWeight = {} THEN BOOLEAN ELSE {TRUE}
    /\ stage' = "bind" /\ at' = 1
    /\ state' = FreshState
    /\ outputs' = <<>> /\ outcome' = "running"
    /\ before' = DOMAIN heap
    /\ runs' = runs + 1
    /\ UNCHANGED <<graph, plan, weights, deviceVars>>

\* The walk goes on, past the last operation to the next stage.
Advance(next) ==
    IF at < Len(graph.kind)
    THEN at' = at + 1 /\ UNCHANGED stage
    ELSE at' = 1 /\ stage' = next

LoadsInput ==
    graph.kind[at] = "argument" \/ (graph.kind[at] = "weight" /\ hostWeights)

WeightOwned == FALSE

\* bind_input_op: a paged argument keeps its tensor, a weight of the device its
\* buffer, everything else is loaded.  Other operations are passed over.
BindInput ==
    /\ stage = "bind"
    /\ CASE LoadsInput ->
              /\ Allocate(0, Shown(at))
              /\ state' = AddBuffer(state, at, Fresh(0), TRUE)
         [] graph.kind[at] = "weight" /\ ~hostWeights ->
              /\ state' = AddBuffer(state, at, <<0, weights[graph.name[at]]>>, WeightOwned)
              /\ UNCHANGED <<heap, nextBuffer>>
         [] graph.kind[at] = "cache" ->
              /\ state' = [state EXCEPT !.paged = Put(@, at, rows[at])]
              /\ UNCHANGED <<heap, nextBuffer>>
         [] OTHER -> UNCHANGED <<state, heap, nextBuffer>>
    /\ Advance("ops")
    /\ UNCHANGED <<running, outputs, outcome, rows, faults>>

\* load fails, or defaultView after it, and then the new buffer is nobody's.
BindInputFails ==
    /\ stage = "bind" /\ LoadsInput
    /\ DeviceFails
    /\ Allocate(0, Shown(at)) \/ UNCHANGED <<heap, nextBuffer>>
    /\ EndWithError
    /\ UNCHANGED <<running, rows>>

-----------------------------------------------------------------------------
(* The operations *)

AtNode == NodeOf(plan, at)
StartsNode == AtNode # 0 /\ Head(plan[AtNode].ops) = at

\* Inputs are bound already, and a node ran at its first operation.
PassOver ==
    /\ stage = "ops"
    /\ graph.kind[at] # "transfer" /\ ~StartsNode
    /\ Advance("read")
    /\ UNCHANGED <<running, state, outputs, outcome, deviceVars>>

\* transfer_op, over the host: the copy is wrong if what is copied is.
Transfer ==
    /\ stage = "ops" /\ graph.kind[at] = "transfer"
    /\ LET source == AliasSource(graph, at)
       IN  IF source \in DOMAIN state.bound /\ state.bound[source][1] = graph.device[source]
           THEN /\ Allocate(graph.device[at], IF Holds(source) THEN at ELSE Garbage)
                /\ state' = AddBuffer(state, at, Fresh(graph.device[at]), TRUE)
                /\ Advance("read")
                /\ UNCHANGED <<outputs, outcome>>
           ELSE EndWithError /\ UNCHANGED <<heap, nextBuffer>>
    /\ UNCHANGED <<running, rows, faults>>

TransferFails ==
    /\ stage = "ops" /\ graph.kind[at] = "transfer"
    /\ DeviceFails
    /\ Allocate(graph.device[at], at) \/ UNCHANGED <<heap, nextBuffer>>
    /\ EndWithError
    /\ UNCHANGED <<running, rows>>

\* The exports the engine gives storage to: views have that of their source.
Unallocated ==
    {v \in plan[AtNode].exports : v \notin DOMAIN state.bound /\ ~IsAlias(graph, v)}

AllocExport ==
    /\ stage = "ops" /\ StartsNode
    /\ \E v \in Unallocated :
          /\ \A u \in Unallocated : v <= u
          /\ Allocate(plan[AtNode].device, Garbage)
          /\ state' = AddBuffer(state, v, Fresh(plan[AtNode].device), TRUE)
    /\ UNCHANGED <<running, stage, at, outputs, outcome, rows, faults>>

ImportsBound ==
    plan[AtNode].imports \subseteq DOMAIN state.bound \cup DOMAIN state.paged

\* What the executable works with: what it was given, its own scratch (number
\* 0) for what it was not, and views of either.
PlaceInNode(v) ==
    LET place[u \in Ops(graph)] ==
        IF u \in DOMAIN state.bound THEN state.bound[u]
        ELSE IF IsAlias(graph, u) THEN place[AliasSource(graph, u)]
        ELSE <<plan[AtNode].device, 0>>
    IN  place[v]

\* The node computes v from inputs that are what they should be.
Computed(v) ==
    LET computed[u \in Ops(graph)] ==
        IF NodeOf(plan, u) = AtNode
        THEN \A w \in Reads(graph, u) : computed[w]
        ELSE IF graph.kind[u] = "cache"
        THEN u \in DOMAIN state.paged /\ state.paged[u] = rows[u]
        ELSE Holds(u)
    IN  computed[v]

\* The first k operations append their rows.
Grown(k) ==
    [c \in DOMAIN rows |->
        rows[c] + Cardinality({i \in 1..k : LET op == plan[AtNode].ops[i]
                                            IN  graph.kind[op] = "append"
                                                /\ graph.inputs[op][1] = c})]

\* The merge after the run: an export is bound to what the executable made of
\* it, and a cache that was appended to gets its new length.
MergedLengths_Kept(grown) == state.paged

MergedLengths(grown) ==
    [c \in DOMAIN state.paged |->
        IF c \in plan[AtNode].mutableImports THEN grown[c] ELSE state.paged[c]]

BindExports(exports) ==
    LET place == [v \in exports |-> PlaceInNode(v)]
        after[v \in 0..Len(graph.kind)] ==   \* with the exports up to v bound
            IF v = 0 THEN state
            ELSE IF v \in exports THEN AddBuffer(after[v - 1], v, place[v], FALSE)
            ELSE after[v - 1]
    IN  after[Len(graph.kind)]

Execute ==
    /\ stage = "ops" /\ StartsNode /\ Unallocated = {}
    /\ IF ImportsBound
       THEN LET n == plan[AtNode]
                written == {v \in n.exports : graph.kind[v] = "kernel"}
                grown == Grown(Len(n.ops))
            IN  /\ heap' = [b \in DOMAIN heap |->
                              IF \E v \in written : state.bound[v] = b
                              THEN LET v == CHOOSE v \in written : state.bound[v] = b
                                   IN  IF Computed(v) THEN v ELSE Garbage
                              ELSE heap[b]]
                /\ rows' = grown
                /\ state' = [BindExports(n.exports) EXCEPT
                                !.paged = MergedLengths(grown)]
                /\ Advance("read")
                /\ UNCHANGED <<outputs, outcome>>
       ELSE EndWithError /\ UNCHANGED <<heap, rows>>
    /\ UNCHANGED <<running, nextBuffer, faults>>

\* An allocation fails, or the executable does after some of its appends.
NodeFails ==
    /\ stage = "ops" /\ StartsNode
    /\ DeviceFails
    /\ \/ Unallocated # {} /\ UNCHANGED rows
       \/ /\ Unallocated = {} /\ ImportsBound
          /\ \E k \in 0..Len(plan[AtNode].ops) : rows' = Grown(k)
    /\ EndWithError
    /\ UNCHANGED <<running, heap, nextBuffer>>

-----------------------------------------------------------------------------
(* The outputs, and the end of the run *)

\* The tensors read, in order: a tuple gives its elements.
ReadOrder ==
    LET order[i \in 0..Len(graph.outputs)] ==
        IF i = 0 THEN <<>>
        ELSE order[i - 1] \o (IF graph.kind[graph.outputs[i]] = "tuple"
                              THEN graph.inputs[graph.outputs[i]]
                              ELSE <<graph.outputs[i]>>)
    IN  order[Len(graph.outputs)]

ReadOutput ==
    /\ stage = "read" /\ at <= Len(ReadOrder)
    /\ IF ReadOrder[at] \in DOMAIN state.bound
       THEN /\ outputs' = Append(outputs,
                  IF Holds(ReadOrder[at]) THEN Shown(ReadOrder[at]) ELSE Garbage)
            /\ at' = at + 1
            /\ UNCHANGED <<stage, state, outcome>>
       ELSE EndWithError
    /\ UNCHANGED <<running, deviceVars>>

ReadFails ==
    /\ stage = "read" /\ at <= Len(ReadOrder)
    /\ DeviceFails
    /\ EndWithError
    /\ UNCHANGED <<running, heap, nextBuffer, rows>>

\* uniqueOutputs: a value that is an output twice is given back once.
FirstOutput(i) == \A j \in 1..(i - 1) : ReadOrder[j] # ReadOrder[i]

DoneReading ==
    /\ stage = "read" /\ at > Len(ReadOrder)
    /\ stage' = "outputs" /\ at' = 1
    /\ UNCHANGED <<running, state, outputs, outcome, deviceVars>>

\* dealloc_value: the last value of an owned buffer gives it back; a buffer the
\* device does not know, and a value without one, is an error.
GivesBack(v) == state.refs[state.bound[v]].count = 1 /\ state.refs[state.bound[v]].owned

CanDealloc(v) ==
    v \in DOMAIN state.bound /\ (GivesBack(v) => state.bound[v] \in DOMAIN heap)

Dealloc(v) ==
    /\ state' = [DropRef(state, v) EXCEPT !.bound = Without(@, {v})]
    /\ heap' = IF GivesBack(v) THEN Without(heap, {state.bound[v]}) ELSE heap
    /\ UNCHANGED <<stage, outputs, outcome>>

\* dealloc_values
DeallocOutput ==
    /\ stage = "outputs" /\ at <= Len(ReadOrder)
    /\ IF ~FirstOutput(at)
       THEN at' = at + 1 /\ UNCHANGED <<state, heap, stage, outputs, outcome>>
       ELSE IF CanDealloc(ReadOrder[at])
       THEN at' = at + 1 /\ Dealloc(ReadOrder[at])
       ELSE EndWithError /\ UNCHANGED heap
    /\ UNCHANGED <<running, nextBuffer, rows, faults>>

\* dealloc_remaining_buffers, in the order of a hash map.
DeallocRemaining ==
    /\ stage = "outputs" /\ at > Len(ReadOrder)
    /\ \E v \in DOMAIN state.bound :
          IF CanDealloc(v) THEN Dealloc(v) /\ UNCHANGED at
          ELSE EndWithError /\ UNCHANGED heap
    /\ UNCHANGED <<running, nextBuffer, rows, faults>>

\* Any dealloc of the two loops may fail.
DeallocFails ==
    /\ stage = "outputs"
    /\ \E v \in DOMAIN state.bound : GivesBack(v)
    /\ DeviceFails
    /\ EndWithError
    /\ UNCHANGED <<running, heap, nextBuffer, rows>>

\* The buffers that values were moved away from, and the run returns.
EndRun ==
    /\ stage = "outputs" /\ at > Len(ReadOrder) /\ state.bound = Empty
    /\ heap' = Without(heap, ToSet(state.retired))
    /\ state' = FreshState
    /\ stage' = "idle" /\ at' = 1
    /\ outcome' = "ok"
    /\ UNCHANGED <<running, outputs, nextBuffer, rows, faults>>

Next ==
    \/ LoadWeight \/ LoadWeightFails \/ DeallocWeight \/ DeallocWeightFails
    \/ BeginRun \/ BindInput \/ BindInputFails
    \/ PassOver \/ Transfer \/ TransferFails
    \/ AllocExport \/ Execute \/ NodeFails
    \/ ReadOutput \/ ReadFails \/ DoneReading
    \/ DeallocOutput \/ DeallocRemaining \/ DeallocFails \/ EndRun

Spec == Init /\ [][Next]_vars

-----------------------------------------------------------------------------
(* Properties *)

Buffers == Devices \X Nat

TypeOK ==
    /\ stage \in {"idle", "loading", "bind", "ops", "read", "outputs"}
    /\ at \in Nat \ {0} /\ hostWeights \in BOOLEAN
    /\ outcome \in {"none", "running", "ok", "error"}
    /\ DOMAIN heap \subseteq Buffers /\ before \subseteq Buffers
    /\ DOMAIN state.bound \subseteq Ops(graph)
    /\ \A v \in DOMAIN state.bound : state.bound[v] \in DOMAIN state.refs
    /\ \A b \in DOMAIN state.refs : state.refs[b] \in [count : Nat \ {0}, owned : BOOLEAN]
    /\ ToSet(state.retired) \subseteq Buffers

\* A run that ends well returns what the graph computes: nothing was read
\* before it was produced, from the private scratch of a node that is over,
\* from the wrong device, or from a cache whose length was out of date.  It
\* gives back every buffer it took and no other, whatever views, outputs and
\* borders share them; an earlier run's leak stays a leak.  And only a device
\* can make a run fail: each node finds its imports bound, each transfer its
\* source on its device, each dealloc its value and its buffer.
RunsEndRight ==
    [][ /\ outcome = "running" /\ outcome' = "ok" =>
             /\ outputs = [i \in DOMAIN ReadOrder |-> Shown(ReadOrder[i])]
             /\ DOMAIN heap' = before
        /\ outcome' = "error" => outcome = "error" \/ faults' # faults ]_vars

\* What the engine keeps of the devices is true.  A buffer of a run is referred
\* to by as many values as it counts, is still allocated while any value refers
\* to it, and is owned exactly if it is not a weight of the device; so that no
\* run gives back, or writes over, the weights that all runs share.  Between
\* two nodes of a run, the engine knows the true length of each cache.
BooksMatchDevices ==
    /\ \A b \in DOMAIN state.refs :
          /\ state.refs[b].count = Cardinality({v \in DOMAIN state.bound : state.bound[v] = b})
          /\ b \in DOMAIN heap
          /\ state.refs[b].owned <=> b \notin {<<0, weights[name]>> : name \in DOMAIN weights}
    /\ \A name \in Resident : /\ <<0, weights[name]>> \in DOMAIN heap
                              /\ heap[<<0, weights[name]>>] = name
    /\ stage \in {"ops", "read"} =>
         \A c \in DOMAIN state.paged : state.paged[c] = rows[c]
=============================================================================
