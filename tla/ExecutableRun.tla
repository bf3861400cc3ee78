--------------------------- MODULE ExecutableRun ---------------------------
(* Runs of one CUDA executable: the commands between two paged appends are  *)
(* cut into regions; a region whose bindings never change is captured as a  *)
(* CUDA graph the first time and launched as one on every later run.        *)
EXTENDS Naturals, Sequences, SequencesExt, FiniteSets

CONSTANTS
    Program,    \* the executable's commands, aliases left out: a sequence of
                \* [op, fixed, weight, append]; "fixed": every value it binds
                \* is fixed scratch or a stable import, "weight": it reads one
    Weights,    \* the buffers a run may bind to the stable imports
    MaxRuns,    \* bound on the runs
    MaxFaults,  \* bound on the CUDA calls that fail
    None        \* a region without a graph

ASSUME ProgramAssumption ==
    Program \in Seq([op : Nat, fixed : BOOLEAN, weight : BOOLEAN, append : BOOLEAN])
ASSUME BoundsAssumption == MaxRuns \in Nat /\ MaxFaults \in Nat
ASSUME WeightsAssumption == IsFiniteSet(Weights)

VARIABLES
    regions,    \* capturedRegions: a sequence of [key, exec, disabled]
    active,     \* executableRunActive_
    flag,       \* the validation failure word on the device
    at,         \* the next command of the run
    run,        \* [weights, profile, number]: what this run was called with
    outcome,    \* "none", "running", "ok", "invalid", "error", "refused"
    issued,     \* what the stream was given in this run
    tripped,    \* a command of this run failed its validation
    faults,     \* CUDA calls that failed on their own
    lost,       \* the context holds a sticky error: every call fails
    destroyed   \* destroyCompiledGraph was called

vars == <<regions, active, flag, at, run, outcome, issued, tripped, faults,
          lost, destroyed>>

-----------------------------------------------------------------------------
(* The buffer a command of run r is given: fixed scratch is the same for    *)
(* ever, a stable import is the caller's, dynamic scratch is new each time. *)
Binding(c, r) ==
    IF ~c.fixed THEN <<"dynamic", r.number>>
    ELSE IF c.weight THEN <<"weights", r.weights>> ELSE <<"scratch">>

Command(i, r) == [op |-> Program[i].op, binding |-> Binding(Program[i], r)]

Commands(from, to, r) == [i \in 1..(to - from + 1) |-> Command(from + i - 1, r)]

Eligible(c) == c.fixed

(* The last command of the region that starts at command i.                 *)
RegionEnd(i) ==
    CHOOSE j \in i..Len(Program) :
        /\ \A k \in i..j : ~Program[k].append /\ Eligible(Program[k]) = Eligible(Program[i])
        /\ j < Len(Program) =>
             Program[j + 1].append \/ Eligible(Program[j + 1]) # Eligible(Program[i])

Region == Commands(at, RegionEnd(at), run)

(* The region's signature: its ops and the tensors bound to them.           *)
Key_OpsOnly(cmds) == [i \in 1..Len(cmds) |-> cmds[i].op]
Key(cmds) == cmds

Known(key) == \E i \in 1..Len(regions) : regions[i].key = key
IndexOf(key) == CHOOSE i \in 1..Len(regions) : regions[i].key = key

-----------------------------------------------------------------------------
Init ==
    /\ regions = <<>>
    /\ active = FALSE
    /\ flag = FALSE
    /\ at = 1
    /\ run \in [weights : Weights, profile : BOOLEAN, number : {0}]
    /\ outcome = "none"
    /\ issued = <<>>
    /\ tripped = FALSE
    /\ faults = 0
    /\ lost = FALSE
    /\ destroyed = FALSE

Fine == UNCHANGED <<faults, lost>>

(* A CUDA call fails: for once, or with an error the context does not lose. *)
Fault == faults < MaxFaults /\ faults' = faults + 1
PassingFault == Fault /\ UNCHANGED lost
AnyFault == Fault /\ lost' \in BOOLEAN

(* The stream is given cmds; one of them may fail its validation there.     *)
Issues(cmds) ==
    /\ issued' = issued \o cmds
    /\ \E bad \in BOOLEAN :
         /\ bad => cmds # <<>>
         /\ flag' = (flag \/ bad)
         /\ tripped' = (tripped \/ bad)

IssuesNothing == UNCHANGED <<issued, flag, tripped>>

Proceed(to) == at' = to /\ UNCHANGED <<active, outcome>>

(* An error returns out of runExecutable: abortExecutableRun clears the     *)
(* flag, nothing is synchronised or validated.                              *)
Abort == active' = FALSE /\ outcome' = "error" /\ UNCHANGED at

(* cmds one at a time: all of them, or those before the one that failed.    *)
RunAll(cmds, to) == Issues(cmds) /\ Proceed(to)
RunSome(cmds) ==
    /\ \E n \in 0..(Len(cmds) - 1) : Issues(SubSeq(cmds, 1, n))
    /\ Abort

Eagerly(cmds, to) ==
    \/ Fine /\ RunAll(cmds, to)
    \/ AnyFault /\ RunSome(cmds)

-----------------------------------------------------------------------------
Idle == outcome # "running" /\ ~destroyed

CanBegin == Idle /\ run.number < MaxRuns

NextRun(w, p) == run' = [weights |-> w, profile |-> p, number |-> run.number + 1]

ResetFlag_Never == FALSE
ResetFlag == TRUE

Begin(w, p) ==
    /\ CanBegin
    /\ ~lost
    /\ Fine
    /\ NextRun(w, p)
    /\ IF active
       THEN /\ outcome' = "refused"
            /\ UNCHANGED <<active, flag, at, issued, tripped>>
       ELSE /\ active' = TRUE
            /\ flag' = (flag /\ ~ResetFlag)
            /\ tripped' = FALSE
            /\ at' = 1
            /\ issued' = <<>>
            /\ outcome' = "running"
    /\ UNCHANGED <<regions, destroyed>>

(* The memset of the flag fails: the run is over before it was active.      *)
BeginFails ==
    /\ CanBegin
    /\ IF lost THEN Fine ELSE AnyFault
    /\ outcome' = "error"
    /\ UNCHANGED <<regions, active, flag, at, run, issued, tripped, destroyed>>

AtCommand == outcome = "running" /\ at <= Len(Program)
AtRegion == AtCommand /\ ~Program[at].append
Recordable == AtRegion /\ ~run.profile /\ Eligible(Program[at])
After == RegionEnd(at) + 1

(* A paged append runs outside every region, between two flushes.           *)
PagedAppend ==
    /\ AtCommand
    /\ Program[at].append
    /\ Eagerly(Commands(at, at, run), at + 1)
    /\ UNCHANGED <<regions, run, destroyed>>

(* Commands with dynamic bindings, and all of them while profiling.         *)
EagerRegion ==
    /\ AtRegion
    /\ ~Recordable
    /\ Eagerly(Region, After)
    /\ UNCHANGED <<regions, run, destroyed>>

Stored == regions[IndexOf(Key(Region))]

DisabledRegion ==
    /\ Recordable
    /\ Known(Key(Region)) /\ Stored.disabled
    /\ Eagerly(Region, After)
    /\ UNCHANGED <<regions, run, destroyed>>

Replayable == Recordable /\ Known(Key(Region)) /\ ~Stored.disabled

Replay ==
    /\ Replayable
    /\ Stored.exec # None
    /\ Fine
    /\ RunAll(Stored.exec, After)
    /\ UNCHANGED <<regions, run, destroyed>>

(* The launch fails: on its own, or because the region has no graph.        *)
ReplayFails ==
    /\ Replayable
    /\ IF Stored.exec = None THEN Fine ELSE AnyFault
    /\ IssuesNothing
    /\ Abort
    /\ UNCHANGED <<regions, run, destroyed>>

NewRegion == Recordable /\ ~Known(Key(Region))
Keep(exec, disabled) ==
    regions' = Append(regions, [key |-> Key(Region), exec |-> exec, disabled |-> disabled])

(* The stream cannot be drained before the capture: an earlier command left *)
(* a sticky error. The region stays behind without graph and not disabled.  *)
DrainFails ==
    /\ NewRegion
    /\ Fault
    /\ lost' = TRUE
    /\ Keep(None, FALSE)
    /\ IssuesNothing
    /\ Abort
    /\ UNCHANGED <<run, destroyed>>

(* BeginCapture, a recording, EndCapture or Instantiate fails: the region   *)
(* is never captured again and runs eagerly, now and from now on.           *)
CaptureFails_KeepsTrying ==
    /\ NewRegion
    /\ PassingFault
    /\ Keep(None, FALSE)
    /\ RunAll(Region, After)
    /\ UNCHANGED <<run, destroyed>>
CaptureFails ==
    /\ NewRegion
    /\ PassingFault
    /\ Keep(None, TRUE)
    /\ \/ RunAll(Region, After)
       \/ RunSome(Region)
    /\ UNCHANGED <<run, destroyed>>

(* Recording issues nothing; the launch of the new graph does.              *)
Capture ==
    /\ NewRegion
    /\ Keep(Region, FALSE)
    /\ \/ Fine /\ RunAll(Region, After)
       \/ PassingFault /\ IssuesNothing /\ Abort
    /\ UNCHANGED <<run, destroyed>>

AtEnd == outcome = "running" /\ at > Len(Program)

(* endExecutableRun: the flag is read back once the stream has drained.     *)
Verdict == IF flag THEN "invalid" ELSE "ok"

End ==
    /\ AtEnd
    /\ active' = FALSE
    /\ \/ Fine /\ outcome' = Verdict
       \/ Fault /\ lost' = TRUE /\ outcome' = "error"
    /\ UNCHANGED <<regions, flag, at, run, issued, tripped, destroyed>>

(* ~DeviceExecutable destroys the graphs, then frees the fixed scratch.     *)
Destroy ==
    /\ Idle
    /\ destroyed' = TRUE
    /\ regions' = <<>>
    /\ UNCHANGED <<active, flag, at, run, outcome, issued, tripped, faults, lost>>

Next ==
    \/ \E w \in Weights, p \in BOOLEAN : Begin(w, p)
    \/ BeginFails
    \/ PagedAppend
    \/ EagerRegion
    \/ DisabledRegion
    \/ Replay
    \/ ReplayFails
    \/ DrainFails
    \/ CaptureFails
    \/ Capture
    \/ End
    \/ Destroy

Spec == Init /\ [][Next]_vars

-----------------------------------------------------------------------------
Bindings ==
    {<<"scratch">>} \cup {<<"weights", w>> : w \in Weights}
    \cup {<<"dynamic", n>> : n \in 1..MaxRuns}
Entry == {cmds \in Seq([op : Nat, binding : Bindings]) : Len(cmds) <= Len(Program)}

ASSUME NoneAssumption == None \notin Entry

(* Types of the run's state; what is issued and what the regions hold are   *)
(* command sequences no longer than the program.                            *)
TypeOK ==
    /\ regions \in Seq([key : Entry, exec : Entry \cup {None}, disabled : BOOLEAN])
    /\ active \in BOOLEAN /\ flag \in BOOLEAN /\ tripped \in BOOLEAN
    /\ lost \in BOOLEAN /\ destroyed \in BOOLEAN
    /\ at \in 1..(Len(Program) + 1)
    /\ run \in [weights : Weights, profile : BOOLEAN, number : 0..MaxRuns]
    /\ outcome \in {"none", "running", "ok", "invalid", "error", "refused"}
    /\ issued \in Entry
    /\ faults \in 0..MaxFaults

(* What the stream is given, in all the ways a region can be executed, is   *)
(* the executable's commands in order, each once, bound to this run's       *)
(* buffers; a replayed graph never brings back an earlier run's bindings.   *)
(* However a run ends, the next one is not refused.                         *)
Expected(r) == Commands(1, Len(Program), r)
Plans == {Expected(r) : r \in [weights : Weights, profile : BOOLEAN, number : 0..MaxRuns]}

Stream == INSTANCE CommandStream
    WITH plan <- IF run.number = 0 THEN <<>> ELSE Expected(run)

ImplementsStream == Stream!Spec

(* A run says ok only if no command of it failed its validation on the      *)
(* device, and says invalid only if one did: a failure of an aborted run is *)
(* not blamed on the next one, and a replayed graph's failure is not lost.  *)
VerdictTruthful ==
    /\ outcome = "ok" => ~tripped
    /\ outcome = "invalid" => tripped

(* The regions kept between the runs of an executable: one entry for each    *)
(* region and each binding of its stable imports, however many runs there   *)
(* are, since dynamic bindings never enter the table; and an entry without  *)
(* graph is disabled, so that no later run launches nothing, unless the     *)
(* context was already lost when it was recorded.                           *)
FirstOfRegion(i) ==
    /\ ~Program[i].append /\ Eligible(Program[i])
    /\ i > 1 => Program[i - 1].append \/ ~Eligible(Program[i - 1])
RegionTableSound ==
    /\ Len(regions) <= Cardinality({i \in 1..Len(Program) : FirstOfRegion(i)})
                         * Cardinality(Weights)
    /\ \A i, j \in 1..Len(regions) : regions[i].key = regions[j].key => i = j
    /\ \A i \in 1..Len(regions) :
          regions[i].disabled \/ regions[i].exec # None \/ lost
=============================================================================
