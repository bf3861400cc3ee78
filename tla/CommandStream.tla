--------------------------- MODULE CommandStream ---------------------------
(* What a run of a device executable promises: the commands of the plan are *)
(* issued to the stream in order, each exactly once and with the bindings of *)
(* this run, and a run that reports success has issued all of them.         *)
EXTENDS Sequences, Naturals

CONSTANT Plans          \* the command sequences a run may be asked to issue

VARIABLES plan, issued, outcome

vars == <<plan, issued, outcome>>

Init == plan = <<>> /\ issued = <<>> /\ outcome = "none"

Begin ==
    /\ outcome # "running"
    /\ plan' \in Plans
    /\ issued' = <<>>
    /\ outcome' = "running"

(* The next commands of the plan are issued; the last call may have failed. *)
Issue ==
    /\ outcome = "running"
    /\ \E n \in Len(issued)..Len(plan) : issued' = SubSeq(plan, 1, n)
    /\ outcome' \in {"running", "error"}
    /\ UNCHANGED plan

Finish ==
    /\ outcome = "running"
    /\ issued = plan
    /\ outcome' \in {"ok", "invalid", "error"}
    /\ UNCHANGED <<plan, issued>>

(* A run that fails before its first command leaves the last one's record.  *)
NotBegun ==
    /\ outcome # "running"
    /\ outcome' = "error"
    /\ UNCHANGED <<plan, issued>>

Next == Begin \/ Issue \/ Finish \/ NotBegun

Spec == Init /\ [][Next]_vars
=============================================================================
