------------------------------ MODULE RowStore -------------------------------
(***************************************************************************)
(* What paged tensors promise: each is a list of rows of its own.  A new   *)
(* one has rows nobody chose, batches of rows are added at its end, it is  *)
(* given up.  Nothing done to one shows in another.                        *)
(***************************************************************************)
EXTENDS Sequences

CONSTANTS Tensors, Batches
VARIABLE rows   \* of each tensor, <<its rows>>, or <<>> while there is none

Init == rows = [t \in Tensors |-> <<>>]

Alloc(t) == rows[t] = <<>> /\ rows'[t] # <<>>
Extend(t) == rows[t] # <<>> /\ \E batch \in Batches : rows'[t] = <<rows[t][1] \o batch>>
Dealloc(t) == rows[t] # <<>> /\ rows'[t] = <<>>

Next == \E t \in Tensors : /\ Alloc(t) \/ Extend(t) \/ Dealloc(t)
                           /\ rows' = [rows EXCEPT ![t] = rows'[t]]
Spec == Init /\ [][Next]_rows
=============================================================================
