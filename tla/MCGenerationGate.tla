-------------------------- MODULE MCGenerationGate --------------------------
(* Model values for the runs of GenerationGate. *)
EXTENDS GenerationGate, TLC

CONSTANTS c1, c2, c3

\* c1 is a caller without a RequestControl, like acquire(nullptr) of the tests.
MCCallers == {c1, c2, c3}
MCControlled == {c2, c3}

MCSymmetry == Permutations({c2, c3})
=============================================================================
