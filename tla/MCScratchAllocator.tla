------------------------- MODULE MCScratchAllocator -------------------------
\* Instance of ScratchAllocator for TLC.
EXTENDS ScratchAllocator, TLC

Symmetry == Permutations(Values)
=============================================================================
