CONSTANTS
    Values = {v1, v2, v3, v4, v5}
    Sizes = {1, 2, 3, 5}
    Alignment = 2
SYMMETRY Symmetry
SPECIFICATION Spec
INVARIANTS LiveDisjoint SpaceAccounted MergeIsThePass
