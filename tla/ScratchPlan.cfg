CONSTANTS
    NumOps = 4
    Alignment = 2
    StaticSize <- MCStaticSize
    RunSizes = {2, 4}
    Graphs <- MCGraphs
    DynamicSets = {{}, {1, 3}}
SPECIFICATION Spec
INVARIANTS InputsIntact OnlyExportsOutlive
