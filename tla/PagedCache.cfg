SPECIFICATION Spec
CONSTANTS
    Descs <- MCDescs
    MaxTensors = 2
    Chunks = {1, 3}
    MaxLength = 4
    MaxFaults = 1
INVARIANTS PagesOwnedOnce RowsRetained KernelReadsCache
PROPERTIES NoPageLost
