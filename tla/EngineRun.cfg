SPECIFICATION Spec
CONSTANTS
    Graphs <- MCGraphs
    Devices = {0, 1}
    MaxRuns = 2
    MaxFaults = 1
INVARIANTS
    BooksMatchDevices
PROPERTIES
    RunsEndRight
CHECK_DEADLOCK FALSE
