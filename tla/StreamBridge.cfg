CONSTANTS
    MaxTokens = 3
    QueueSize = 2
    Window = 1
SPECIFICATION FairSpec
INVARIANTS WellFormedStream
PROPERTIES StreamEnds LeavingCancels
CHECK_DEADLOCK FALSE
