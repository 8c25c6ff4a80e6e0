CONSTANTS
    NumContainers = 2
    QueueSize = 2
    Losses = TRUE
    MaxDuplicates = 0
SPECIFICATION Spec
CHECK_DEADLOCK FALSE
INVARIANT CompleteWorld
