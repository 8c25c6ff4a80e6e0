CONSTANTS
    NumContainers = 2
    QueueSize = 1
    Losses = TRUE
    MaxDuplicates = 1
SPECIFICATION Spec
CHECK_DEADLOCK FALSE
INVARIANTS TypeOK NeverEmptyWorld ReceivesUnlessRepeated NothingLeft JoinIsDrained CrashTakesBoth
