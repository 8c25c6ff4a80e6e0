CONSTANTS
    NumContainers = 1
    QueueSize = 1
    Losses = FALSE
    MaxDuplicates = 0
SPECIFICATION FairSpec
CHECK_DEADLOCK FALSE
PROPERTIES TimesOut Settles Shutdown
