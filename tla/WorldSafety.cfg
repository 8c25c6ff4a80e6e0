CONSTANTS
    Ids = {1, 2, 3}
    Scenery = {1}
    ContainerSize = 2
    MaxStamp = 4
    MaxFaults = 1
SPECIFICATION FairSpec
INVARIANTS TypeOK SystemsAgree CrashNeedsFault MirrorsWorld
PROPERTIES CopiesFaithfully MovesSeen
