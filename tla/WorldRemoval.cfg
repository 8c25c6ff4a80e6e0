CONSTANTS
    Ids = {1, 2, 3}
    Scenery = {1}
    ContainerSize = 2
    MaxStamp = 4
    MaxFaults = 0
SPECIFICATION Spec
INVARIANT RemovalSuffices
