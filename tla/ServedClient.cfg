CONSTANTS
    Ids = {1, 2, 3, 4}
    Scenery = {1}
    ContainerSize = 2
    MaxStamp = 5
SPECIFICATION HistorySpec
PROPERTIES ServesClient
