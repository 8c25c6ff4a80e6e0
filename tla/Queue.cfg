CONSTANTS
    p1 = p1
    p2 = p2
    NoPacket = NoPacket
    Packets <- MCPackets
    ReaderOps <- AnyCall
    Size = 3
SPECIFICATION FairSpec
INVARIANTS TypeOK Accounting NoDataRace NoLostWakeup PollNeverBlocks
PROPERTIES ImplementsFifo AddReturns Drained
