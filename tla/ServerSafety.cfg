CONSTANTS
    a = a
    b = b
    Ips <- MCIps
    MaxIds = 3
    QueueBound = 3
SPECIFICATION Spec
SYMMETRY Addresses
INVARIANTS TypeOK IdsPartition MembershipRegistered MembersEquipped InputFresh NoPressWaits PlayersAlive GridMatches
PROPERTIES ServesDiffs
