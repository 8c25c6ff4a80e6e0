CONSTANTS
    a = a
    b = b
    Ips <- OneIp
    MaxIds = 2
    QueueBound = 3
SPECIFICATION Spec
PROPERTY RepliesOwnId
