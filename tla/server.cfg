SPECIFICATION FairSpec
CONSTANTS
    c1 = c1
    c2 = c2
    None = None
    Clients = {c1, c2}
    MaxSent = 2
    MaxArrived = 2
    Broadcasts = TRUE
INVARIANTS
    TypeOK
    SocketExclusive
    RegisteredFirst
PROPERTIES
    AnswersSent
    Stops
