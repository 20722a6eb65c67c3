CONSTANTS
    seed1 = seed1
    seed2 = seed2
    in1 = in1
    Seeds = {seed1, seed2}
    Inbounds = {in1}
    Key <- SharedKeys
    InboxSize = 1
    HasConsumer = TRUE
    MaxReceived = 2
    MaxBroadcasts = 1
    client1 = client1
    Clients = {client1}
    Rate = 2
    Interval = 2
    IdleLimit = 4
    MaxTime = 7
    MaxRequests = 3
SPECIFICATION Spec
INVARIANTS
    OpenIsTracked
    RateKept
PROPERTY LostIsForgotten
CHECK_DEADLOCK FALSE
