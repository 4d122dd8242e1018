\* A prompt client that sends two requests ahead, another that may stall
\* anywhere, and two accepters: what is read, by whom, and until when.
SPECIFICATION DoorFairSpec
CONSTANTS
    Accepters = {a1, a2}
    Clients = {c1, c2}
    Prompt = {c1}
    Nobody = nobody
    MaxReq = 2
INVARIANTS
    DoorTypeOK
    ReadAsSent
    SomebodyListens
PROPERTIES
    StopFinal
    AllEnd
    EveryoneInTurn
CHECK_DEADLOCK FALSE
