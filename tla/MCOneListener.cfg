\* Two accepters, a client that may stall in the handshake, and another that
\* does not.
SPECIFICATION DoorFairSpec
CONSTANTS
    Accepters = {a1, a2}
    Clients = {c1, c2}
    Prompt = {c1}
    Nobody = nobody
    MaxReq = 0
PROPERTIES
    EveryoneIn
CHECK_DEADLOCK FALSE
