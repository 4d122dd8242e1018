\* Two handlers of one session compete for its inbox and its outbox lock,
\* with two requests under way.
SPECIFICATION FairSpec
CONSTANTS
    Conns = {c1, c2}
    Uuids = {u1}
    Keys = {}
    Nobody = nobody
    NoConn = noconn
    MaxReq = 2
    KeepDead = FALSE
PROPERTIES
    AtMostOnce
    LockServed
    InboxServed
CHECK_DEADLOCK FALSE
