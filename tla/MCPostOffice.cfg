\* Three connections for two sessions: takeovers, competing handlers, one
\* request and one address.
SPECIFICATION Spec
CONSTANTS
    Conns = {c1, c2, c3}
    Uuids = {u1, u2}
    Keys = {k1}
    Nobody = nobody
    NoConn = noconn
    MaxReq = 1
    KeepDead = FALSE
INVARIANTS
    PostTypeOK
    Ownership
    Routing
    OnePlace
    LockDiscipline
    LossHasCause
PROPERTIES
    AtMostOnce
SYMMETRY MCSymmetry
CHECK_DEADLOCK FALSE
