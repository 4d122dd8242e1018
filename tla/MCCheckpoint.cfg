\* Two sessions with a request and an address between them; two connections
\* to the server that writes the checkpoint, two to the one restored from it.
SPECIFICATION CkptSpec
CONSTANTS
    Conns = {c1, c2}
    Uuids = {u1, u2}
    Keys = {k1}
    Nobody = nobody
    NoConn = noconn
    Saver = saver
    MaxReq = 1
    KeepDead = FALSE
INVARIANTS
    ServedOnce
    OwnershipRestored
    SaverInLine
SYMMETRY MCSymmetry
CHECK_DEADLOCK FALSE
