\* Clients and an operator changing the address book concurrently.
SPECIFICATION AdminSpec
CONSTANTS
    Uuids = {u1, u2, u3}
    Keys = {k1, k2}
    Nobody = nobody
    MaxOwned = 2
    Tasks = {t1}
    NoTicket = noTicket
INVARIANTS
    AdminTypeOK
    CarefulOwnership
PROPERTY
    AdminNoSteal
SYMMETRY MCSymmetry
CHECK_DEADLOCK FALSE
