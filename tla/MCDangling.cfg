\* A session with two addresses says BYE: one of them outlives it.
SPECIFICATION BookSpec
CONSTANTS
    Uuids = {u1, u2}
    Keys = {k1, k2}
    Nobody = nobody
INVARIANT
    NoDangling
CHECK_DEADLOCK FALSE
