\* Two handlers, an operator's task and two uses of server[key] at a store of one key.
SPECIFICATION DbFairSpec
CONSTANTS
    Handlers = {h1, h2}
    Callers = {o1}
    DictCallers = {d1, d2}
    DbKeys = {k1}
    Vals = {v1, empty}
    Empty = empty
    Absent = absent
    Stuck = stuck
INVARIANT
    Fresh
PROPERTY
    StoreServed
CHECK_DEADLOCK FALSE
