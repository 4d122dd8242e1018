\* Two callers share a client for four calls.
SPECIFICATION ClientSpec
CONSTANTS
    Callers = {a1, a2}
    MaxCalls = 4
INVARIANTS
    Pipeline
    InTurn
    CountedAlike
    Accounted
CHECK_DEADLOCK FALSE
