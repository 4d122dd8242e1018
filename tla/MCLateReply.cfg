\* One caller: a call that timed out, and the next one.
SPECIFICATION ClientSpec
CONSTANTS
    Callers = {a1}
    MaxCalls = 3
INVARIANT
    OwnReply
CHECK_DEADLOCK FALSE
