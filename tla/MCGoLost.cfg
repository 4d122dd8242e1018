\* One task of a goroutine, and an event loop with nothing else to do.
SPECIFICATION GoFairSpec
CONSTANT
    MaxTasks = 1
PROPERTY
    ResultArrives
CHECK_DEADLOCK FALSE
