\* Two tasks at a time, with the Go library, without it, and without the
\* extension.
SPECIFICATION GoFairSpec
CONSTANT
    MaxTasks = 2
INVARIANTS
    SparedNeverRuns
    ReportsTrue
PROPERTIES
    CancelEnds
    Delivered
CHECK_DEADLOCK FALSE
