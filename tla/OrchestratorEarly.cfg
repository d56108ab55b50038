SPECIFICATION Spec
CONSTANTS
    NoTask = NoTask
    Tasks <- TwoTasks
    MaxConcurrent = 1
    MaxMishaps = 0
INVARIANTS
    CompletedWhenAllEnded
CHECK_DEADLOCK FALSE
