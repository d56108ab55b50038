SPECIFICATION Spec
CONSTANTS
    NoTask = NoTask
    Tasks <- TwoTasks
    MaxConcurrent = 1
    MaxMishaps = 1
INVARIANTS
    TypeOK
    WorkersWithinCapacity
    SlotsAccounted
    OutcomeIsWorkers
    CycleFollowsTasks
PROPERTIES
    ExitsSettle
CHECK_DEADLOCK FALSE
