SPECIFICATION Spec
CONSTANTS
    k1 = k1
    k2 = k2
    a1 = a1
    a2 = a2
    cli1 = cli1
    Keys <- MCKeys
    Plans <- MCPlans
    Approvals <- MCApprovals
    Cli <- MCCli
    MaxDeliveries = 2
INVARIANTS
    TypeOK
    WorkIsApproved
    PlanningHasGenerator
PROPERTIES
    TaskOutcomeFinal
    RunningEnds
CHECK_DEADLOCK FALSE
