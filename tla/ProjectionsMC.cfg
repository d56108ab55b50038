CONSTANTS
    c1 = c1
    t1 = t1
    r1 = r1
    b1 = b1
    b2 = b2
    Cycles = {c1}
    Tasks = {t1}
    Runs = {r1}
    CycleOf <- MCCycleOf
    TaskOf <- MCTaskOf
    BudgetEvents = {b1, b2}
    Amount <- MCAmount
    Order <- MCOrder
SPECIFICATION Spec
INVARIANTS TypeOK ReasonIsCurrent BalanceIsSum
PROPERTY FollowsLifecycle
CHECK_DEADLOCK FALSE
