CONSTANTS
    t1 = t1
    t2 = t2
    c1 = c1
    c2 = c2
    c3 = c3
    g1 = g1
    check = check
    fmt = fmt
    NoTask = NoTask
    Tasks = {t1, t2}
    Checks = {check, fmt}
    Required = {check}
    Calls = {c1, c2, c3}
    TaskOf <- MCTaskOf
    MaxRetries = 1
    Generators = {g1}
    MaxMishaps = 1
SPECIFICATION Spec
CHECK_DEADLOCK FALSE
INVARIANTS TypeOK CompletedIsMerged
PROPERTIES AttemptsClose
