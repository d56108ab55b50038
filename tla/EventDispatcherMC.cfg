SPECIFICATION Spec
CONSTANTS
    c1 = c1
    c2 = c2
    cmd = cmd
    k = k
    NoKey = NoKey
    Calls <- MCCalls
    Commands <- MCCommands
    Ticks <- MCTicks
    KeyOf <- MCKeyOf
    Capacity = 2
    Window = 2
    MaxRestarts = 1
INVARIANTS
    TypeOK
    RepeatsAreApart
PROPERTIES
    HandledUnlessMissed
CHECK_DEADLOCK FALSE
