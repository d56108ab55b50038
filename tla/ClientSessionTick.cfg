SPECIFICATION SessionSpec
CONSTANTS
    c1 = c1
    cmd = cmd
    tick = tick
    NoKey = NoKey
    Calls <- MCCalls
    Commands <- MCCommands
    Ticks <- MCTicks
    KeyOf <- MCKeyOf
    Wanted <- MCAll
    Capacity = 1
    MaxHangups = 0
    MaxRestarts = 0
PROPERTIES
    TickReachesClient
CHECK_DEADLOCK FALSE
