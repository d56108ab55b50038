SPECIFICATION SessionSpec
CONSTANTS
    c1 = c1
    cmd = cmd
    tick = tick
    NoKey = NoKey
    Calls <- MCCalls
    Commands <- MCCommands
    Ticks <- MCTicks
    KeyOf <- MCKeyOf
    Wanted <- MCWanted
    Capacity = 1
    MaxHangups = 1
    MaxRestarts = 1
INVARIANTS
    SessionTypeOK
    ClientStreamExact
PROPERTIES
    PublishedReachesClient
CHECK_DEADLOCK FALSE
