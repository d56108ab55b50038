SPECIFICATION Spec
CONSTANTS
    c1 = c1
    c2 = c2
    c3 = c3
    tick = tick
    cli = cli
    k1 = k1
    k2 = k2
    NoKey = NoKey
    Calls <- MCCalls
    Txs <- MCTxs
    Keys <- MCKeys
    KeyOf <- MCKeyOf
    TxKeyOf <- MCTxKeyOf
    MaxBatch = 2
INVARIANTS
    TypeOK
    Gapless
    KeyOnce
    AnswerIsRecorded
PROPERTIES
    OpenTxFreezesLog
    ImplementsEventLog
CHECK_DEADLOCK FALSE
