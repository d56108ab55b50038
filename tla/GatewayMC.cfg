CONSTANTS
    tg = tg
    dc = dc
    s1 = s1
    Telegram = {tg}
    Discord = {dc}
    MaxConcurrent = 2
    MaxRounds = 2
    Subs = {s1}
    Messages = 2
SPECIFICATION Spec
CHECK_DEADLOCK FALSE
INVARIANTS TypeOK RegistryMatchesTurns
PROPERTIES NoRoundAfterCancel WorkEnds
