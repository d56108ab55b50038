CONSTANTS
    r1 = r1
    r2 = r2
    Runs = {r1, r2}
    MaxOps = 2
    Threshold = 2
    Recovery = 3
    Space = 5
    OtherUse = {1, 3}
    MaxBacklog = 1
    MaxMishaps = 1
SPECIFICATION Spec
INVARIANTS TypeOK RateLimited RemovalsAgree
PROPERTIES ExpiredAreCleaned FirstShortageBlocks
