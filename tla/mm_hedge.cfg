SPECIFICATION FairSpec
CONSTANTS
    f1 = f1
    f2 = f2
    Fills = {f1, f2}
    Size <- MCSize
    Levels = {1, 2}
    PollLimit = 2
    MaxMoves = 1
    MaxFailures = 1
    MaxCrashes = 1
    NoFill = NoFill
    Allowed = {"drop", "again", "rest", "market", "iv", "read", "order", "log", "seed", "crash", "expiry"}
INVARIANTS TrackedOnce
PROPERTIES HedgeFollowsPositions
