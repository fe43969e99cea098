SPECIFICATION FairSpec
CONSTANTS
    f1 = f1
    f2 = f2
    Fills = {f1, f2}
    Size <- MCSize
    Levels = {1, 2}
    PollLimit = 2
    MaxMoves = 0
    MaxFailures = 0
    MaxCrashes = 0
    NoFill = NoFill
    Allowed = {}
PROPERTIES FillsAreTracked
