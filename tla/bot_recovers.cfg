SPECIFICATION FairSpec
CONSTANTS
    v1 = v1
    v2 = v2
    v3 = v3
    put = put
    call = call
    Vaults = {v1, v2}
    OTokens = {put, call}
    OTokenOf <- TwoOTokenOf
    Strike <- BothStrike
    IsPut <- BothIsPut
    Prices = {1, 3}
    MaxBatch = 1
    MaxRetries = 2
    MaxCrashes = 2
    MaxMempool = 3
    Allowed = {"db", "crash", "settle", "price", "redeem"}
INVARIANTS DeliveredAtMostOnce
PROPERTIES EveryPositionFinishes QueueDrains
CHECK_DEADLOCK FALSE
