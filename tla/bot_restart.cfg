SPECIFICATION FairSpec
CONSTANTS
    v1 = v1
    v2 = v2
    v3 = v3
    put = put
    call = call
    Vaults = {v1, v2}
    OTokens = {put, call}
    OTokenOf <- MixedOTokenOf
    Strike <- BothStrike
    IsPut <- BothIsPut
    Prices = {1, 3}
    MaxBatch = 2
    MaxRetries = 2
    MaxCrashes = 1
    MaxMempool = 2
    Allowed = {"crash"}
PROPERTIES InTheMoneyIsDelivered
CHECK_DEADLOCK FALSE
