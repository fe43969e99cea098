CONSTANTS
    Assets = {usd, eth}
    AavePools = {p1, p2}
    NoPool = NoPool
    Amounts = {1}
    InitialWallet = 1
    MaxYield = 2
    Losses = 1
SYMMETRY Symmetry
SPECIFICATION Spec
INVARIANTS Backed
PROPERTIES ImplementsPool PaidInFull
