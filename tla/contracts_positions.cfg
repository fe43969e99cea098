SPECIFICATION Spec
CONSTANTS
    usd = usd
    alice = alice
    eth = eth
    put = put
    call = call
    mm1 = mm1
    mm2 = mm2
    Assets = {usd, eth}
    OTokens = {put, call}
    Series <- MCSeries
    PutDivisor <- MCPutDivisor
    CallUnit <- MCCallUnit
    PriceUnit = 1
    BpsUnit = 2
    Users = {alice, mm1}
    MMs = {mm1}
    Settler = Settler
    Pool = Pool
    Treasury = Treasury
    NoOToken = NoOToken
    NoAsset = NoAsset
    NoMM = NoMM
    DirectCallers = {}
    MaxVaults = 2
    MaxTime = 2
    Amounts = {1, 2}
    Deposits = {2, 3}
    Prices = {2, 4}
    InitialTokens <- MCMixedWallet
    Quotes <- MCBothQuotes
    MaxNonce = 0
    EscapeDelay = 1
    ProtocolFeeBps = 1
    SwapCosts = {1}
INVARIANTS PoolSolvent SettlerKeepsNothing
PROPERTIES FullPauseOnlyWithdraws
