SPECIFICATION Spec
CONSTANTS
    usd = usd
    alice = alice
    eth = eth
    put = put
    call = call
    mm1 = mm1
    mm2 = mm2
    Assets = {usd, eth}
    OTokens = {put}
    Series <- MCSeries
    PutDivisor <- MCPutDivisor
    CallUnit <- MCCallUnit
    PriceUnit = 1
    BpsUnit = 2
    Users = {alice, mm1, mm2}
    MMs = {mm1, mm2}
    Settler = Settler
    Pool = Pool
    Treasury = Treasury
    NoOToken = NoOToken
    NoAsset = NoAsset
    NoMM = NoMM
    DirectCallers = {}
    MaxVaults = 2
    MaxTime = 1
    Amounts = {1}
    Deposits = {2}
    Prices = {}
    InitialTokens <- MCSmallWallet
    Quotes <- MCRivalQuotes
    MaxNonce = 2
    EscapeDelay = 1
    ProtocolFeeBps = 1
    SwapCosts = {}
INVARIANTS LedgerMatchesFills
PROPERTIES DeadQuotesStayDead PartialPauseBlocksGrowth
