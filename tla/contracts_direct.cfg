SPECIFICATION Spec
CONSTANTS
    usd = usd
    alice = alice
    eth = eth
    put = put
    call = call
    mm1 = mm1
    mm2 = mm2
    Assets = {usd, eth}
    OTokens = {put}
    Series <- MCSeries
    PutDivisor <- MCPutDivisor
    CallUnit <- MCCallUnit
    PriceUnit = 1
    BpsUnit = 2
    Users = {alice, mm1}
    MMs = {mm1}
    Settler = Settler
    Pool = Pool
    Treasury = Treasury
    NoOToken = NoOToken
    NoAsset = NoAsset
    NoMM = NoMM
    DirectCallers = {alice}
    MaxVaults = 2
    MaxTime = 1
    Amounts = {1, 2}
    Deposits = {2}
    Prices = {2}
    InitialTokens <- MCSmallWallet
    Quotes <- MCPutQuotes
    MaxNonce = 0
    EscapeDelay = 1
    ProtocolFeeBps = 1
    SwapCosts = {}
INVARIANTS VaultsCovered LedgerCustody SupplyMatchesVaults
PROPERTIES ClosedVaultsFrozen
