----------------------------- MODULE Controller -----------------------------
(***************************************************************************)
(* The Controller contract with the contracts it commands: the oTokens'    *)
(* ERC-20 balances, the MarginPool's custody, the Oracle's expiry prices   *)
(* and the Whitelist.  A transaction is atomic, so each external function  *)
(* is one action; a reverted transaction changes nothing, so every require *)
(* is a guard.  The account that sends the transaction is a parameter.     *)
(*                                                                         *)
(* Functions that the BatchSettler calls inside its own transactions are   *)
(* split into the guard and the effect on each piece of state, so that the *)
(* module BatchSettler can compose them into one action.                   *)
(*                                                                         *)
(* Bounds: MaxVaults per account, MaxTime for block.timestamp, the sets    *)
(* Amounts and Deposits for arguments, and DirectCallers, the accounts     *)
(* that call the Controller themselves and not through the BatchSettler.   *)
(***************************************************************************)
EXTENDS OptionMath

CONSTANTS
    Users,          \* externally owned accounts
    Settler,        \* the BatchSettler contract
    Pool,           \* the MarginPool contract
    Treasury,       \* receives protocol fees
    NoOToken,       \* address(0) as an oToken
    NoAsset,        \* address(0) as an asset
    DirectCallers,
    MaxVaults,
    MaxTime,
    Amounts,        \* oToken amounts passed to mint, redeem, execute
    Deposits,       \* collateral amounts passed to deposit, execute
    Prices,         \* expiry prices that pass the Oracle's deviation check
    InitialTokens   \* the tokens each account starts with

VaultIds == 1 .. MaxVaults
Accounts == Users \cup {Settler, Pool, Treasury}
OTokenHolders == Users \cup {Settler}

ASSUME ControllerAssumption ==
    /\ MaxVaults \in Nat
    /\ MaxTime \in Nat
    /\ DirectCallers \subseteq Users
    /\ {Settler, Pool, Treasury} \cap Users = {}
    /\ Settler # Pool /\ Pool # Treasury /\ Settler # Treasury
    /\ Amounts \subseteq Nat
    /\ Deposits \subseteq Nat
    /\ Prices \subseteq Nat \ {0}
    /\ NoOToken \notin OTokens
    /\ NoAsset \notin Assets
    /\ InitialTokens \in [Assets -> [Users -> Nat]]

VARIABLES
    now,                    \* block.timestamp
    systemPartiallyPaused,
    systemFullyPaused,
    vaultCount,             \* account |-> number of vaults opened
    vaults,                 \* account |-> vault id |-> MarginVault.Vault
    vaultSettled,           \* account |-> vault id |-> BOOLEAN
    isWhitelistedOToken,    \* the oTokens created and whitelisted
    oTokenBalance,          \* oToken |-> account |-> ERC-20 balance
    expiryPrice,            \* asset |-> expiry |-> price, 0 while not set
    tokenBalance            \* asset |-> account |-> ERC-20 balance

pauseVars == <<systemPartiallyPaused, systemFullyPaused>>
vaultVars == <<vaultCount, vaults, vaultSettled>>
controllerVars == <<now, pauseVars, vaultVars, isWhitelistedOToken,
                    oTokenBalance, expiryPrice, tokenBalance>>

Expiries == {Series[o].expiry : o \in OTokens}

Vault ==
    [shortOtoken: OTokens \cup {NoOToken}, collateralAsset: Assets \cup {NoAsset},
     shortAmount: Nat, collateralAmount: Nat]

EmptyVault ==
    [shortOtoken |-> NoOToken, collateralAsset |-> NoAsset,
     shortAmount |-> 0, collateralAmount |-> 0]

ControllerTypeOK ==
    /\ now \in 0 .. MaxTime
    /\ systemPartiallyPaused \in BOOLEAN
    /\ systemFullyPaused \in BOOLEAN
    /\ vaultCount \in [Users -> 0 .. MaxVaults]
    /\ vaults \in [Users -> [VaultIds -> Vault]]
    /\ vaultSettled \in [Users -> [VaultIds -> BOOLEAN]]
    /\ isWhitelistedOToken \in [OTokens -> BOOLEAN]
    /\ oTokenBalance \in [OTokens -> [OTokenHolders -> Nat]]
    /\ expiryPrice \in [Assets -> [Expiries -> Nat]]
    /\ tokenBalance \in [Assets -> [Accounts -> Nat]]

ControllerInit ==
    /\ now = 0
    /\ systemPartiallyPaused = FALSE
    /\ systemFullyPaused = FALSE
    /\ vaultCount = [u \in Users |-> 0]
    /\ vaults = [u \in Users |-> [v \in VaultIds |-> EmptyVault]]
    /\ vaultSettled = [u \in Users |-> [v \in VaultIds |-> FALSE]]
    /\ isWhitelistedOToken = [o \in OTokens |-> FALSE]
    /\ oTokenBalance = [o \in OTokens |-> [h \in OTokenHolders |-> 0]]
    /\ expiryPrice = [a \in Assets |-> [e \in Expiries |-> 0]]
    /\ tokenBalance = [a \in Assets |-> [h \in Accounts |->
                           IF h \in Users THEN InitialTokens[a][h] ELSE 0]]

-----------------------------------------------------------------------------
(* Time, token movements and lookups shared by the operations.             *)

Tick ==
    /\ now < MaxTime
    /\ now' = now + 1
    /\ UNCHANGED <<pauseVars, vaultVars, isWhitelistedOToken, oTokenBalance,
                   expiryPrice, tokenBalance>>

Moved(balance, asset, from, to, amount) ==
    LET taken == [balance EXCEPT ![asset][from] = @ - amount]
    IN  [taken EXCEPT ![asset][to] = @ + amount]

Expired(o) == now >= Series[o].expiry
PriceOf(o) == expiryPrice[Series[o].underlying][Series[o].expiry]
PriceIsSet(o) == PriceOf(o) # 0
PayoutOf(o, amount) == CalculatePayout(o, amount, PriceOf(o))

\* Controller._getVault finds the vault and it has not been settled.
IsOpenIgnoringSettled(owner, id) == id \in 1 .. vaultCount[owner]

IsOpen(owner, id) == id \in 1 .. vaultCount[owner] /\ ~vaultSettled[owner][id]

NotPausedIgnoringPartial == ~systemFullyPaused

NotPaused == ~systemPartiallyPaused /\ ~systemFullyPaused

-----------------------------------------------------------------------------
(* Vault operations.                                                       *)

OpenVault(sender) ==
    /\ NotPaused
    /\ vaultCount[sender] < MaxVaults
    /\ vaultCount' = [vaultCount EXCEPT ![sender] = @ + 1]
    /\ UNCHANGED <<now, pauseVars, vaults, vaultSettled, isWhitelistedOToken,
                   oTokenBalance, expiryPrice, tokenBalance>>

DepositAllowed(vault, asset) == vault.collateralAsset \in {NoAsset, asset}

Deposited(vault, asset, amount) ==
    [shortOtoken |-> vault.shortOtoken, collateralAsset |-> asset,
     shortAmount |-> vault.shortAmount,
     collateralAmount |-> vault.collateralAmount + amount]

DepositCollateral(sender, id, asset, amount) ==
    /\ NotPaused
    /\ IsOpen(sender, id)
    /\ DepositAllowed(vaults[sender][id], asset)
    /\ tokenBalance[asset][sender] >= amount
    /\ vaults' = [vaults EXCEPT ![sender][id] = Deposited(@, asset, amount)]
    /\ tokenBalance' = Moved(tokenBalance, asset, sender, Pool, amount)
    /\ UNCHANGED <<now, pauseVars, vaultCount, vaultSettled, isWhitelistedOToken,
                   oTokenBalance, expiryPrice>>

MintAllowedOnNewAmount(vault, o, amount) ==
    /\ vault.shortOtoken \in {NoOToken, o}
    /\ isWhitelistedOToken[o]
    /\ ~Expired(o)
    /\ vault.collateralAsset = Series[o].collateralAsset
    /\ RequiredCollateralDefined(o, amount)
    /\ vault.collateralAmount >= RequiredCollateral(o, amount)

MintAllowed(vault, o, amount) ==
    /\ vault.shortOtoken \in {NoOToken, o}
    /\ isWhitelistedOToken[o]
    /\ ~Expired(o)
    /\ vault.collateralAsset = Series[o].collateralAsset
    /\ RequiredCollateralDefined(o, vault.shortAmount + amount)
    /\ vault.collateralAmount >= RequiredCollateral(o, vault.shortAmount + amount)

MintedReplacing(vault, o, amount) ==
    [vault EXCEPT !.shortOtoken = o, !.shortAmount = amount]

Minted(vault, o, amount) ==
    [shortOtoken |-> o, collateralAsset |-> vault.collateralAsset,
     shortAmount |-> vault.shortAmount + amount,
     collateralAmount |-> vault.collateralAmount]

MintOtoken(sender, id, o, amount, to) ==
    /\ NotPaused
    /\ IsOpen(sender, id)
    /\ MintAllowed(vaults[sender][id], o, amount)
    /\ vaults' = [vaults EXCEPT ![sender][id] = Minted(@, o, amount)]
    /\ oTokenBalance' = [oTokenBalance EXCEPT ![o][to] = @ + amount]
    /\ UNCHANGED <<now, pauseVars, vaultCount, vaultSettled, isWhitelistedOToken,
                   expiryPrice, tokenBalance>>

\* What settleVault returns to the owner: the collateral less the payout.
CollateralToReturn(vault) ==
    LET payout == PayoutOf(vault.shortOtoken, vault.shortAmount)
    IN  IF payout >= vault.collateralAmount THEN 0
        ELSE vault.collateralAmount - payout

\* A vault that never minted has shortOtoken = address(0); the call on it reverts.
SettleVault(owner, id) ==
    LET vault == vaults[owner][id]
    IN  /\ ~systemFullyPaused
        /\ IsOpen(owner, id)
        /\ vault.shortOtoken # NoOToken
        /\ Expired(vault.shortOtoken)
        /\ PriceIsSet(vault.shortOtoken)
        /\ tokenBalance[vault.collateralAsset][Pool] >= CollateralToReturn(vault)
        /\ vaultSettled' = [vaultSettled EXCEPT ![owner][id] = TRUE]
        /\ tokenBalance' = Moved(tokenBalance, vault.collateralAsset, Pool, owner,
                                 CollateralToReturn(vault))
        /\ UNCHANGED <<now, pauseVars, vaultCount, vaults, isWhitelistedOToken,
                       oTokenBalance, expiryPrice>>

RedeemAllowedWhenPaused(o, amount, holder) ==
    /\ amount > 0
    /\ isWhitelistedOToken[o]
    /\ Expired(o)
    /\ PriceIsSet(o)
    /\ oTokenBalance[o][holder] >= amount
    /\ tokenBalance[Series[o].collateralAsset][Pool] >= PayoutOf(o, amount)

RedeemAllowed(o, amount, holder) ==
    /\ ~systemFullyPaused
    /\ amount > 0
    /\ isWhitelistedOToken[o]
    /\ Expired(o)
    /\ PriceIsSet(o)
    /\ oTokenBalance[o][holder] >= amount
    /\ tokenBalance[Series[o].collateralAsset][Pool] >= PayoutOf(o, amount)

Burned(o, amount, holder) == [oTokenBalance EXCEPT ![o][holder] = @ - amount]

\* MarginPool.transferToUser of the payout, applied to the given balances.
PaidOut(balance, o, amount, holder) ==
    Moved(balance, Series[o].collateralAsset, Pool, holder, PayoutOf(o, amount))

Redeem(sender, o, amount) ==
    /\ RedeemAllowed(o, amount, sender)
    /\ oTokenBalance' = Burned(o, amount, sender)
    /\ tokenBalance' = PaidOut(tokenBalance, o, amount, sender)
    /\ UNCHANGED <<now, pauseVars, vaultVars, isWhitelistedOToken, expiryPrice>>

-----------------------------------------------------------------------------
(* Administration of the Controller, Oracle, OTokenFactory; ERC-20 oTokens. *)

SetSystemPartiallyPaused(paused) ==
    /\ systemPartiallyPaused' = paused
    /\ UNCHANGED <<now, systemFullyPaused, vaultVars, isWhitelistedOToken,
                   oTokenBalance, expiryPrice, tokenBalance>>

SetSystemFullyPaused(paused) ==
    /\ systemFullyPaused' = paused
    /\ UNCHANGED <<now, systemPartiallyPaused, vaultVars, isWhitelistedOToken,
                   oTokenBalance, expiryPrice, tokenBalance>>

CreateOToken(o) ==
    /\ ~isWhitelistedOToken[o]
    /\ ~Expired(o)
    /\ isWhitelistedOToken' = [isWhitelistedOToken EXCEPT ![o] = TRUE]
    /\ UNCHANGED <<now, pauseVars, vaultVars, oTokenBalance, expiryPrice, tokenBalance>>

SetExpiryPrice(asset, expiry, price) ==
    /\ price # 0
    /\ now >= expiry
    /\ expiryPrice[asset][expiry] = 0
    /\ expiryPrice' = [expiryPrice EXCEPT ![asset][expiry] = price]
    /\ UNCHANGED <<now, pauseVars, vaultVars, isWhitelistedOToken, oTokenBalance,
                   tokenBalance>>

TransferOToken(o, from, to, amount) ==
    /\ oTokenBalance[o][from] >= amount
    /\ oTokenBalance' = Moved(oTokenBalance, o, from, to, amount)
    /\ UNCHANGED <<now, pauseVars, vaultVars, isWhitelistedOToken, expiryPrice,
                   tokenBalance>>

=============================================================================
