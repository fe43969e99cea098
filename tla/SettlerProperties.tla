------------------------- MODULE SettlerProperties -------------------------
(***************************************************************************)
(* What the contracts of module BatchSettler must guarantee: conservation  *)
(* of oTokens, custody of the market makers' oTokens, solvency of the      *)
(* MarginPool, and what a closed vault, a dead quote and a pause forbid.   *)
(***************************************************************************)
EXTENDS BatchSettler, FiniteSetsExt

AllVaults == Users \X VaultIds
VaultAt(p) == vaults[p[1]][p[2]]
IsSettled(p) == vaultSettled[p[1]][p[2]]
MakerOf(p) == vaultMM[p[1]][p[2]]

Supply(o) == SumFunctionOnSet(oTokenBalance[o], OTokenHolders)

VaultsWriting(o) == {p \in AllVaults : VaultAt(p).shortOtoken = o}
ShortTotal(S) == SumFunctionOnSet([p \in AllVaults |-> VaultAt(p).shortAmount], S)

LedgerTotal(o) == SumFunctionOnSet([m \in MMs |-> mmOTokenBalance[m][o]], MMs)
Fills(mm, o) == SumFunctionOnSet([q \in Quotes |-> quoteState[q].filled],
                                 {q \in Quotes : q.mm = mm /\ q.oToken = o})

-----------------------------------------------------------------------------
(* Until an option expires its supply is what the open vaults have written: *)
(* minting and the emergency burn (Controller.mintOtoken,                   *)
(* emergencyWithdrawVault) keep the two sides together.                     *)
SupplyMatchesVaults ==
    \A o \in OTokens :
        ~Expired(o) =>
            Supply(o) = ShortTotal({p \in VaultsWriting(o) : ~IsSettled(p)})

(* Every vault that wrote an option still holds the collateral required for *)
(* all of it, in the option's own collateral asset (Controller.mintOtoken   *)
(* measured against every later deposit, mint and settlement).              *)
VaultsCovered ==
    \A p \in AllVaults :
        LET v == VaultAt(p)
        IN  v.shortOtoken # NoOToken =>
                /\ v.collateralAsset = Series[v.shortOtoken].collateralAsset
                /\ v.collateralAmount >= RequiredCollateral(v.shortOtoken, v.shortAmount)

(* The oTokens the settler holds cover what its ledger owes the market      *)
(* makers, up to what was written by closed vaults that no market maker is  *)
(* attributed to: emergencyWithdrawVault burns the settler's oTokens for    *)
(* those without clearing any ledger (the pre-migration branch).            *)
LedgerCustody ==
    \A o \in OTokens :
        LedgerTotal(o) <=
            oTokenBalance[o][Settler]
            + ShortTotal({p \in VaultsWriting(o) : IsSettled(p) /\ MakerOf(p) = NoMM})

(* Until expiry a market maker's ledger is exactly what its quotes filled,  *)
(* less what was burned when vaults attributed to it were withdrawn in an   *)
(* emergency (executeOrder, clearMMBalanceForVault).                        *)
LedgerMatchesFills ==
    \A m \in MMs, o \in OTokens :
        ~Expired(o) =>
            Fills(m, o) = mmOTokenBalance[m][o]
                + ShortTotal({p \in VaultsWriting(o) : IsSettled(p) /\ MakerOf(p) = m})

-----------------------------------------------------------------------------
(* What the MarginPool owes in one asset: to the owners of open vaults what *)
(* settleVault would return, to the holders of priced options what redeem   *)
(* would pay for the whole supply.                                          *)
OwedToOwner(p) ==
    LET v == VaultAt(p)
        priced == v.shortOtoken # NoOToken /\ PriceIsSet(v.shortOtoken)
    IN  IF priced THEN CollateralToReturn(v) ELSE v.collateralAmount

OwedToHolders(o) == IF PriceIsSet(o) THEN PayoutOf(o, Supply(o)) ELSE 0

Liabilities(asset) ==
    SumFunctionOnSet([p \in AllVaults |-> OwedToOwner(p)],
        {p \in AllVaults : ~IsSettled(p) /\ VaultAt(p).collateralAsset = asset})
    + SumFunctionOnSet([o \in OTokens |-> OwedToHolders(o)],
        {o \in OTokens : Series[o].collateralAsset = asset})

\* Vaults whose payout was rounded down: the strike value is not whole.
Inexact(p) ==
    LET v == VaultAt(p)
        s == Series[v.shortOtoken]
    IN  s.isPut /\ (v.shortAmount * s.strikePrice) % PutDivisor[s.collateralAsset] # 0

RoundingLoss(o) ==
    LET n == Cardinality({p \in VaultsWriting(o) : Inexact(p)})
    IN  IF n = 0 THEN 0 ELSE n - 1

(* The MarginPool can pay everything it owes in every asset, up to one unit *)
(* of rounding for each further vault of a series whose payout was floored: *)
(* settleVault floors per vault, redeem floors once per redemption.         *)
PoolSolvent ==
    \A a \in Assets :
        Liabilities(a) <=
            tokenBalance[a][Pool]
            + SumFunctionOnSet([o \in OTokens |-> RoundingLoss(o)],
                               {o \in OTokens : Series[o].collateralAsset = a})

(* The settler keeps no ERC-20 token between transactions: payouts, swap    *)
(* surplus and loan all leave it (BatchSettler._redeemAndSwap, _redeemForMM,*)
(* mmSelfRedeem, _redeemSingle).                                            *)
SettlerKeepsNothing == \A a \in Assets : tokenBalance[a][Settler] = 0

-----------------------------------------------------------------------------
(* A closed vault is closed for good: nothing is deposited into it, written *)
(* from it or paid for it again (vaultSettled in Controller).               *)
ClosedVaultsFrozen ==
    [][\A p \in AllVaults :
           IsSettled(p) => IsSettled(p)' /\ VaultAt(p)' = VaultAt(p)]_vars

(* Once a market maker cancelled a quote or moved its nonce past it, also   *)
(* by being removed from the whitelist and admitted again, no step fills it *)
(* or revives it (quoteState and makerNonce in BatchSettler).               *)
DeadQuote(q) == quoteState[q].cancelled \/ q.makerNonce < makerNonce[q.mm]

DeadQuotesStayDead ==
    [][\A q \in Quotes :
           DeadQuote(q) => DeadQuote(q)' /\ quoteState'[q].filled = quoteState[q].filled]_vars

(* While the system is fully paused the pool pays out exactly the whole     *)
(* collateral of the vaults closed in the step, so neither settlement nor   *)
(* redemption happens and nobody pays in (notFullyPaused in Controller).    *)
FullPauseOnlyWithdraws ==
    [][systemFullyPaused =>
           \A a \in Assets :
               tokenBalance[a][Pool] - tokenBalance'[a][Pool] =
                   SumFunctionOnSet([p \in AllVaults |-> VaultAt(p).collateralAmount],
                       {p \in AllVaults : /\ IsSettled(p)' /\ ~IsSettled(p)
                                          /\ VaultAt(p).collateralAsset = a})]_vars

(* While the system is partially paused no position grows: no oToken comes  *)
(* into being, nothing is paid into the pool and no quote is filled         *)
(* (notPartiallyPaused in Controller, reached from executeOrder too).       *)
PartialPauseBlocksGrowth ==
    [][systemPartiallyPaused =>
           /\ \A o \in OTokens : Supply(o)' <= Supply(o)
           /\ \A a \in Assets : tokenBalance'[a][Pool] <= tokenBalance[a][Pool]
           /\ \A q \in Quotes : quoteState'[q].filled = quoteState[q].filled]_vars
=============================================================================
