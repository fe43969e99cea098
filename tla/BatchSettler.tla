---------------------------- MODULE BatchSettler ----------------------------
(***************************************************************************)
(* The BatchSettler contract on top of the Controller: signed quotes and   *)
(* their cancellation, order execution, the per-market-maker ledger of     *)
(* custodied oTokens, settlement, redemption, physical delivery through a  *)
(* flash loan, and the Controller's emergencyWithdrawVault, which reads    *)
(* and clears that ledger.  With it the specification of the whole set of  *)
(* contracts: Spec.                                                        *)
(*                                                                         *)
(* A quote is a record with the fields the market maker signs and the      *)
(* signer; distinct records have distinct digests, and quoteState is keyed *)
(* by the quote.  Each iteration of a batch runs in its own try/catch, so  *)
(* a batch does what its successful iterations do one after the other at   *)
(* the same timestamp: an iteration is an action.                          *)
(*                                                                         *)
(* Bounds: Quotes, the quotes the market makers ever sign, MaxNonce, the   *)
(* largest makerNonce, SwapCosts, what the DEX may ask for, and the sets   *)
(* of module Controller.                                                   *)
(***************************************************************************)
EXTENDS Controller, FiniteSets

CONSTANTS
    MMs,            \* market makers, accounts of Users
    NoMM,           \* address(0) as a market maker
    Quotes,         \* the signed quotes in circulation
    MaxNonce,
    EscapeDelay,    \* escapeDelay, 0 while not set
    ProtocolFeeBps,
    SwapCosts       \* collateral a swap uses, or contra asset it leaves over

QuoteFields ==
    [mm: MMs, oToken: OTokens, bidPrice: Nat, deadline: Nat, quoteId: Nat,
     maxAmount: Nat, makerNonce: Nat]

ASSUME SettlerAssumption ==
    /\ MMs \subseteq Users
    /\ NoMM \notin MMs
    /\ Quotes \subseteq QuoteFields
    /\ MaxNonce \in Nat
    /\ EscapeDelay \in Nat
    /\ ProtocolFeeBps \in 0 .. BpsUnit
    /\ SwapCosts \subseteq Nat

\* Addresses, oTokens and digests have a fixed number of bits.
ASSUME FiniteAssumption == IsFiniteSet(Users) /\ IsFiniteSet(OTokens) /\ IsFiniteSet(Quotes)

VARIABLES
    quoteState,         \* quote |-> [filled, cancelled]
    makerNonce,         \* market maker |-> nonce its quotes must carry
    whitelistedMMs,     \* market maker |-> BOOLEAN
    mmOTokenBalance,    \* market maker |-> oToken |-> custodied amount
    vaultMM             \* account |-> vault id |-> market maker, NoMM if none

quoteVars == <<quoteState, makerNonce, whitelistedMMs>>
ledgerVars == <<mmOTokenBalance, vaultMM>>
settlerVars == <<quoteVars, ledgerVars>>
vars == <<controllerVars, settlerVars>>

QuoteState == [filled: Nat, cancelled: BOOLEAN]

SettlerTypeOK ==
    /\ quoteState \in [Quotes -> QuoteState]
    /\ makerNonce \in [MMs -> Nat]
    /\ whitelistedMMs \in [MMs -> BOOLEAN]
    /\ mmOTokenBalance \in [MMs -> [OTokens -> Nat]]
    /\ vaultMM \in [Users -> [VaultIds -> MMs \cup {NoMM}]]

\* The type invariant of the contracts.
TypeOK == ControllerTypeOK /\ SettlerTypeOK

Init ==
    /\ ControllerInit
    /\ quoteState = [q \in Quotes |-> [filled |-> 0, cancelled |-> FALSE]]
    /\ makerNonce = [m \in MMs |-> 0]
    /\ whitelistedMMs = [m \in MMs |-> FALSE]
    /\ mmOTokenBalance = [m \in MMs |-> [o \in OTokens |-> 0]]
    /\ vaultMM = [u \in Users |-> [v \in VaultIds |-> NoMM]]

-----------------------------------------------------------------------------
(* Market makers: admission and cancellation of quotes.                     *)

BumpedNonce(mm) == [makerNonce EXCEPT ![mm] = @ + 1]

SetWhitelistedMM(mm, status) ==
    /\ whitelistedMMs' = [whitelistedMMs EXCEPT ![mm] = status]
    /\ \/ status /\ UNCHANGED makerNonce
       \/ ~status /\ makerNonce[mm] < MaxNonce /\ makerNonce' = BumpedNonce(mm)
    /\ UNCHANGED <<controllerVars, quoteState, ledgerVars>>

\* cancelQuote is a batch of one that reverts when there is nothing to cancel.
CancelQuotes(mm, batch) ==
    /\ \A q \in batch : q.mm = mm
    /\ quoteState' = [q \in Quotes |->
           IF q \in batch THEN [quoteState[q] EXCEPT !.cancelled = TRUE]
           ELSE quoteState[q]]
    /\ UNCHANGED <<controllerVars, makerNonce, whitelistedMMs, ledgerVars>>

IncrementMakerNonce(mm) ==
    /\ makerNonce[mm] < MaxNonce
    /\ makerNonce' = BumpedNonce(mm)
    /\ UNCHANGED <<controllerVars, quoteState, whitelistedMMs, ledgerVars>>

-----------------------------------------------------------------------------
(* executeOrder: consume the quote, open, fund and write a vault for the    *)
(* user, credit the market maker's ledger, pay the premium.                 *)

QuoteLiveAnyNonce(q, amount) ==
    /\ whitelistedMMs[q.mm]
    /\ now <= q.deadline
    /\ ~quoteState[q].cancelled
    /\ quoteState[q].filled + amount <= q.maxAmount

QuoteLive(q, amount) ==
    /\ whitelistedMMs[q.mm]
    /\ now <= q.deadline
    /\ q.makerNonce = makerNonce[q.mm]
    /\ ~quoteState[q].cancelled
    /\ quoteState[q].filled + amount <= q.maxAmount

ExecuteOrder(user, q, amount, collateral) ==
    LET o         == q.oToken
        asset     == Series[o].collateralAsset
        payment   == Series[o].strikeAsset
        id        == vaultCount[user] + 1
        funded    == Deposited(vaults[user][id], asset, collateral)
        premium   == Premium(amount, q.bidPrice)
        fee       == ProtocolFee(premium, ProtocolFeeBps)
        deposited == Moved(tokenBalance, asset, user, Pool, collateral)
        paid      == Moved(deposited, payment, q.mm, user, premium - fee)
    IN  /\ amount > 0
        /\ NotPaused
        /\ QuoteLive(q, amount)
        /\ (premium = 0) => (q.bidPrice = 0)
        /\ vaultCount[user] < MaxVaults
        /\ ~vaultSettled[user][id]
        /\ DepositAllowed(vaults[user][id], asset)
        /\ tokenBalance[asset][user] >= collateral
        /\ MintAllowed(funded, o, amount)
        /\ deposited[payment][q.mm] >= premium - fee
        /\ paid[payment][q.mm] >= fee
        /\ quoteState' = [quoteState EXCEPT ![q].filled = @ + amount]
        /\ vaultCount' = [vaultCount EXCEPT ![user] = id]
        /\ vaultMM' = [vaultMM EXCEPT ![user][id] = q.mm]
        /\ vaults' = [vaults EXCEPT ![user][id] = Minted(funded, o, amount)]
        /\ oTokenBalance' = [oTokenBalance EXCEPT ![o][Settler] = @ + amount]
        /\ mmOTokenBalance' = [mmOTokenBalance EXCEPT ![q.mm][o] = @ + amount]
        /\ tokenBalance' = Moved(paid, payment, q.mm, Treasury, fee)
        /\ UNCHANGED <<now, pauseVars, vaultSettled, isWhitelistedOToken,
                       expiryPrice, makerNonce, whitelistedMMs>>

-----------------------------------------------------------------------------
(* Settlement and redemption after expiry.                                  *)

\* One iteration of batchSettleVaults, or the owner's own settleVault.
BatchSettleVault(owner, id) ==
    SettleVault(owner, id) /\ UNCHANGED settlerVars

\* One iteration of batchRedeem: the caller's own oTokens pass through the
\* settler, and so does the payout.
BatchRedeem(caller, o, amount) ==
    LET asset    == Series[o].collateralAsset
        pulled   == Moved(oTokenBalance, o, caller, Settler, amount)
        redeemed == PaidOut(tokenBalance, o, amount, Settler)
        payout   == redeemed[asset][Settler] - tokenBalance[asset][Settler]
    IN  /\ RedeemAllowed(o, amount, caller)
        /\ oTokenBalance' = [pulled EXCEPT ![o][Settler] = @ - amount]
        /\ tokenBalance' = Moved(redeemed, asset, Settler, caller, payout)
        /\ UNCHANGED <<now, pauseVars, vaultVars, isWhitelistedOToken,
                       expiryPrice, settlerVars>>

\* The settler redeems from the custody of mm: _redeemForMM and mmSelfRedeem.
RedeemFromLedger(mm, o, amount) ==
    LET asset    == Series[o].collateralAsset
        redeemed == PaidOut(tokenBalance, o, amount, Settler)
        payout   == redeemed[asset][Settler] - tokenBalance[asset][Settler]
    IN  /\ mmOTokenBalance[mm][o] >= amount
        /\ RedeemAllowed(o, amount, Settler)
        /\ mmOTokenBalance' = [mmOTokenBalance EXCEPT ![mm][o] = @ - amount]
        /\ oTokenBalance' = Burned(o, amount, Settler)
        /\ tokenBalance' = Moved(redeemed, asset, Settler, mm, payout)
        /\ UNCHANGED <<now, pauseVars, vaultVars, isWhitelistedOToken,
                       expiryPrice, quoteVars, vaultMM>>

OperatorRedeemForMM(mm, o, amount) == RedeemFromLedger(mm, o, amount)

MMSelfRedeem(mm, o, amount) ==
    /\ whitelistedMMs[mm]
    /\ EscapeDelay # 0
    /\ now >= Series[o].expiry + EscapeDelay
    /\ RedeemFromLedger(mm, o, amount)

-----------------------------------------------------------------------------
(* Physical delivery: a flash loan of the contra asset goes to the user,    *)
(* the custodied oTokens are redeemed, the collateral is swapped to repay   *)
(* the loan and the surplus goes to the market maker.  The lender and the   *)
(* DEX are external: x is what the DEX asks for (put) or leaves (call).     *)

SwappedKeepingSurplus(balance, o, mm, received, x) ==
    IF Series[o].isPut
    THEN [balance EXCEPT ![Series[o].collateralAsset][Settler] = @ - x]
    ELSE [balance EXCEPT ![Series[o].collateralAsset][Settler] = @ - received,
                         ![ContraAsset(o)][Settler] = @ + x]

Swapped(balance, o, mm, received, x) ==
    LET asset   == Series[o].collateralAsset
        contra  == ContraAsset(o)
        sold    == IF Series[o].isPut THEN x ELSE received
        paying  == IF Series[o].isPut THEN asset ELSE contra
        surplus == IF Series[o].isPut THEN received - x ELSE x
        bought  == IF Series[o].isPut THEN 0 ELSE x
        spent   == [balance EXCEPT ![asset][Settler] = @ - sold]
        traded  == [spent EXCEPT ![contra][Settler] = @ + bought]
    IN  Moved(traded, paying, Settler, mm, surplus)

PhysicalRedeem(o, user, amount, mm, x) ==
    LET asset     == Series[o].collateralAsset
        delivered == [tokenBalance EXCEPT
                         ![ContraAsset(o)][user] = @ + ContraAmount(o, amount)]
        redeemed  == PaidOut(delivered, o, amount, Settler)
        received  == redeemed[asset][Settler] - delivered[asset][Settler]
    IN  /\ mmOTokenBalance[mm][o] >= amount
        /\ RedeemAllowed(o, amount, Settler)
        /\ InTheMoney(o, PriceOf(o))
        /\ received # 0
        /\ Series[o].isPut => x <= received
        /\ mmOTokenBalance' = [mmOTokenBalance EXCEPT ![mm][o] = @ - amount]
        /\ oTokenBalance' = Burned(o, amount, Settler)
        /\ tokenBalance' = Swapped(redeemed, o, mm, received, x)
        /\ UNCHANGED <<now, pauseVars, vaultVars, isWhitelistedOToken,
                       expiryPrice, quoteVars, vaultMM>>

-----------------------------------------------------------------------------
(* Controller.emergencyWithdrawVault with clearMMBalanceForVault.           *)

MMBalanceNotCleared(owner, id, o, amount) == mmOTokenBalance

WholeMMBalanceCleared(owner, id, o, amount) ==
    [m \in MMs |-> IF m = vaultMM[owner][id] THEN [mmOTokenBalance[m] EXCEPT ![o] = 0]
                   ELSE mmOTokenBalance[m]]

ClearedMMBalance(owner, id, o, amount) ==
    LET mm == vaultMM[owner][id]
    IN  IF mm = NoMM THEN mmOTokenBalance
        ELSE [mmOTokenBalance EXCEPT ![mm][o] = IF amount < @ THEN @ - amount ELSE 0]

EmergencyWithdrawVault(owner, id) ==
    LET vault == vaults[owner][id]
        o     == vault.shortOtoken
        short == vault.shortAmount
        mm    == vaultMM[owner][id]
    IN  /\ systemFullyPaused
        /\ IsOpen(owner, id)
        /\ vault.collateralAmount # 0
        /\ tokenBalance[vault.collateralAsset][Pool] >= vault.collateralAmount
        /\ \/ /\ o = NoOToken \/ short = 0
              /\ UNCHANGED <<oTokenBalance, mmOTokenBalance>>
           \/ /\ o # NoOToken /\ short > 0
              /\ mm # NoMM => mmOTokenBalance[mm][o] >= short
              /\ oTokenBalance[o][Settler] >= short
              /\ oTokenBalance' = Burned(o, short, Settler)
              /\ mmOTokenBalance' = ClearedMMBalance(owner, id, o, short)
        /\ vaultSettled' = [vaultSettled EXCEPT ![owner][id] = TRUE]
        /\ tokenBalance' = Moved(tokenBalance, vault.collateralAsset, Pool, owner,
                                 vault.collateralAmount)
        /\ UNCHANGED <<now, pauseVars, vaultCount, vaults, isWhitelistedOToken,
                       expiryPrice, quoteVars, vaultMM>>

-----------------------------------------------------------------------------
OwnerCall ==
    /\ \/ \E paused \in BOOLEAN : SetSystemPartiallyPaused(paused)
       \/ \E paused \in BOOLEAN : SetSystemFullyPaused(paused)
       \/ \E o \in OTokens : CreateOToken(o)
       \/ \E a \in Assets, e \in Expiries, p \in Prices : SetExpiryPrice(a, e, p)
    /\ UNCHANGED settlerVars

DirectCall(sender) ==
    /\ \/ OpenVault(sender)
       \/ \E id \in VaultIds, a \in Assets, d \in Deposits :
              DepositCollateral(sender, id, a, d)
       \/ \E id \in VaultIds, o \in OTokens, n \in Amounts, to \in OTokenHolders :
              MintOtoken(sender, id, o, n, to)
       \/ \E o \in OTokens, n \in Amounts : Redeem(sender, o, n)
       \/ \E o \in OTokens, n \in Amounts, to \in OTokenHolders \ {sender} :
              TransferOToken(o, sender, to, n)
    /\ UNCHANGED settlerVars

MMCall(mm) ==
    \/ \E status \in BOOLEAN : SetWhitelistedMM(mm, status)
    \/ \E batch \in SUBSET Quotes : CancelQuotes(mm, batch)
    \/ IncrementMakerNonce(mm)
    \/ \E o \in OTokens, n \in Amounts : MMSelfRedeem(mm, o, n)

OperatorCall ==
    \/ \E u \in Users, id \in VaultIds : BatchSettleVault(u, id)
    \/ \E m \in MMs, o \in OTokens, n \in Amounts :
           \/ OperatorRedeemForMM(m, o, n)
           \/ \E u \in Users, x \in SwapCosts : PhysicalRedeem(o, u, n, m, x)

UserCall(user) ==
    \/ \E q \in Quotes, n \in Amounts, d \in Deposits : ExecuteOrder(user, q, n, d)
    \/ \E o \in OTokens, n \in Amounts : BatchRedeem(user, o, n)
    \/ \E id \in VaultIds : EmergencyWithdrawVault(user, id)

Next ==
    \/ Tick /\ UNCHANGED settlerVars
    \/ OwnerCall
    \/ OperatorCall
    \/ \E m \in MMs : MMCall(m)
    \/ \E u \in Users : UserCall(u)
    \/ \E u \in DirectCallers : DirectCall(u)

(* The specification of the contracts: any account may send any transaction *)
(* at any time, so nothing is assumed to be fair.                           *)
Spec == Init /\ [][Next]_vars
=============================================================================
