--------------------------- MODULE SettlerProofs ---------------------------
(***************************************************************************)
(* Theorems about the contracts, for every number of accounts, series,     *)
(* quotes and vaults and every size of amounts.                            *)
(***************************************************************************)
EXTENDS SettlerProperties, TLAPS

-----------------------------------------------------------------------------
(* Arithmetic: amounts stay natural numbers, and a payout never exceeds the *)
(* collateral that was required for the same amount.                        *)

LEMMA DivNat ==
    ASSUME NEW a \in Nat, NEW d \in Nat \ {0}
    PROVE  a \div d \in Nat
  OBVIOUS

LEMMA MulNat ==
    ASSUME NEW a \in Nat, NEW b \in Nat
    PROVE  a * b \in Nat
  OBVIOUS

LEMMA SeriesType ==
    ASSUME NEW o \in OTokens
    PROVE  /\ Series[o].underlying \in Assets
           /\ Series[o].strikeAsset \in Assets
           /\ Series[o].collateralAsset \in Assets
           /\ Series[o].strikePrice \in Nat
           /\ Series[o].expiry \in Nat
           /\ Series[o].expiry \in Expiries
           /\ Series[o].isPut \in BOOLEAN
           /\ ContraAsset(o) \in Assets
  BY SeriesAssumption DEF SeriesFields, Expiries, ContraAsset

LEMMA StrikeValueType ==
    ASSUME NEW o \in OTokens, NEW n \in Nat, NEW a \in Assets
    PROVE  StrikeValue(o, n, a) \in Nat
<1>1. n * Series[o].strikePrice \in Nat
  BY SeriesType, MulNat
<1>2. PutDivisor[a] \in Nat \ {0}
  BY UnitsAssumption
<1>3. QED
  BY <1>1, <1>2, DivNat DEF StrikeValue

LEMMA FullAmountType ==
    ASSUME NEW o \in OTokens, NEW n \in Nat
    PROVE  FullAmount(o, n) \in Nat
<1>1. StrikeValue(o, n, Series[o].collateralAsset) \in Nat
  BY SeriesType, StrikeValueType
<1>2. n * CallUnit[Series[o].collateralAsset] \in Nat
  BY SeriesType, UnitsAssumption, MulNat
<1>3. QED
  BY <1>1, <1>2 DEF FullAmount

LEMMA ContraAmountType ==
    ASSUME NEW o \in OTokens, NEW n \in Nat
    PROVE  ContraAmount(o, n) \in Nat
<1>1. StrikeValue(o, n, ContraAsset(o)) \in Nat
  BY SeriesType, StrikeValueType
<1>2. n * CallUnit[ContraAsset(o)] \in Nat
  BY SeriesType, UnitsAssumption, MulNat
<1>3. QED
  BY <1>1, <1>2 DEF ContraAmount

(* What an option pays is never more than what writing it required, at any *)
(* expiry price: _calculatePayout against _getRequiredCollateral.          *)
THEOREM PayoutWithinCollateral ==
    ASSUME NEW o \in OTokens, NEW n \in Nat, NEW price \in Nat
    PROVE  /\ CalculatePayout(o, n, price) \in Nat
           /\ CalculatePayout(o, n, price) <= RequiredCollateral(o, n)
  BY FullAmountType DEF CalculatePayout, RequiredCollateral

LEMMA PremiumType ==
    ASSUME NEW n \in Nat, NEW bid \in Nat
    PROVE  /\ Premium(n, bid) \in Nat
           /\ ProtocolFee(Premium(n, bid), ProtocolFeeBps) \in Nat
           /\ ProtocolFee(Premium(n, bid), ProtocolFeeBps) <= Premium(n, bid)
<1>1. Premium(n, bid) \in Nat
  BY UnitsAssumption, MulNat, DivNat DEF Premium
<1>2. ASSUME NEW p \in Nat
      PROVE  /\ ProtocolFee(p, ProtocolFeeBps) \in Nat
             /\ ProtocolFee(p, ProtocolFeeBps) <= p
  <2>1. ProtocolFeeBps \in Nat /\ BpsUnit \in Nat \ {0} /\ ProtocolFeeBps <= BpsUnit
    BY SettlerAssumption, UnitsAssumption
  <2>2. p * ProtocolFeeBps \in Nat /\ p * BpsUnit \in Nat
    BY <2>1, MulNat
  <2>3. p * ProtocolFeeBps <= p * BpsUnit
    BY <2>1
  <2>4. ASSUME NEW x \in Nat, x <= p * BpsUnit
        PROVE  x \div BpsUnit \in Nat /\ x \div BpsUnit <= p
    BY <2>1, <2>4
  <2>5. QED
    BY <2>2, <2>3, <2>4 DEF ProtocolFee
<1>3. QED
  BY <1>1, <1>2

-----------------------------------------------------------------------------
(* Type correctness.  A movement of tokens keeps balances natural when its  *)
(* source holds the amount; each action contributes one step.               *)

LEMMA MovedType ==
    ASSUME NEW A, NEW H, NEW b \in [A -> [H -> Nat]], NEW a \in A,
           NEW from \in H, NEW to \in H, NEW n \in Nat, b[a][from] >= n
    PROVE  Moved(b, a, from, to, n) \in [A -> [H -> Nat]]
  BY DEF Moved

LEMMA TakenType ==
    ASSUME NEW A, NEW H, NEW b \in [A -> [H -> Nat]], NEW a \in A,
           NEW h \in H, NEW n \in Nat, b[a][h] >= n
    PROVE  [b EXCEPT ![a][h] = @ - n] \in [A -> [H -> Nat]]
  OBVIOUS

LEMMA HolderTypes ==
    /\ Settler \in Accounts /\ Pool \in Accounts /\ Treasury \in Accounts
    /\ Settler \in OTokenHolders
    /\ \A u \in Users : u \in Accounts /\ u \in OTokenHolders /\ u # Settler /\ u # Pool
    /\ \A m \in MMs : m \in Users
    /\ Settler # Pool
  BY ControllerAssumption, SettlerAssumption DEF Accounts, OTokenHolders

LEMMA PriceType ==
    ASSUME TypeOK, NEW o \in OTokens
    PROVE  PriceOf(o) \in Nat
  BY SeriesType DEF PriceOf, TypeOK, ControllerTypeOK

LEMMA PayoutType ==
    ASSUME TypeOK, NEW o \in OTokens, NEW n \in Nat
    PROVE  PayoutOf(o, n) \in Nat
  BY PriceType, PayoutWithinCollateral DEF PayoutOf

LEMMA VaultType ==
    ASSUME TypeOK, NEW u \in Users, NEW id \in VaultIds
    PROVE  /\ vaults[u][id] \in Vault
           /\ vaults[u][id].shortOtoken \in OTokens \cup {NoOToken}
           /\ vaults[u][id].collateralAsset \in Assets \cup {NoAsset}
           /\ vaults[u][id].shortAmount \in Nat
           /\ vaults[u][id].collateralAmount \in Nat
           /\ vaultSettled[u][id] \in BOOLEAN
           /\ vaultMM[u][id] \in MMs \cup {NoMM}
  BY DEF TypeOK, ControllerTypeOK, SettlerTypeOK, Vault

LEMMA OpenIsVaultId ==
    ASSUME TypeOK, NEW u \in Users, NEW id, IsOpen(u, id)
    PROVE  id \in VaultIds
  BY ControllerAssumption DEF IsOpen, VaultIds, TypeOK, ControllerTypeOK

LEMMA DepositedType ==
    ASSUME NEW v \in Vault, NEW a \in Assets, NEW n \in Nat
    PROVE  Deposited(v, a, n) \in Vault
  BY DEF Deposited, Vault

LEMMA MintedType ==
    ASSUME NEW v \in Vault, NEW o \in OTokens, NEW n \in Nat
    PROVE  Minted(v, o, n) \in Vault
  BY DEF Minted, Vault

LEMMA PaidOutType ==
    ASSUME TypeOK, NEW b \in [Assets -> [Accounts -> Nat]], NEW o \in OTokens,
           NEW n \in Nat, NEW h \in Accounts,
           b[Series[o].collateralAsset][Pool] >= PayoutOf(o, n)
    PROVE  PaidOut(b, o, n, h) \in [Assets -> [Accounts -> Nat]]
  BY SeriesType, PayoutType, MovedType, HolderTypes DEF PaidOut

(* A redemption into the settler adds the payout to what the settler held.  *)
LEMMA ReceivedIsPayout ==
    ASSUME TypeOK, NEW b \in [Assets -> [Accounts -> Nat]], NEW o \in OTokens,
           NEW n \in Nat
    PROVE  PaidOut(b, o, n, Settler)[Series[o].collateralAsset][Settler]
               = b[Series[o].collateralAsset][Settler] + PayoutOf(o, n)
  BY SeriesType, PayoutType, HolderTypes DEF PaidOut, Moved

LEMMA BurnedType ==
    ASSUME TypeOK, NEW o \in OTokens, NEW n \in Nat, NEW h \in OTokenHolders,
           oTokenBalance[o][h] >= n
    PROVE  Burned(o, n, h) \in [OTokens -> [OTokenHolders -> Nat]]
  BY DEF Burned, TypeOK, ControllerTypeOK

-----------------------------------------------------------------------------
LEMMA InitType == Init => TypeOK
<1> SUFFICES ASSUME Init
             PROVE  TypeOK
  OBVIOUS
<1>1. EmptyVault \in Vault
  BY DEF EmptyVault, Vault
<1>2. vaults \in [Users -> [VaultIds -> Vault]]
  BY <1>1 DEF Init, ControllerInit
<1>3. tokenBalance \in [Assets -> [Accounts -> Nat]]
  <2>1. \A a \in Assets, h \in Accounts :
            (IF h \in Users THEN InitialTokens[a][h] ELSE 0) \in Nat
    BY ControllerAssumption
  <2>2. QED
    BY <2>1 DEF Init, ControllerInit
<1>4. /\ now \in 0 .. MaxTime
      /\ vaultCount \in [Users -> 0 .. MaxVaults]
  BY ControllerAssumption DEF Init, ControllerInit
<1>5. /\ systemPartiallyPaused \in BOOLEAN
      /\ systemFullyPaused \in BOOLEAN
      /\ vaultSettled \in [Users -> [VaultIds -> BOOLEAN]]
      /\ isWhitelistedOToken \in [OTokens -> BOOLEAN]
      /\ oTokenBalance \in [OTokens -> [OTokenHolders -> Nat]]
      /\ expiryPrice \in [Assets -> [Expiries -> Nat]]
  BY DEF Init, ControllerInit
<1>6. SettlerTypeOK
  BY DEF Init, SettlerTypeOK, QuoteState
<1>7. QED
  BY <1>2, <1>3, <1>4, <1>5, <1>6 DEF TypeOK, ControllerTypeOK

LEMMA OwnerCallType == TypeOK /\ OwnerCall => TypeOK'
<1> SUFFICES ASSUME TypeOK, OwnerCall
             PROVE  TypeOK'
  OBVIOUS
<1> USE DEF TypeOK, ControllerTypeOK, SettlerTypeOK, settlerVars, quoteVars,
            ledgerVars, pauseVars, vaultVars
<1>0. UNCHANGED settlerVars
  BY DEF OwnerCall
<1>1. CASE \E paused \in BOOLEAN : SetSystemPartiallyPaused(paused)
  BY <1>0, <1>1 DEF SetSystemPartiallyPaused
<1>2. CASE \E paused \in BOOLEAN : SetSystemFullyPaused(paused)
  BY <1>0, <1>2 DEF SetSystemFullyPaused
<1>3. CASE \E o \in OTokens : CreateOToken(o)
  BY <1>0, <1>3 DEF CreateOToken
<1>4. CASE \E a \in Assets, e \in Expiries, p \in Prices : SetExpiryPrice(a, e, p)
  BY <1>0, <1>4, ControllerAssumption DEF SetExpiryPrice
<1>5. QED
  BY <1>1, <1>2, <1>3, <1>4 DEF OwnerCall

LEMMA TickType == TypeOK /\ Tick /\ UNCHANGED settlerVars => TypeOK'
  BY ControllerAssumption
  DEF Tick, TypeOK, ControllerTypeOK, SettlerTypeOK, settlerVars, quoteVars,
      ledgerVars, pauseVars, vaultVars

LEMMA MMQuoteType ==
    ASSUME TypeOK, NEW mm \in MMs,
           \/ \E status \in BOOLEAN : SetWhitelistedMM(mm, status)
           \/ \E batch \in SUBSET Quotes : CancelQuotes(mm, batch)
           \/ IncrementMakerNonce(mm)
    PROVE  TypeOK'
<1> USE DEF TypeOK, ControllerTypeOK, SettlerTypeOK, controllerVars, quoteVars,
            ledgerVars, pauseVars, vaultVars
<1>1. ASSUME NEW status \in BOOLEAN, SetWhitelistedMM(mm, status)
      PROVE  TypeOK'
  <2>1. whitelistedMMs' \in [MMs -> BOOLEAN]
    BY <1>1 DEF SetWhitelistedMM
  <2>2. makerNonce' \in [MMs -> Nat]
    BY <1>1 DEF SetWhitelistedMM, BumpedNonce
  <2>3. QED
    BY <1>1, <2>1, <2>2 DEF SetWhitelistedMM
<1>2. ASSUME NEW batch \in SUBSET Quotes, CancelQuotes(mm, batch)
      PROVE  TypeOK'
  <2>1. quoteState' \in [Quotes -> QuoteState]
    BY <1>2 DEF CancelQuotes, QuoteState
  <2>2. QED
    BY <1>2, <2>1 DEF CancelQuotes
<1>3. CASE IncrementMakerNonce(mm)
  BY <1>3 DEF IncrementMakerNonce, BumpedNonce
<1>4. QED
  BY <1>1, <1>2, <1>3

LEMMA DirectCallType ==
    ASSUME TypeOK, NEW u \in Users, DirectCall(u)
    PROVE  TypeOK'
<1> USE DEF TypeOK, ControllerTypeOK, SettlerTypeOK, settlerVars, quoteVars,
            ledgerVars, pauseVars, vaultVars
<1>0. UNCHANGED settlerVars
  BY DEF DirectCall
<1>1. CASE OpenVault(u)
  BY <1>0, <1>1, ControllerAssumption DEF OpenVault
<1>2. ASSUME NEW id \in VaultIds, NEW a \in Assets, NEW d \in Deposits,
             DepositCollateral(u, id, a, d)
      PROVE  TypeOK'
  <2>1. d \in Nat
    BY ControllerAssumption
  <2>2. Deposited(vaults[u][id], a, d) \in Vault
    BY <2>1, VaultType, DepositedType
  <2>3. vaults' \in [Users -> [VaultIds -> Vault]]
    BY <1>2, <2>2 DEF DepositCollateral
  <2>4. tokenBalance' \in [Assets -> [Accounts -> Nat]]
    BY <1>2, <2>1, MovedType, HolderTypes DEF DepositCollateral
  <2>5. QED
    BY <1>0, <1>2, <2>3, <2>4 DEF DepositCollateral
<1>3. ASSUME NEW id \in VaultIds, NEW o \in OTokens, NEW n \in Amounts,
             NEW to \in OTokenHolders, MintOtoken(u, id, o, n, to)
      PROVE  TypeOK'
  <2>1. n \in Nat
    BY ControllerAssumption
  <2>2. Minted(vaults[u][id], o, n) \in Vault
    BY <2>1, VaultType, MintedType
  <2>3. vaults' \in [Users -> [VaultIds -> Vault]]
    BY <1>3, <2>2 DEF MintOtoken
  <2>4. oTokenBalance' \in [OTokens -> [OTokenHolders -> Nat]]
    BY <1>3, <2>1 DEF MintOtoken
  <2>5. QED
    BY <1>0, <1>3, <2>3, <2>4 DEF MintOtoken
<1>4. ASSUME NEW o \in OTokens, NEW n \in Amounts, Redeem(u, o, n)
      PROVE  TypeOK'
  <2>1. n \in Nat
    BY ControllerAssumption
  <2>2. oTokenBalance' \in [OTokens -> [OTokenHolders -> Nat]]
    BY <1>4, <2>1, BurnedType, HolderTypes DEF Redeem, RedeemAllowed
  <2>3. tokenBalance' \in [Assets -> [Accounts -> Nat]]
    BY <1>4, <2>1, PaidOutType, HolderTypes DEF Redeem, RedeemAllowed
  <2>4. QED
    BY <1>0, <1>4, <2>2, <2>3 DEF Redeem
<1>5. ASSUME NEW o \in OTokens, NEW n \in Amounts, NEW to \in OTokenHolders,
             TransferOToken(o, u, to, n)
      PROVE  TypeOK'
  <2>1. n \in Nat
    BY ControllerAssumption
  <2>2. oTokenBalance' \in [OTokens -> [OTokenHolders -> Nat]]
    BY <1>5, <2>1, MovedType, HolderTypes DEF TransferOToken
  <2>3. QED
    BY <1>0, <1>5, <2>2 DEF TransferOToken
<1>6. QED
  BY <1>1, <1>2, <1>3, <1>4, <1>5 DEF DirectCall

LEMMA ExecuteOrderType ==
    ASSUME TypeOK, NEW u \in Users, NEW q \in Quotes, NEW n \in Amounts,
           NEW d \in Deposits, ExecuteOrder(u, q, n, d)
    PROVE  TypeOK'
<1> DEFINE o         == q.oToken
           asset     == Series[o].collateralAsset
           payment   == Series[o].strikeAsset
           id        == vaultCount[u] + 1
           premium   == Premium(n, q.bidPrice)
           fee       == ProtocolFee(premium, ProtocolFeeBps)
           deposited == Moved(tokenBalance, asset, u, Pool, d)
           paid      == Moved(deposited, payment, q.mm, u, premium - fee)
           Balances  == [Assets -> [Accounts -> Nat]]
<1>1. /\ o \in OTokens /\ q.mm \in MMs /\ q.bidPrice \in Nat
      /\ n \in Nat /\ d \in Nat
  BY SettlerAssumption, ControllerAssumption DEF QuoteFields
<1>2. asset \in Assets /\ payment \in Assets
  BY <1>1, SeriesType
<1>3. premium \in Nat /\ fee \in Nat /\ premium - fee \in Nat
  <2>1. premium \in Nat /\ fee \in Nat /\ fee <= premium
    BY <1>1, PremiumType
  <2> HIDE DEF premium, fee
  <2>2. QED
    BY <2>1
<1>4. id \in VaultIds /\ id \in 0 .. MaxVaults
  BY ControllerAssumption DEF ExecuteOrder, VaultIds, TypeOK, ControllerTypeOK
<1>5. Minted(Deposited(vaults[u][id], asset, d), o, n) \in Vault
  BY <1>1, <1>2, <1>4, VaultType, DepositedType, MintedType
<1>6. tokenBalance' \in Balances
  <2>1. deposited \in Balances
    <3>1. tokenBalance \in Balances /\ tokenBalance[asset][u] >= d
      BY DEF ExecuteOrder, TypeOK, ControllerTypeOK
    <3>2. QED
      BY <3>1, <1>1, <1>2, MovedType, HolderTypes
  <2>2. paid \in Balances
    <3>1. deposited[payment][q.mm] >= premium - fee
      BY DEF ExecuteOrder
    <3> HIDE DEF deposited
    <3>2. QED
      BY <3>1, <2>1, <1>1, <1>2, <1>3, MovedType, HolderTypes
  <2>3. tokenBalance' = Moved(paid, payment, q.mm, Treasury, fee) /\ paid[payment][q.mm] >= fee
    BY DEF ExecuteOrder
  <2> HIDE DEF paid
  <2>4. QED
    BY <2>2, <2>3, <1>1, <1>2, <1>3, MovedType, HolderTypes
<1>7. vaults' \in [Users -> [VaultIds -> Vault]]
  BY <1>4, <1>5 DEF ExecuteOrder, TypeOK, ControllerTypeOK
<1>8. /\ vaultCount' \in [Users -> 0 .. MaxVaults]
      /\ vaultMM' \in [Users -> [VaultIds -> MMs \cup {NoMM}]]
  BY <1>1, <1>4 DEF ExecuteOrder, TypeOK, ControllerTypeOK, SettlerTypeOK
<1>9. quoteState' \in [Quotes -> QuoteState]
  <2>1. quoteState \in [Quotes -> QuoteState] /\ quoteState[q].filled + n \in Nat
    BY <1>1 DEF TypeOK, SettlerTypeOK, QuoteState
  <2>2. [quoteState[q] EXCEPT !.filled = @ + n] \in QuoteState
    BY <2>1 DEF QuoteState
  <2>3. quoteState' = [quoteState EXCEPT ![q] = [quoteState[q] EXCEPT !.filled = @ + n]]
    BY <2>1 DEF ExecuteOrder
  <2>4. QED
    BY <2>1, <2>2, <2>3
<1>10. /\ oTokenBalance' \in [OTokens -> [OTokenHolders -> Nat]]
       /\ mmOTokenBalance' \in [MMs -> [OTokens -> Nat]]
  BY <1>1, HolderTypes DEF ExecuteOrder, TypeOK, ControllerTypeOK, SettlerTypeOK
<1>11. UNCHANGED <<now, pauseVars, vaultSettled, isWhitelistedOToken,
                   expiryPrice, makerNonce, whitelistedMMs>>
  BY DEF ExecuteOrder
<1>12. QED
  BY <1>6, <1>7, <1>8, <1>9, <1>10, <1>11
  DEF TypeOK, ControllerTypeOK, SettlerTypeOK, pauseVars

LEMMA CollateralToReturnType ==
    ASSUME TypeOK, NEW v \in Vault, v.shortOtoken \in OTokens
    PROVE  /\ CollateralToReturn(v) \in Nat
           /\ CollateralToReturn(v) <= v.collateralAmount
<1>1. v.shortAmount \in Nat /\ v.collateralAmount \in Nat
  BY DEF Vault
<1>2. PayoutOf(v.shortOtoken, v.shortAmount) \in Nat
  BY <1>1, PayoutType
<1>3. QED
  BY <1>1, <1>2 DEF CollateralToReturn

(* A vault that wrote an option keeps its collateral in a real asset.       *)
LEMMA SettleVaultType ==
    ASSUME TypeOK, NEW u \in Users, NEW id \in VaultIds, BatchSettleVault(u, id),
           vaults[u][id].collateralAsset \in Assets
    PROVE  TypeOK'
<1>1. SettleVault(u, id) /\ UNCHANGED settlerVars
  BY DEF BatchSettleVault
<1>2. vaults[u][id] \in Vault /\ vaults[u][id].shortOtoken \in OTokens
  BY <1>1, VaultType DEF SettleVault
<1>3. CollateralToReturn(vaults[u][id]) \in Nat
  BY <1>2, CollateralToReturnType
<1>4. tokenBalance' \in [Assets -> [Accounts -> Nat]]
  BY <1>1, <1>3, MovedType, HolderTypes DEF SettleVault, TypeOK, ControllerTypeOK
<1>5. vaultSettled' \in [Users -> [VaultIds -> BOOLEAN]]
  BY <1>1 DEF SettleVault, TypeOK, ControllerTypeOK
<1>6. QED
  BY <1>1, <1>4, <1>5
  DEF SettleVault, TypeOK, ControllerTypeOK, SettlerTypeOK, settlerVars,
      quoteVars, ledgerVars, pauseVars

LEMMA BatchRedeemType ==
    ASSUME TypeOK, NEW u \in Users, NEW o \in OTokens, NEW n \in Amounts,
           BatchRedeem(u, o, n)
    PROVE  TypeOK'
<1> DEFINE asset    == Series[o].collateralAsset
           pulled   == Moved(oTokenBalance, o, u, Settler, n)
           redeemed == PaidOut(tokenBalance, o, n, Settler)
           payout   == redeemed[asset][Settler] - tokenBalance[asset][Settler]
<1>1. n \in Nat /\ asset \in Assets /\ oTokenBalance[o][u] >= n
  BY ControllerAssumption, SeriesType DEF BatchRedeem, RedeemAllowed
<1>2. /\ tokenBalance \in [Assets -> [Accounts -> Nat]]
      /\ oTokenBalance \in [OTokens -> [OTokenHolders -> Nat]]
      /\ tokenBalance[asset][Pool] >= PayoutOf(o, n)
  BY DEF BatchRedeem, RedeemAllowed, TypeOK, ControllerTypeOK
<1>3. oTokenBalance' \in [OTokens -> [OTokenHolders -> Nat]]
  <2>1. pulled \in [OTokens -> [OTokenHolders -> Nat]]
    BY <1>1, <1>2, MovedType, HolderTypes
  <2>2. pulled[o][Settler] = oTokenBalance[o][Settler] + n
    <3>1. o \in OTokens /\ u \in OTokenHolders /\ Settler \in OTokenHolders /\ u # Settler
      BY HolderTypes
    <3>2. QED
      BY <3>1, <1>1, <1>2 DEF Moved
  <2>3. oTokenBalance' = [pulled EXCEPT ![o][Settler] = @ - n]
    BY DEF BatchRedeem
  <2>4. oTokenBalance[o][Settler] \in Nat
    BY <1>2, HolderTypes
  <2> HIDE DEF pulled
  <2>5. pulled[o][Settler] >= n
    BY <1>1, <2>2, <2>4
  <2>6. QED
    BY <1>1, <2>1, <2>3, <2>5, TakenType, HolderTypes
<1>4. tokenBalance' \in [Assets -> [Accounts -> Nat]]
  <2>1. redeemed \in [Assets -> [Accounts -> Nat]]
    BY <1>1, <1>2, PaidOutType, HolderTypes
  <2>2. redeemed[asset][Settler] = tokenBalance[asset][Settler] + PayoutOf(o, n)
    BY <1>1, <1>2, ReceivedIsPayout
  <2>3. PayoutOf(o, n) \in Nat /\ tokenBalance[asset][Settler] \in Nat
    BY <1>1, <1>2, PayoutType, HolderTypes
  <2>4. tokenBalance' = Moved(redeemed, asset, Settler, u, payout)
    BY DEF BatchRedeem
  <2> HIDE DEF redeemed
  <2>5. payout \in Nat /\ redeemed[asset][Settler] >= payout
    BY <2>2, <2>3
  <2> HIDE DEF payout
  <2>6. QED
    BY <1>1, <2>1, <2>4, <2>5, MovedType, HolderTypes
<1>5. QED
  BY <1>3, <1>4
  DEF BatchRedeem, TypeOK, ControllerTypeOK, SettlerTypeOK, settlerVars,
      quoteVars, ledgerVars, pauseVars, vaultVars

LEMMA RedeemFromLedgerType ==
    ASSUME TypeOK, NEW mm \in MMs, NEW o \in OTokens, NEW n \in Amounts,
           RedeemFromLedger(mm, o, n)
    PROVE  TypeOK'
<1> DEFINE asset    == Series[o].collateralAsset
           redeemed == PaidOut(tokenBalance, o, n, Settler)
           payout   == redeemed[asset][Settler] - tokenBalance[asset][Settler]
<1>1. n \in Nat /\ asset \in Assets /\ oTokenBalance[o][Settler] >= n
  BY ControllerAssumption, SeriesType DEF RedeemFromLedger, RedeemAllowed
<1>2. /\ tokenBalance \in [Assets -> [Accounts -> Nat]]
      /\ tokenBalance[asset][Pool] >= PayoutOf(o, n)
  BY DEF RedeemFromLedger, RedeemAllowed, TypeOK, ControllerTypeOK
<1>3. oTokenBalance' \in [OTokens -> [OTokenHolders -> Nat]]
  BY <1>1, BurnedType, HolderTypes DEF RedeemFromLedger
<1>4. tokenBalance' \in [Assets -> [Accounts -> Nat]]
  <2>1. redeemed \in [Assets -> [Accounts -> Nat]]
    BY <1>1, <1>2, PaidOutType, HolderTypes
  <2>2. redeemed[asset][Settler] = tokenBalance[asset][Settler] + PayoutOf(o, n)
    BY <1>1, <1>2, ReceivedIsPayout
  <2>3. PayoutOf(o, n) \in Nat /\ tokenBalance[asset][Settler] \in Nat
    BY <1>1, <1>2, PayoutType, HolderTypes
  <2>4. tokenBalance' = Moved(redeemed, asset, Settler, mm, payout)
    BY DEF RedeemFromLedger
  <2> HIDE DEF redeemed
  <2>5. payout \in Nat /\ redeemed[asset][Settler] >= payout
    BY <2>2, <2>3
  <2> HIDE DEF payout
  <2>6. QED
    BY <1>1, <2>1, <2>4, <2>5, MovedType, HolderTypes
<1>5. mmOTokenBalance' \in [MMs -> [OTokens -> Nat]]
  BY <1>1 DEF RedeemFromLedger, TypeOK, SettlerTypeOK
<1>6. QED
  BY <1>3, <1>4, <1>5
  DEF RedeemFromLedger, TypeOK, ControllerTypeOK, SettlerTypeOK, quoteVars,
      pauseVars, vaultVars

(* The swap keeps balances natural: a put sells no more than it received.   *)
LEMMA SwappedType ==
    ASSUME NEW b \in [Assets -> [Accounts -> Nat]], NEW o \in OTokens,
           NEW mm \in MMs, NEW received \in Nat, NEW x \in Nat,
           b[Series[o].collateralAsset][Settler] >= received,
           Series[o].isPut => x <= received
    PROVE  Swapped(b, o, mm, received, x) \in [Assets -> [Accounts -> Nat]]
<1> DEFINE asset   == Series[o].collateralAsset
           contra  == ContraAsset(o)
           sold    == IF Series[o].isPut THEN x ELSE received
           paying  == IF Series[o].isPut THEN asset ELSE contra
           surplus == IF Series[o].isPut THEN received - x ELSE x
           bought  == IF Series[o].isPut THEN 0 ELSE x
           spent   == [b EXCEPT ![asset][Settler] = @ - sold]
           traded  == [spent EXCEPT ![contra][Settler] = @ + bought]
<1>1. asset \in Assets /\ contra \in Assets /\ paying \in Assets
  BY SeriesType
<1>2. sold \in Nat /\ surplus \in Nat /\ bought \in Nat /\ sold <= received
  BY SeriesType
<1>3. Settler \in Accounts /\ mm \in Accounts /\ b[asset][Settler] \in Nat
  BY <1>1, HolderTypes
<1>4. /\ spent \in [Assets -> [Accounts -> Nat]]
      /\ spent[asset][Settler] = b[asset][Settler] - sold
  <2>1. b[asset][Settler] >= sold
    BY <1>2, <1>3
  <2> HIDE DEF sold, asset
  <2>2. QED
    BY <1>1, <1>2, <1>3, <2>1, TakenType
<1>5. /\ traded \in [Assets -> [Accounts -> Nat]]
      /\ traded[contra][Settler] = spent[contra][Settler] + bought
      /\ contra # asset => traded[asset][Settler] = spent[asset][Settler]
  <2>1. spent[contra][Settler] \in Nat
    BY <1>1, <1>3, <1>4
  <2> HIDE DEF spent, bought, contra, asset
  <2>2. QED
    BY <2>1, <1>1, <1>2, <1>3, <1>4
<1>6. traded[paying][Settler] >= surplus
  <2>1. spent[contra][Settler] \in Nat
    BY <1>1, <1>3, <1>4
  <2>2. CASE Series[o].isPut
    <3>1. spent[asset][Settler] >= received - x
      BY <2>2, <1>2, <1>3, <1>4
    <3>2. bought = 0 /\ paying = asset /\ surplus = received - x
      BY <2>2
    <3> HIDE DEF spent, traded, asset, contra, paying, surplus, bought
    <3>3. QED
      BY <3>1, <3>2, <2>1, <1>5
  <2>3. CASE ~Series[o].isPut
    <3>1. bought = x /\ paying = contra /\ surplus = x
      BY <2>3
    <3> HIDE DEF spent, traded, asset, contra, paying, surplus, bought
    <3>2. QED
      BY <3>1, <2>1, <1>5
  <2>4. QED
    BY <2>2, <2>3
<1>7. Swapped(b, o, mm, received, x) = Moved(traded, paying, Settler, mm, surplus)
  BY DEF Swapped
<1>8. /\ traded \in [Assets -> [Accounts -> Nat]] /\ paying \in Assets
      /\ surplus \in Nat /\ Settler \in Accounts /\ mm \in Accounts
  BY <1>1, <1>2, <1>3, <1>5
<1> HIDE DEF asset, contra, sold, bought, spent, traded, paying, surplus
<1>9. Moved(traded, paying, Settler, mm, surplus) \in [Assets -> [Accounts -> Nat]]
  BY <1>6, <1>8, MovedType
<1>10. QED
  BY <1>7, <1>9

LEMMA PhysicalRedeemType ==
    ASSUME TypeOK, NEW mm \in MMs, NEW o \in OTokens, NEW n \in Amounts,
           NEW u \in Users, NEW x \in SwapCosts, PhysicalRedeem(o, u, n, mm, x)
    PROVE  TypeOK'
<1> DEFINE asset     == Series[o].collateralAsset
           contra    == ContraAsset(o)
           delivered == [tokenBalance EXCEPT
                            ![contra][u] = @ + ContraAmount(o, n)]
           redeemed  == PaidOut(delivered, o, n, Settler)
           received  == redeemed[asset][Settler] - delivered[asset][Settler]
           Balances  == [Assets -> [Accounts -> Nat]]
<1>1. /\ n \in Nat /\ x \in Nat /\ asset \in Assets /\ contra \in Assets
      /\ oTokenBalance[o][Settler] >= n
  BY ControllerAssumption, SettlerAssumption, SeriesType
  DEF PhysicalRedeem, RedeemAllowed
<1>2. /\ tokenBalance \in Balances
      /\ tokenBalance[asset][Pool] >= PayoutOf(o, n)
      /\ mmOTokenBalance \in [MMs -> [OTokens -> Nat]]
      /\ mmOTokenBalance[mm][o] >= n
  BY DEF PhysicalRedeem, RedeemAllowed, TypeOK, ControllerTypeOK, SettlerTypeOK
<1>3. oTokenBalance' \in [OTokens -> [OTokenHolders -> Nat]]
  BY <1>1, BurnedType, HolderTypes DEF PhysicalRedeem
<1>4. delivered \in Balances /\ delivered[asset][Pool] = tokenBalance[asset][Pool]
  <2>1. u \in Accounts /\ u # Pool /\ Pool \in Accounts
    BY HolderTypes
  <2>2. ContraAmount(o, n) \in Nat
    BY <1>1, ContraAmountType
  <2> HIDE DEF asset, contra
  <2>3. QED
    BY <1>1, <1>2, <2>1, <2>2
<1>5. tokenBalance' \in Balances
  <2> HIDE DEF delivered
  <2>1. redeemed \in Balances
    BY <1>1, <1>2, <1>4, PaidOutType, HolderTypes
  <2>2. redeemed[asset][Settler] = delivered[asset][Settler] + PayoutOf(o, n)
    BY <1>1, <1>4, ReceivedIsPayout
  <2>3. PayoutOf(o, n) \in Nat /\ delivered[asset][Settler] \in Nat
    BY <1>1, <1>4, PayoutType, HolderTypes
  <2>4. /\ tokenBalance' = Swapped(redeemed, o, mm, received, x)
        /\ Series[o].isPut => x <= received
    BY DEF PhysicalRedeem, delivered
  <2> HIDE DEF redeemed
  <2>5. received \in Nat /\ redeemed[asset][Settler] >= received
    BY <2>2, <2>3
  <2> HIDE DEF received
  <2>6. QED
    BY <1>1, <2>1, <2>4, <2>5, SwappedType
<1>6. mmOTokenBalance' \in [MMs -> [OTokens -> Nat]]
  BY <1>1, <1>2 DEF PhysicalRedeem
<1>7. QED
  BY <1>3, <1>5, <1>6
  DEF PhysicalRedeem, TypeOK, ControllerTypeOK, SettlerTypeOK, quoteVars,
      pauseVars, vaultVars

LEMMA EmergencyWithdrawType ==
    ASSUME TypeOK, NEW u \in Users, NEW id \in VaultIds,
           EmergencyWithdrawVault(u, id), vaults[u][id].collateralAsset \in Assets
    PROVE  TypeOK'
<1> DEFINE vault == vaults[u][id]
           o     == vault.shortOtoken
           short == vault.shortAmount
<1>1. vault.collateralAmount \in Nat /\ short \in Nat /\ o \in OTokens \cup {NoOToken}
  BY VaultType
<1>2. tokenBalance' \in [Assets -> [Accounts -> Nat]]
  BY <1>1, MovedType, HolderTypes
  DEF EmergencyWithdrawVault, TypeOK, ControllerTypeOK
<1>3. /\ oTokenBalance' \in [OTokens -> [OTokenHolders -> Nat]]
      /\ mmOTokenBalance' \in [MMs -> [OTokens -> Nat]]
  <2>1. CASE UNCHANGED <<oTokenBalance, mmOTokenBalance>>
    BY <2>1 DEF TypeOK, ControllerTypeOK, SettlerTypeOK
  <2>2. CASE /\ o # NoOToken
             /\ oTokenBalance[o][Settler] >= short
             /\ oTokenBalance' = Burned(o, short, Settler)
             /\ mmOTokenBalance' = ClearedMMBalance(u, id, o, short)
    <3>1. oTokenBalance' \in [OTokens -> [OTokenHolders -> Nat]]
      BY <2>2, <1>1, BurnedType, HolderTypes
    <3>2. ClearedMMBalance(u, id, o, short) \in [MMs -> [OTokens -> Nat]]
      <4>1. /\ o \in OTokens /\ vaultMM[u][id] \in MMs \cup {NoMM}
            /\ mmOTokenBalance \in [MMs -> [OTokens -> Nat]]
        BY <2>2, <1>1, VaultType DEF TypeOK, SettlerTypeOK
      <4> HIDE DEF o, short
      <4>2. QED
        BY <4>1, <1>1 DEF ClearedMMBalance
    <3>3. QED
      BY <2>2, <3>1, <3>2
  <2>3. QED
    BY <2>1, <2>2 DEF EmergencyWithdrawVault
<1>4. vaultSettled' \in [Users -> [VaultIds -> BOOLEAN]]
  BY DEF EmergencyWithdrawVault, TypeOK, ControllerTypeOK
<1>5. QED
  BY <1>2, <1>3, <1>4
  DEF EmergencyWithdrawVault, TypeOK, ControllerTypeOK, SettlerTypeOK,
      quoteVars, pauseVars

-----------------------------------------------------------------------------
(* The inductive invariant.  SettleVault and EmergencyWithdrawVault pay in  *)
(* the vault's collateral asset, so their types need the asset to be a real *)
(* one: VaultsCovered gives that for a vault that wrote an option,          *)
(* FundedVaults for one that only holds collateral.                         *)
FundedVaults ==
    \A p \in AllVaults :
        VaultAt(p).collateralAmount # 0 => VaultAt(p).collateralAsset \in Assets

Covered(v) ==
    /\ v.collateralAmount # 0 => v.collateralAsset \in Assets
    /\ v.shortOtoken # NoOToken =>
           /\ v.collateralAsset = Series[v.shortOtoken].collateralAsset
           /\ v.collateralAmount >= RequiredCollateral(v.shortOtoken, v.shortAmount)

SettlerInv == TypeOK /\ FundedVaults /\ VaultsCovered

LEMMA InvIsCovered ==
    FundedVaults /\ VaultsCovered
        <=> \A u \in Users, id \in VaultIds : Covered(vaults[u][id])
<1>1. (FundedVaults /\ VaultsCovered) <=> \A p \in AllVaults : Covered(VaultAt(p))
  BY DEF FundedVaults, VaultsCovered, Covered
<1>2. (\A p \in AllVaults : Covered(VaultAt(p)))
        <=> \A u \in Users, id \in VaultIds : Covered(vaults[u][id])
  <2>1. ASSUME \A p \in AllVaults : Covered(VaultAt(p)), NEW u \in Users, NEW id \in VaultIds
        PROVE  Covered(vaults[u][id])
    <3>1. <<u, id>> \in AllVaults /\ VaultAt(<<u, id>>) = vaults[u][id]
      BY DEF AllVaults, VaultAt
    <3>2. QED
      BY <2>1, <3>1
  <2>2. ASSUME \A u \in Users, id \in VaultIds : Covered(vaults[u][id]), NEW p \in AllVaults
        PROVE  Covered(VaultAt(p))
    BY <2>2 DEF AllVaults, VaultAt
  <2>3. QED
    BY <2>1, <2>2
<1>3. QED
  BY <1>1, <1>2

(* Depositing in the vault's own asset, or in a new one, keeps it covered.  *)
LEMMA DepositedCovered ==
    ASSUME NEW v \in Vault, Covered(v), NEW a \in Assets, NEW n \in Nat,
           DepositAllowed(v, a)
    PROVE  Covered(Deposited(v, a, n))
<1>1. /\ v.collateralAmount \in Nat /\ v.shortAmount \in Nat
      /\ v.shortOtoken \in OTokens \cup {NoOToken}
  BY DEF Vault
<1>2. v.shortOtoken # NoOToken => v.collateralAsset = a
  BY <1>1, SeriesType, ControllerAssumption DEF Covered, DepositAllowed
<1>3. v.shortOtoken # NoOToken =>
          RequiredCollateral(v.shortOtoken, v.shortAmount) \in Nat
  BY <1>1, FullAmountType DEF RequiredCollateral
<1>4. /\ Deposited(v, a, n).shortOtoken = v.shortOtoken
      /\ Deposited(v, a, n).shortAmount = v.shortAmount
      /\ Deposited(v, a, n).collateralAsset = a
      /\ Deposited(v, a, n).collateralAmount = v.collateralAmount + n
  BY DEF Deposited
<1>5. QED
  BY <1>1, <1>2, <1>3, <1>4 DEF Covered

LEMMA MintedCovered ==
    ASSUME NEW v \in Vault, Covered(v), NEW o \in OTokens, NEW n \in Nat,
           MintAllowed(v, o, n)
    PROVE  Covered(Minted(v, o, n))
<1>1. /\ Minted(v, o, n).shortOtoken = o
      /\ Minted(v, o, n).shortAmount = v.shortAmount + n
      /\ Minted(v, o, n).collateralAsset = v.collateralAsset
      /\ Minted(v, o, n).collateralAmount = v.collateralAmount
  BY DEF Minted
<1>2. QED
  BY <1>1 DEF Covered, MintAllowed

(* Only a deposit, a mint and an order write a vault.                       *)
LEMMA VaultWrites ==
    ASSUME TypeOK, \A u \in Users, id \in VaultIds : Covered(vaults[u][id]), Next
    PROVE  \/ UNCHANGED vaults
           \/ \E u \in Users, id \in VaultIds, v \in Vault :
                  Covered(v) /\ ~vaultSettled[u][id]
                  /\ vaults' = [vaults EXCEPT ![u][id] = v]
<1> DEFINE Goal == \/ UNCHANGED vaults
                   \/ \E u \in Users, id \in VaultIds, v \in Vault :
                          Covered(v) /\ ~vaultSettled[u][id]
                          /\ vaults' = [vaults EXCEPT ![u][id] = v]
<1>1. ASSUME NEW u \in Users, NEW id \in VaultIds, NEW a \in Assets,
             NEW d \in Deposits, DepositCollateral(u, id, a, d)
      PROVE  Goal
  <2>1. vaults[u][id] \in Vault /\ Covered(vaults[u][id]) /\ d \in Nat
    BY VaultType, ControllerAssumption
  <2>2. /\ Deposited(vaults[u][id], a, d) \in Vault
        /\ Covered(Deposited(vaults[u][id], a, d))
    BY <1>1, <2>1, DepositedType, DepositedCovered DEF DepositCollateral
  <2>3. /\ ~vaultSettled[u][id]
        /\ vaults' = [vaults EXCEPT ![u][id] = Deposited(vaults[u][id], a, d)]
    BY <1>1 DEF DepositCollateral, IsOpen, TypeOK, ControllerTypeOK
  <2>4. QED
    BY <2>2, <2>3
<1>2. ASSUME NEW u \in Users, NEW id \in VaultIds, NEW o \in OTokens,
             NEW n \in Amounts, NEW to \in OTokenHolders, MintOtoken(u, id, o, n, to)
      PROVE  Goal
  <2>1. vaults[u][id] \in Vault /\ Covered(vaults[u][id]) /\ n \in Nat
    BY VaultType, ControllerAssumption
  <2>2. /\ Minted(vaults[u][id], o, n) \in Vault
        /\ Covered(Minted(vaults[u][id], o, n))
    BY <1>2, <2>1, MintedType, MintedCovered DEF MintOtoken
  <2>3. /\ ~vaultSettled[u][id]
        /\ vaults' = [vaults EXCEPT ![u][id] = Minted(vaults[u][id], o, n)]
    BY <1>2 DEF MintOtoken, IsOpen, TypeOK, ControllerTypeOK
  <2>4. QED
    BY <2>2, <2>3
<1>3. ASSUME NEW u \in Users, NEW q \in Quotes, NEW n \in Amounts,
             NEW d \in Deposits, ExecuteOrder(u, q, n, d)
      PROVE  Goal
  <2> DEFINE o      == q.oToken
             id     == vaultCount[u] + 1
             funded == Deposited(vaults[u][id], Series[o].collateralAsset, d)
  <2>1. o \in OTokens /\ n \in Nat /\ d \in Nat /\ Series[o].collateralAsset \in Assets
    BY SettlerAssumption, ControllerAssumption, SeriesType DEF QuoteFields
  <2>2. id \in VaultIds
    BY <1>3, ControllerAssumption DEF ExecuteOrder, VaultIds, TypeOK, ControllerTypeOK
  <2>3. funded \in Vault /\ Covered(funded)
    BY <1>3, <2>1, <2>2, VaultType, DepositedType, DepositedCovered DEF ExecuteOrder
  <2>4. /\ MintAllowed(funded, o, n) /\ ~vaultSettled[u][id]
        /\ vaults' = [vaults EXCEPT ![u][id] = Minted(funded, o, n)]
    BY <1>3 DEF ExecuteOrder, TypeOK, ControllerTypeOK
  <2> HIDE DEF funded
  <2>5. Minted(funded, o, n) \in Vault /\ Covered(Minted(funded, o, n))
    BY <2>1, <2>3, <2>4, MintedType, MintedCovered
  <2>6. QED
    BY <2>2, <2>4, <2>5
<1>4. CASE UNCHANGED vaults
  BY <1>4
<1>5. QED
  <2>1. CASE \E u \in Users : UserCall(u)
    BY <2>1, <1>3, <1>4 DEF UserCall, BatchRedeem, EmergencyWithdrawVault, vaultVars
  <2>2. CASE \E u \in DirectCallers : DirectCall(u)
    BY <2>2, <1>1, <1>2, <1>4, ControllerAssumption
    DEF DirectCall, OpenVault, Redeem, TransferOToken, vaultVars
  <2>3. CASE \E m \in MMs : MMCall(m)
    BY <2>3, <1>4
    DEF MMCall, SetWhitelistedMM, CancelQuotes, IncrementMakerNonce, MMSelfRedeem,
        RedeemFromLedger, controllerVars, vaultVars
  <2>4. CASE OperatorCall
    <3>1. ASSUME NEW u \in Users, NEW id \in VaultIds, BatchSettleVault(u, id)
          PROVE  Goal
      BY <3>1, <1>4 DEF BatchSettleVault, SettleVault
    <3>2. ASSUME NEW m \in MMs, NEW o \in OTokens, NEW n \in Amounts,
                 OperatorRedeemForMM(m, o, n)
          PROVE  Goal
      BY <3>2, <1>4 DEF OperatorRedeemForMM, RedeemFromLedger, vaultVars
    <3>3. ASSUME NEW m \in MMs, NEW o \in OTokens, NEW n \in Amounts,
                 NEW u \in Users, NEW x \in SwapCosts, PhysicalRedeem(o, u, n, m, x)
          PROVE  Goal
      BY <3>3, <1>4 DEF PhysicalRedeem, vaultVars
    <3>4. QED
      BY <2>4, <3>1, <3>2, <3>3 DEF OperatorCall
  <2>5. CASE OwnerCall
    BY <2>5, <1>4
    DEF OwnerCall, SetSystemPartiallyPaused, SetSystemFullyPaused, CreateOToken,
        SetExpiryPrice, vaultVars
  <2>6. CASE Tick
    BY <2>6, <1>4 DEF Tick, vaultVars
  <2>7. QED
    BY <2>1, <2>2, <2>3, <2>4, <2>5, <2>6 DEF Next

LEMMA NextType ==
    ASSUME TypeOK, \A u \in Users, id \in VaultIds : Covered(vaults[u][id]), Next
    PROVE  TypeOK'
<1>1. CASE \E u \in Users : UserCall(u)
  <2>1. ASSUME NEW u \in Users, NEW id \in VaultIds, EmergencyWithdrawVault(u, id)
        PROVE  TypeOK'
    <3>1. vaults[u][id].collateralAsset \in Assets
      BY <2>1 DEF EmergencyWithdrawVault, Covered
    <3>2. QED
      BY <2>1, <3>1, EmergencyWithdrawType
  <2>2. QED
    BY <1>1, <2>1, ExecuteOrderType, BatchRedeemType DEF UserCall
<1>2. CASE \E u \in DirectCallers : DirectCall(u)
  BY <1>2, DirectCallType, ControllerAssumption
<1>3. CASE \E m \in MMs : MMCall(m)
  <2>1. ASSUME NEW m \in MMs, NEW o \in OTokens, NEW n \in Amounts, MMSelfRedeem(m, o, n)
        PROVE  TypeOK'
    BY <2>1, RedeemFromLedgerType DEF MMSelfRedeem
  <2>2. QED
    BY <1>3, <2>1, MMQuoteType DEF MMCall
<1>4. CASE OperatorCall
  <2>1. ASSUME NEW u \in Users, NEW id \in VaultIds, BatchSettleVault(u, id)
        PROVE  TypeOK'
    <3>1. vaults[u][id].shortOtoken \in OTokens /\ vaults[u][id].shortOtoken # NoOToken
      BY <2>1, VaultType DEF BatchSettleVault, SettleVault
    <3>2. vaults[u][id].collateralAsset \in Assets
      BY <3>1, SeriesType DEF Covered
    <3>3. QED
      BY <2>1, <3>2, SettleVaultType
  <2>2. ASSUME NEW m \in MMs, NEW o \in OTokens, NEW n \in Amounts,
               OperatorRedeemForMM(m, o, n)
        PROVE  TypeOK'
    BY <2>2, RedeemFromLedgerType DEF OperatorRedeemForMM
  <2>3. QED
    BY <1>4, <2>1, <2>2, PhysicalRedeemType DEF OperatorCall
<1>5. QED
  BY <1>1, <1>2, <1>3, <1>4, OwnerCallType, TickType DEF Next

LEMMA InvInductive == SettlerInv /\ [Next]_vars => SettlerInv'
<1> SUFFICES ASSUME SettlerInv, [Next]_vars
             PROVE  SettlerInv'
  OBVIOUS
<1>1. TypeOK /\ \A u \in Users, id \in VaultIds : Covered(vaults[u][id])
  BY InvIsCovered DEF SettlerInv
<1>2. CASE Next
  <2>1. TypeOK'
    BY <1>1, <1>2, NextType
  <2>2. \A u \in Users, id \in VaultIds : Covered(vaults'[u][id])
    <3>1. CASE UNCHANGED vaults
      BY <1>1, <3>1
    <3>2. CASE \E u \in Users, id \in VaultIds, v \in Vault :
                   Covered(v) /\ vaults' = [vaults EXCEPT ![u][id] = v]
      <4>1. vaults \in [Users -> [VaultIds -> Vault]]
        BY <1>1 DEF TypeOK, ControllerTypeOK
      <4>2. QED
        BY <1>1, <3>2, <4>1
    <3>3. QED
      BY <1>1, <1>2, <3>1, <3>2, VaultWrites
  <2>3. (FundedVaults /\ VaultsCovered)'
    BY <2>2 DEF FundedVaults, VaultsCovered, Covered, AllVaults, VaultAt
  <2>4. QED
    BY <2>1, <2>3 DEF SettlerInv
<1>3. CASE UNCHANGED vars
  BY <1>3
  DEF SettlerInv, TypeOK, ControllerTypeOK, SettlerTypeOK, FundedVaults,
      VaultsCovered, VaultAt, AllVaults, vars, controllerVars, settlerVars,
      quoteVars, ledgerVars, pauseVars, vaultVars
<1>4. QED
  BY <1>2, <1>3

LEMMA InitInv == Init => SettlerInv
<1> SUFFICES ASSUME Init
             PROVE  SettlerInv
  OBVIOUS
<1>1. \A u \in Users, id \in VaultIds : vaults[u][id] = EmptyVault
  BY DEF Init, ControllerInit
<1>2. Covered(EmptyVault)
  BY DEF Covered, EmptyVault
<1>3. QED
  BY <1>1, <1>2, InitType, InvIsCovered DEF SettlerInv

THEOREM InvariantHolds == Spec => []SettlerInv
<1>1. QED
  BY InitInv, InvInductive, PTL DEF Spec

-----------------------------------------------------------------------------
(* Every variable of the contracts keeps its type: no balance, ledger entry *)
(* or vault amount ever goes below zero, whatever the order of the calls    *)
(* (every subtraction in Controller, BatchSettler and MarginPool).          *)
THEOREM TypeCorrect == Spec => []TypeOK
<1>1. SettlerInv => TypeOK
  BY DEF SettlerInv
<1>2. QED
  BY <1>1, InvariantHolds, PTL

(* A vault that wrote an option holds, in the option's own asset, at least  *)
(* the collateral required for everything it wrote (Controller.mintOtoken,  *)
(* depositCollateral and BatchSettler.executeOrder in any order).           *)
THEOREM AlwaysCovered == Spec => []VaultsCovered
<1>1. SettlerInv => VaultsCovered
  BY DEF SettlerInv
<1>2. QED
  BY <1>1, InvariantHolds, PTL

-----------------------------------------------------------------------------
(* A closed vault stays closed and as it was.                               *)

LEMMA SettledStays ==
    ASSUME TypeOK, Next, NEW u \in Users, NEW id \in VaultIds, vaultSettled[u][id]
    PROVE  vaultSettled'[u][id]
<1>1. vaultSettled \in [Users -> [VaultIds -> BOOLEAN]]
  BY DEF TypeOK, ControllerTypeOK
<1>2. \/ UNCHANGED vaultSettled
      \/ \E w \in Users, k \in VaultIds :
             vaultSettled' = [vaultSettled EXCEPT ![w][k] = TRUE]
  <2> DEFINE Goal == \/ UNCHANGED vaultSettled
                     \/ \E w \in Users, k \in VaultIds :
                            vaultSettled' = [vaultSettled EXCEPT ![w][k] = TRUE]
  <2>1. CASE \E w \in Users : UserCall(w)
    <3>1. ASSUME NEW w \in Users, NEW k \in VaultIds, EmergencyWithdrawVault(w, k)
          PROVE  Goal
      BY <3>1 DEF EmergencyWithdrawVault
    <3>2. ASSUME NEW w \in Users, NEW q \in Quotes, NEW n \in Amounts,
                 NEW d \in Deposits, ExecuteOrder(w, q, n, d)
          PROVE  Goal
      BY <3>2 DEF ExecuteOrder
    <3>3. ASSUME NEW w \in Users, NEW o \in OTokens, NEW n \in Amounts,
                 BatchRedeem(w, o, n)
          PROVE  Goal
      BY <3>3 DEF BatchRedeem, vaultVars
    <3>4. QED
      BY <2>1, <3>1, <3>2, <3>3 DEF UserCall
  <2>2. CASE \E w \in DirectCallers : DirectCall(w)
    BY <2>2
    DEF DirectCall, OpenVault, DepositCollateral, MintOtoken, Redeem,
        TransferOToken, vaultVars
  <2>3. CASE \E m \in MMs : MMCall(m)
    BY <2>3
    DEF MMCall, SetWhitelistedMM, CancelQuotes, IncrementMakerNonce, MMSelfRedeem,
        RedeemFromLedger, controllerVars, vaultVars
  <2>4. CASE OperatorCall
    <3>1. ASSUME NEW w \in Users, NEW k \in VaultIds, BatchSettleVault(w, k)
          PROVE  Goal
      BY <3>1 DEF BatchSettleVault, SettleVault
    <3>2. ASSUME NEW m \in MMs, NEW o \in OTokens, NEW n \in Amounts,
                 OperatorRedeemForMM(m, o, n)
          PROVE  Goal
      BY <3>2 DEF OperatorRedeemForMM, RedeemFromLedger, vaultVars
    <3>3. ASSUME NEW m \in MMs, NEW o \in OTokens, NEW n \in Amounts,
                 NEW w \in Users, NEW x \in SwapCosts, PhysicalRedeem(o, w, n, m, x)
          PROVE  Goal
      BY <3>3 DEF PhysicalRedeem, vaultVars
    <3>4. QED
      BY <2>4, <3>1, <3>2, <3>3 DEF OperatorCall
  <2>5. CASE OwnerCall \/ Tick
    BY <2>5
    DEF OwnerCall, SetSystemPartiallyPaused, SetSystemFullyPaused, CreateOToken,
        SetExpiryPrice, Tick, vaultVars
  <2>6. QED
    BY <2>1, <2>2, <2>3, <2>4, <2>5 DEF Next
<1>3. QED
  BY <1>1, <1>2

(* No call deposits into, writes from, or reopens a vault that was settled  *)
(* or withdrawn (the vaultSettled checks in Controller).                    *)
THEOREM ClosedForGood == Spec => ClosedVaultsFrozen
<1> DEFINE Frozen == \A p \in AllVaults :
                         IsSettled(p) => IsSettled(p)' /\ VaultAt(p)' = VaultAt(p)
<1>1. SettlerInv /\ Next => Frozen
  <2> SUFFICES ASSUME SettlerInv, Next, NEW p \in AllVaults, IsSettled(p)
               PROVE  IsSettled(p)' /\ VaultAt(p)' = VaultAt(p)
    OBVIOUS
  <2>1. p[1] \in Users /\ p[2] \in VaultIds
    BY DEF AllVaults
  <2>2. TypeOK /\ \A u \in Users, id \in VaultIds : Covered(vaults[u][id])
    BY InvIsCovered DEF SettlerInv
  <2>3. vaultSettled'[p[1]][p[2]]
    BY <2>1, <2>2, SettledStays DEF IsSettled
  <2>4. vaults'[p[1]][p[2]] = vaults[p[1]][p[2]]
    <3>1. vaults \in [Users -> [VaultIds -> Vault]]
      BY <2>2 DEF TypeOK, ControllerTypeOK
    <3>2. vaultSettled[p[1]][p[2]]
      BY DEF IsSettled
    <3>3. \/ UNCHANGED vaults
          \/ \E u \in Users, id \in VaultIds, v \in Vault :
                 Covered(v) /\ ~vaultSettled[u][id]
                 /\ vaults' = [vaults EXCEPT ![u][id] = v]
      BY <2>2, VaultWrites
    <3>4. QED
      BY <2>1, <3>1, <3>2, <3>3
  <2>5. QED
    BY <2>3, <2>4 DEF IsSettled, VaultAt
<1>2. SettlerInv /\ [Next]_vars => [Frozen]_vars
  BY <1>1
<1>3. QED
  BY <1>2, InvariantHolds, PTL DEF Spec, ClosedVaultsFrozen

-----------------------------------------------------------------------------
(* A dead quote stays dead.                                                 *)

LEMMA QuoteWrites ==
    ASSUME TypeOK, Next, NEW q \in Quotes, DeadQuote(q)
    PROVE  /\ makerNonce'[q.mm] >= makerNonce[q.mm]
           /\ quoteState[q].cancelled => quoteState'[q].cancelled
           /\ quoteState'[q].filled = quoteState[q].filled
<1> DEFINE Goal == /\ makerNonce'[q.mm] >= makerNonce[q.mm]
                   /\ quoteState[q].cancelled => quoteState'[q].cancelled
                   /\ quoteState'[q].filled = quoteState[q].filled
<1>1. /\ q.mm \in MMs /\ q.makerNonce \in Nat
      /\ makerNonce \in [MMs -> Nat]
      /\ quoteState \in [Quotes -> QuoteState]
  BY SettlerAssumption DEF QuoteFields, TypeOK, SettlerTypeOK
<1>2. CASE UNCHANGED <<quoteState, makerNonce>>
  BY <1>1, <1>2
<1>3. ASSUME NEW m \in MMs, NEW status \in BOOLEAN, SetWhitelistedMM(m, status)
      PROVE  Goal
  BY <1>1, <1>3 DEF SetWhitelistedMM, BumpedNonce
<1>4. ASSUME NEW m \in MMs, IncrementMakerNonce(m)
      PROVE  Goal
  BY <1>1, <1>4 DEF IncrementMakerNonce, BumpedNonce
<1>5. ASSUME NEW m \in MMs, NEW batch \in SUBSET Quotes, CancelQuotes(m, batch)
      PROVE  Goal
  <2>1. quoteState'[q] = IF q \in batch THEN [quoteState[q] EXCEPT !.cancelled = TRUE]
                         ELSE quoteState[q]
    BY <1>5 DEF CancelQuotes
  <2>2. quoteState[q] \in QuoteState
    BY <1>1
  <2>3. /\ quoteState[q].cancelled => quoteState'[q].cancelled
        /\ quoteState'[q].filled = quoteState[q].filled
    BY <2>1, <2>2 DEF QuoteState
  <2>4. QED
    BY <1>1, <1>5, <2>3 DEF CancelQuotes
<1>6. ASSUME NEW u \in Users, NEW r \in Quotes, NEW n \in Amounts,
             NEW d \in Deposits, ExecuteOrder(u, r, n, d)
      PROVE  Goal
  <2>1. QuoteLive(r, n) /\ UNCHANGED makerNonce
    BY <1>6 DEF ExecuteOrder
  <2>2. r # q
    BY <1>1, <2>1 DEF QuoteLive, DeadQuote
  <2>3. quoteState' = [quoteState EXCEPT ![r].filled = @ + n]
    BY <1>6 DEF ExecuteOrder
  <2>4. quoteState'[q] = quoteState[q]
    BY <1>1, <2>2, <2>3
  <2>5. QED
    BY <1>1, <2>1, <2>4
<1>7. QED
  <2>1. CASE \E u \in Users : UserCall(u)
    BY <2>1, <1>2, <1>6
    DEF UserCall, BatchRedeem, EmergencyWithdrawVault, settlerVars, quoteVars
  <2>2. CASE \E u \in DirectCallers : DirectCall(u)
    BY <2>2, <1>2 DEF DirectCall, settlerVars, quoteVars
  <2>3. CASE \E m \in MMs : MMCall(m)
    BY <2>3, <1>2, <1>3, <1>4, <1>5
    DEF MMCall, MMSelfRedeem, RedeemFromLedger, quoteVars
  <2>4. CASE OperatorCall
    <3>1. ASSUME NEW u \in Users, NEW id \in VaultIds, BatchSettleVault(u, id)
          PROVE  Goal
      BY <3>1, <1>2 DEF BatchSettleVault, settlerVars, quoteVars
    <3>2. ASSUME NEW m \in MMs, NEW o \in OTokens, NEW n \in Amounts,
                 OperatorRedeemForMM(m, o, n)
          PROVE  Goal
      BY <3>2, <1>2 DEF OperatorRedeemForMM, RedeemFromLedger, quoteVars
    <3>3. ASSUME NEW m \in MMs, NEW o \in OTokens, NEW n \in Amounts,
                 NEW u \in Users, NEW x \in SwapCosts, PhysicalRedeem(o, u, n, m, x)
          PROVE  Goal
      BY <3>3, <1>2 DEF PhysicalRedeem, quoteVars
    <3>4. QED
      BY <2>4, <3>1, <3>2, <3>3 DEF OperatorCall
  <2>5. CASE OwnerCall \/ (Tick /\ UNCHANGED settlerVars)
    BY <2>5, <1>2 DEF OwnerCall, settlerVars, quoteVars
  <2>6. QED
    BY <2>1, <2>2, <2>3, <2>4, <2>5 DEF Next

(* A quote that was cancelled, or whose maker moved its nonce past it, is   *)
(* never filled again, also when the maker is removed from the whitelist    *)
(* and admitted again (executeOrder, cancelQuotes, setWhitelistedMM).       *)
THEOREM DeadForGood == Spec => DeadQuotesStayDead
<1> DEFINE Dead == \A q \in Quotes :
                       DeadQuote(q) => DeadQuote(q)' /\ quoteState'[q].filled = quoteState[q].filled
<1>1. SettlerInv /\ Next => Dead
  <2> SUFFICES ASSUME SettlerInv, Next, NEW q \in Quotes, DeadQuote(q)
               PROVE  DeadQuote(q)' /\ quoteState'[q].filled = quoteState[q].filled
    OBVIOUS
  <2>1. TypeOK /\ \A u \in Users, id \in VaultIds : Covered(vaults[u][id])
    BY InvIsCovered DEF SettlerInv
  <2>2. makerNonce'[q.mm] \in Nat /\ makerNonce[q.mm] \in Nat /\ q.makerNonce \in Nat
    BY <2>1, NextType, SettlerAssumption DEF TypeOK, SettlerTypeOK, QuoteFields
  <2>3. /\ makerNonce'[q.mm] >= makerNonce[q.mm]
        /\ quoteState[q].cancelled => quoteState'[q].cancelled
        /\ quoteState'[q].filled = quoteState[q].filled
    BY <2>1, QuoteWrites
  <2>4. QED
    BY <2>2, <2>3 DEF DeadQuote
<1>2. SettlerInv /\ [Next]_vars => [Dead]_vars
  BY <1>1
<1>3. QED
  BY <1>2, InvariantHolds, PTL DEF Spec, DeadQuotesStayDead
=============================================================================
