----------------------------- MODULE OptionMath -----------------------------
(***************************************************************************)
(* The integer arithmetic of the protocol: what an option series demands   *)
(* of its writer (Controller._getRequiredCollateral), what it pays its     *)
(* holder (Controller._calculatePayout), what a physical delivery moves    *)
(* (BatchSettler._executePhysicalRedeem) and what a quote costs            *)
(* (BatchSettler.executeOrder, _transferPremium).  Every division floors,  *)
(* as Solidity's does.                                                     *)
(*                                                                         *)
(* Series[o] holds the immutable fields OToken.init gives an oToken.  The  *)
(* powers of ten depend only on a token's decimals, so they are constants: *)
(* PutDivisor[a] is 10^(16 - decimals), CallUnit[a] is 10^(decimals - 8),  *)
(* PriceUnit is the 1e8 of bid prices and BpsUnit the 10000 of fees.       *)
(***************************************************************************)
EXTENDS Integers

CONSTANTS
    OTokens,        \* the option series the factory may create
    Assets,         \* the ERC-20 tokens used as collateral, strike, underlying
    Series,         \* o |-> its immutable fields
    PutDivisor,
    CallUnit,
    PriceUnit,
    BpsUnit

SeriesFields ==
    [underlying: Assets, strikeAsset: Assets, collateralAsset: Assets,
     strikePrice: Nat \ {0}, expiry: Nat \ {0}, isPut: BOOLEAN]

ASSUME SeriesAssumption == Series \in [OTokens -> SeriesFields]

ASSUME UnitsAssumption ==
    /\ PutDivisor \in [Assets -> Nat \ {0}]
    /\ CallUnit \in [Assets -> Nat \ {0}]
    /\ PriceUnit \in Nat \ {0}
    /\ BpsUnit \in Nat \ {0}

-----------------------------------------------------------------------------
StrikeValue(o, amount, asset) ==
    (amount * Series[o].strikePrice) \div PutDivisor[asset]

FullAmount(o, amount) ==
    LET asset == Series[o].collateralAsset
    IN  IF Series[o].isPut THEN StrikeValue(o, amount, asset)
                           ELSE amount * CallUnit[asset]

\* A put whose amount is too small to need one unit of collateral is refused.
RequiredCollateralDefined(o, amount) ==
    (Series[o].isPut /\ amount > 0) => FullAmount(o, amount) > 0

RequiredCollateral(o, amount) == FullAmount(o, amount)

InTheMoney(o, price) ==
    IF Series[o].isPut THEN price < Series[o].strikePrice
                       ELSE price > Series[o].strikePrice

CalculatePayout(o, amount, price) ==
    IF InTheMoney(o, price) THEN FullAmount(o, amount) ELSE 0

ContraAsset(o) ==
    IF Series[o].isPut THEN Series[o].underlying ELSE Series[o].strikeAsset

ContraAmount(o, amount) ==
    IF Series[o].isPut THEN amount * CallUnit[ContraAsset(o)]
                       ELSE StrikeValue(o, amount, ContraAsset(o))

Premium(amount, bidPrice) == (amount * bidPrice) \div PriceUnit

ProtocolFee(premium, feeBps) == (premium * feeBps) \div BpsUnit
=============================================================================
