--------------------------- MODULE MCBatchSettler ---------------------------
(* Instances of the contracts for TLC: the series, quotes and wallets that *)
(* the configurations give to the constants of BatchSettler.               *)
EXTENDS SettlerProperties

CONSTANTS usd, eth, put, call, alice, mm1, mm2

MCPut == [underlying |-> eth, strikeAsset |-> usd, collateralAsset |-> usd,
          strikePrice |-> 3, expiry |-> 1, isPut |-> TRUE]
MCCall == [underlying |-> eth, strikeAsset |-> usd, collateralAsset |-> eth,
           strikePrice |-> 3, expiry |-> 1, isPut |-> FALSE]
MCSeries == [o \in OTokens |-> IF o = put THEN MCPut ELSE MCCall]

\* 10^(16 - decimals) is 2 here, so that an odd amount of puts is rounded.
MCPutDivisor == [a \in Assets |-> 2]
MCCallUnit == [a \in Assets |-> 1]

MCQuote(mm, o, bid, id, max, nonce) ==
    [mm |-> mm, oToken |-> o, bidPrice |-> bid, deadline |-> 1, quoteId |-> id,
     maxAmount |-> max, makerNonce |-> nonce]

\* One quote large enough for two vaults.
MCPutQuotes == {MCQuote(mm1, put, 0, 1, 3, 0)}
\* One quote on each series, the call with a premium.
MCBothQuotes == {MCQuote(mm1, put, 0, 1, 3, 0), MCQuote(mm1, call, 2, 2, 1, 0)}
\* Two market makers on one series; the first signs again after its nonce moved.
MCRivalQuotes == {MCQuote(mm1, put, 0, 1, 2, 0), MCQuote(mm1, put, 0, 2, 1, 1),
                  MCQuote(mm2, put, 0, 1, 2, 0)}

\* A writer holds enough usd for two puts and eth for two calls; a market maker
\* holds two of each, to pay premiums.
MCMixedWallet ==
    [a \in Assets |-> [u \in Users |-> IF u \in MMs \/ a = eth THEN 2 ELSE 4]]
MCSmallWallet == [a \in Assets |-> [u \in Users |-> IF u \in MMs THEN 0 ELSE 4]]
=============================================================================
