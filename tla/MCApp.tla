-------------------------------- MODULE MCApp --------------------------------
(* Instances of App for TLC.                                                 *)
EXTENDS App, TLC

\* The wallets differ in nothing.
MCSymmetry == Permutations(Wallets)

\* Enough OKB and no WETH for an upper side, which is then swapped; or only native
\* tokens, which are then wrapped.
MCStartingWith ==
    LET holding(okb, native) == [t \in Tokens |-> CASE t = "usdc" -> 2 [] t = "okb" -> okb
                                                    [] t = "weth" -> 0 [] t = "native" -> native]
        all == {"usdc", "okb", "weth", "router"}
    IN  {[held |-> holding(2, 0), approved |-> {}], [held |-> holding(2, 0), approved |-> all],
         [held |-> holding(0, 1), approved |-> all]}

\* Two dates to buy at, at different prices, of which the first may be hidden; and the
\* first to sell at too.  Any may be missing.
Cell(t, e) == [type |-> t, expiry |-> e]
MCQuotes == (Cell("put", 1) :> {0, NotShown, 1}) @@ (Cell("put", 2) :> {0, 2})
                @@ (Cell("call", 1) :> {0, 1})
MCOneQuote == Cell("put", 1) :> {0, NotShown, 1}

MCOrder(n, token, isPut, time, g, size, k, earned) ==
    [id |-> n, otoken |-> token, put |-> isPut, at |-> time, group |-> g, amount |-> size,
     strike |-> k, premium |-> earned]
\* The two sides of a range, and a minute later an order to buy above its upper side.
MCRangeAndPut == {MCOrder(1, "p", TRUE, 1, 1, 1, 2, 1), MCOrder(2, "c", FALSE, 1, 1, 2, 4, 2),
                  MCOrder(3, "q", TRUE, 2, 0, 2, 6, 4)}
\* Two orders of one option.
MCTwoPuts == {MCOrder(1, "p", TRUE, 1, 0, 1, 2, 1), MCOrder(3, "p", TRUE, 2, 0, 2, 2, 4)}

MCSince == [p \in {"1M", "ALL"} |-> IF p = "1M" THEN 2 ELSE 0]
=============================================================================
