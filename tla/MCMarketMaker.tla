---------------------------- MODULE MCMarketMaker ----------------------------
(* Instances of MarketMaker: two fills of different sizes.                    *)
EXTENDS MarketMaker, TLC

CONSTANTS f1, f2

MCSize == f1 :> 1 @@ f2 :> 2
=============================================================================
