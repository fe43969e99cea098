--------------------------- MODULE MCExpirySettler ---------------------------
(* Instances of ExpirySettler: a put and a call, two vaults on the put.       *)
EXTENDS ExpirySettler, TLC

CONSTANTS v1, v2, v3, put, call

TwoOTokenOf == v1 :> put @@ v2 :> put
MixedOTokenOf == v1 :> put @@ v2 :> call
BothStrike == put :> 2 @@ call :> 2
BothIsPut == put :> TRUE @@ call :> FALSE
=============================================================================
