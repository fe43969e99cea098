---------------------------- MODULE MCMarginPool ----------------------------
(* Instance of MarginPool for TLC.  Assets and Aave pools are alike.        *)
EXTENDS MarginPool, TLC

Symmetry == Permutations(Assets) \cup Permutations(AavePools)
=============================================================================
