--------------------------- MODULE CollateralPool ---------------------------
(***************************************************************************)
(* What the Controller may rely on when it moves collateral: a deposit     *)
(* moves the amount from the users to the pool's books, a payout takes     *)
(* from the books exactly what the user receives, and nothing else touches *)
(* either side.  A payout may fall short of what was asked; what was not   *)
(* paid stays on the books.                                                *)
(***************************************************************************)
EXTENDS Integers

CONSTANTS Assets, Amounts

VARIABLES
    wallet,     \* asset |-> what the users hold
    stored      \* asset |-> what the pool's books say it holds

poolVars == <<wallet, stored>>

PoolInit ==
    /\ wallet \in [Assets -> Nat]
    /\ stored = [a \in Assets |-> 0]

Deposit(a, n) ==
    /\ wallet[a] >= n
    /\ wallet' = [wallet EXCEPT ![a] = @ - n]
    /\ stored' = [stored EXCEPT ![a] = @ + n]

Payout(a, n) ==
    \E paid \in 0 .. n :
        /\ stored[a] >= paid
        /\ wallet' = [wallet EXCEPT ![a] = @ + paid]
        /\ stored' = [stored EXCEPT ![a] = @ - paid]

PoolNext == \E a \in Assets, n \in Amounts : Deposit(a, n) \/ Payout(a, n)

PoolSpec == PoolInit /\ [][PoolNext]_poolVars
=============================================================================
