----------------------------- MODULE MarginPool -----------------------------
(***************************************************************************)
(* The MarginPool contract: custody of the collateral, held directly or    *)
(* supplied to an Aave pool, withdrawal with the aToken fallback, harvest  *)
(* of the yield, and the owner's migration between Aave pools.  Module     *)
(* Controller abstracts this to one balance per asset; the property        *)
(* ImplementsPool says how far that is right.                              *)
(*                                                                         *)
(* Aave is external: a supply or withdrawal may revert at any time, yield  *)
(* accrues on what is supplied, and with Losses # 0 aTokens may vanish.    *)
(* The Controller never asks for more than was deposited and not yet paid. *)
(* The owner registers aTokens apart from the pool: any pool's, at any     *)
(* time.  One of a pool with no balance stands for any other token, but    *)
(* for those that the MarginPool itself holds.                             *)
(*                                                                         *)
(* Bounds: Amounts, InitialWallet and Losses per asset, MaxYield in all.   *)
(***************************************************************************)
EXTENDS Integers, FiniteSets, Functions

CONSTANTS
    Assets,
    AavePools,      \* the Aave deployments the owner may configure
    NoPool,         \* address(0) as an Aave pool or aToken
    Amounts,
    InitialWallet,
    MaxYield,
    Losses

ASSUME MarginPoolAssumption ==
    /\ IsFiniteSet(AavePools)
    /\ NoPool \notin AavePools
    /\ Amounts \subseteq Nat \ {0}
    /\ InitialWallet \in Nat
    /\ MaxYield \in Nat
    /\ Losses \in Nat

VARIABLES
    aavePool,
    isAaveEnabled,
    totalDeposited,     \* asset |-> principal supplied to Aave
    aToken,             \* asset |-> the Aave pool whose aToken is registered
    aaveAssets,         \* the assets ever enabled
    approved,           \* Aave pool |-> asset |-> whether it has an allowance
    direct,             \* asset |-> ERC-20 balance of the MarginPool
    aBalance,           \* Aave pool |-> asset |-> aToken balance
    wallet,             \* asset |-> what the users hold, aTokens included
    owed,               \* asset |-> deposits less the payouts asked for
    accrued,            \* all yield so far
    lost,               \* asset |-> all losses so far
    misread             \* asset |-> what harvests took from the configured pool by
                        \* the balance of another (history, read by no action)

configVars == <<aavePool, isAaveEnabled, aToken, aaveAssets, approved>>
balanceVars == <<totalDeposited, direct, aBalance, wallet, owed>>
marketVars == <<accrued, lost>>
vars == <<configVars, balanceVars, marketVars, misread>>

\* The type invariant of the MarginPool.
TypeOK ==
    /\ aavePool \in AavePools \cup {NoPool}
    /\ isAaveEnabled \in [Assets -> BOOLEAN]
    /\ totalDeposited \in [Assets -> Nat]
    /\ aToken \in [Assets -> AavePools \cup {NoPool}]
    /\ aaveAssets \subseteq Assets
    /\ approved \in [AavePools -> [Assets -> BOOLEAN]]
    /\ direct \in [Assets -> Nat]
    /\ aBalance \in [AavePools -> [Assets -> Nat]]
    /\ wallet \in [Assets -> Nat]
    /\ owed \in [Assets -> Nat]
    /\ accrued \in Nat
    /\ lost \in [Assets -> Nat]
    /\ misread \in [Assets -> Nat]

Init ==
    /\ aavePool = NoPool
    /\ isAaveEnabled = [a \in Assets |-> FALSE]
    /\ totalDeposited = [a \in Assets |-> 0]
    /\ aToken = [a \in Assets |-> NoPool]
    /\ aaveAssets = {}
    /\ approved = [p \in AavePools |-> [a \in Assets |-> FALSE]]
    /\ direct = [a \in Assets |-> 0]
    /\ aBalance = [p \in AavePools |-> [a \in Assets |-> 0]]
    /\ wallet = [a \in Assets |-> InitialWallet]
    /\ owed = [a \in Assets |-> 0]
    /\ accrued = 0
    /\ lost = [a \in Assets |-> 0]
    /\ misread = [a \in Assets |-> 0]

-----------------------------------------------------------------------------
(* Moving collateral.                                                       *)

\* MarginPool.getStoredBalance
StoredBalance(a) == totalDeposited[a] + direct[a]

Supplied(p, a, n) == [aBalance EXCEPT ![p][a] = @ + n]
Withdrawn(p, a, n) == [aBalance EXCEPT ![p][a] = @ - n]

TransferToPool(a, n) ==
    /\ wallet[a] >= n
    /\ wallet' = [wallet EXCEPT ![a] = @ - n]
    /\ owed' = [owed EXCEPT ![a] = @ + n]
    /\ \/ /\ isAaveEnabled[a]
          /\ approved[aavePool][a]
          /\ aBalance' = Supplied(aavePool, a, n)
          /\ totalDeposited' = [totalDeposited EXCEPT ![a] = @ + n]
          /\ UNCHANGED direct
       \/ /\ ~isAaveEnabled[a]
          /\ direct' = [direct EXCEPT ![a] = @ + n]
          /\ UNCHANGED <<aBalance, totalDeposited>>
    /\ UNCHANGED <<configVars, marketVars, misread>>

FromAave(a, n) == IF totalDeposited[a] >= n THEN n ELSE totalDeposited[a]

PayUserWithoutRestore(a, n, taken) ==
    LET fromDirect == n - FromAave(a, n)
    IN  /\ direct[a] >= fromDirect
        /\ totalDeposited' = [totalDeposited EXCEPT ![a] = @ - FromAave(a, n)]
        /\ direct' = [direct EXCEPT ![a] = @ - fromDirect]
        /\ wallet' = [wallet EXCEPT ![a] = @ + taken + fromDirect]
        /\ owed' = [owed EXCEPT ![a] = @ - n]
        /\ UNCHANGED <<configVars, marketVars, misread>>

\* The bookkeeping and the payments once Aave's part is settled with taken.
PayUser(a, n, taken) ==
    LET fromDirect == n - FromAave(a, n)
    IN  /\ direct[a] >= fromDirect
        /\ totalDeposited' = [totalDeposited EXCEPT ![a] = @ - taken]
        /\ direct' = [direct EXCEPT ![a] = @ - fromDirect]
        /\ wallet' = [wallet EXCEPT ![a] = @ + taken + fromDirect]
        /\ owed' = [owed EXCEPT ![a] = @ - n]
        /\ UNCHANGED <<configVars, marketVars, misread>>

\* Aave pays, or there is nothing to withdraw from it.
TransferToUser(a, n) ==
    /\ owed[a] >= n
    /\ \/ FromAave(a, n) = 0 /\ UNCHANGED aBalance
       \/ /\ FromAave(a, n) > 0
          /\ aBalance[aavePool][a] >= FromAave(a, n)
          /\ aBalance' = Withdrawn(aavePool, a, FromAave(a, n))
    /\ PayUser(a, n, FromAave(a, n))

FallbackAmountNone(a, requested) == 0

FallbackAmount(a, requested) ==
    LET balance == aBalance[aToken[a]][a]
    IN  IF requested < balance THEN requested ELSE balance

\* Aave's withdrawal reverts and the user receives aTokens.
TransferToUserFallback(a, n) ==
    LET taken == FallbackAmount(a, FromAave(a, n))
    IN  /\ owed[a] >= n
        /\ FromAave(a, n) > 0
        /\ aToken[a] # NoPool
        /\ aBalance' = Withdrawn(aToken[a], a, taken)
        /\ PayUser(a, n, taken)

-----------------------------------------------------------------------------
(* Yield.                                                                   *)

AccruedWithPrincipal(a) == aBalance[aToken[a]][a]

AccruedYield(a) ==
    LET balance == aBalance[aToken[a]][a]
    IN  IF balance > totalDeposited[a] THEN balance - totalDeposited[a] ELSE 0

HarvestYield(a) ==
    /\ aToken[a] # NoPool
    /\ AccruedYield(a) # 0
    /\ aBalance[aavePool][a] >= AccruedYield(a)
    /\ aBalance' = Withdrawn(aavePool, a, AccruedYield(a))
    /\ misread' = [misread EXCEPT ![a] = IF aToken[a] = aavePool THEN @ ELSE @ + AccruedYield(a)]
    /\ UNCHANGED <<configVars, totalDeposited, direct, wallet, owed, marketVars>>

Accrue(p, a) ==
    /\ accrued < MaxYield
    /\ aBalance[p][a] > 0
    /\ aBalance' = Supplied(p, a, 1)
    /\ accrued' = accrued + 1
    /\ UNCHANGED <<configVars, totalDeposited, direct, wallet, owed, lost, misread>>

Lose(p, a) ==
    /\ lost[a] < Losses
    /\ aBalance[p][a] > 0
    /\ aBalance' = Withdrawn(p, a, 1)
    /\ lost' = [lost EXCEPT ![a] = @ + 1]
    /\ UNCHANGED <<configVars, totalDeposited, direct, wallet, owed, accrued, misread>>

-----------------------------------------------------------------------------
(* The owner.                                                               *)

Drained ==
    \A a \in aaveAssets :
        /\ totalDeposited[a] = 0
        /\ aToken[a] # NoPool => aBalance[aToken[a]][a] = 0

SetAavePool(p) ==
    /\ aavePool # NoPool => Drained
    /\ aavePool' = p
    /\ UNCHANGED <<isAaveEnabled, aToken, aaveAssets, approved, balanceVars, marketVars, misread>>

SetAaveEnabled(a, enabled) ==
    /\ enabled => aavePool # NoPool
    /\ isAaveEnabled' = [isAaveEnabled EXCEPT ![a] = enabled]
    /\ aaveAssets' = IF enabled THEN aaveAssets \cup {a} ELSE aaveAssets
    /\ UNCHANGED <<aavePool, aToken, approved, balanceVars, marketVars, misread>>

DrainAave(a) ==
    /\ totalDeposited[a] # 0
    /\ aBalance[aavePool][a] >= totalDeposited[a]
    /\ aBalance' = Withdrawn(aavePool, a, totalDeposited[a])
    /\ direct' = [direct EXCEPT ![a] = @ + totalDeposited[a]]
    /\ totalDeposited' = [totalDeposited EXCEPT ![a] = 0]
    /\ UNCHANGED <<configVars, wallet, owed, marketVars, misread>>

\* approveAave and revokeAave
ApproveAave(a, allow) ==
    /\ aavePool # NoPool
    /\ approved' = [approved EXCEPT ![aavePool][a] = allow]
    /\ UNCHANGED <<aavePool, isAaveEnabled, aToken, aaveAssets, balanceVars, marketVars, misread>>

\* The owner registers the aToken of Aave pool p, in use or not.
SetAToken(a, p) ==
    /\ aToken' = [aToken EXCEPT ![a] = p]
    /\ UNCHANGED <<aavePool, isAaveEnabled, aaveAssets, approved, balanceVars, marketVars, misread>>

-----------------------------------------------------------------------------
ControllerCall(a) ==
    \E n \in Amounts :
        TransferToPool(a, n) \/ TransferToUser(a, n) \/ TransferToUserFallback(a, n)

OwnerCall(a) ==
    \/ HarvestYield(a) \/ DrainAave(a)
    \/ \E p \in AavePools : SetAToken(a, p)
    \/ \E b \in BOOLEAN : SetAaveEnabled(a, b) \/ ApproveAave(a, b)

Next ==
    \/ \E a \in Assets : ControllerCall(a) \/ OwnerCall(a)
    \/ \E p \in AavePools : SetAavePool(p)
    \/ \E p \in AavePools, a \in Assets : Accrue(p, a) \/ Lose(p, a)

(* Calls come in any order from the Controller, the owner and Aave; nothing *)
(* is assumed to be fair.                                                   *)
Spec == Init /\ [][Next]_vars

-----------------------------------------------------------------------------
\* What the MarginPool has at all Aave pools together.
AtAave(a) == SumFunctionOnSet([p \in AavePools |-> aBalance[p][a]], AavePools)

(* The principal on the books is at Aave, up to what Aave lost: no harvest, *)
(* fallback, drain or migration ever takes from it (harvestYield,           *)
(* transferToUser, setAavePool).  It is at the configured pool, where       *)
(* withdrawals go, but for what harvests took from there by the aToken of   *)
(* another pool, which then holds as much.                                  *)
Backed ==
    \A a \in Assets :
        /\ totalDeposited[a] <= AtAave(a) + lost[a]
        /\ totalDeposited[a] # 0 =>
               /\ aavePool # NoPool
               /\ totalDeposited[a] <= aBalance[aavePool][a] + lost[a] + misread[a]

(* A user is paid less than the Controller asked for only when Aave lost    *)
(* aTokens, or the registered aToken is not the configured pool's or was    *)
(* not at a harvest (the catch branch of transferToUser).                   *)
PaidInFull ==
    [][\A a \in Assets :
           StoredBalance(a)' - owed'[a] > StoredBalance(a) - owed[a] =>
               lost[a] > 0 \/ misread[a] > 0 \/ aToken[a] # aavePool]_vars

(* The pool implements the abstract pool with getStoredBalance as its       *)
(* books: supplying, harvesting, draining and migrating are invisible, and  *)
(* the books fall by exactly what a user receives.                          *)
Books == INSTANCE CollateralPool WITH stored <- [a \in Assets |-> StoredBalance(a)]
ImplementsPool == Books!PoolSpec
=============================================================================
