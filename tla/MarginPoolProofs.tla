-------------------------- MODULE MarginPoolProofs --------------------------
(***************************************************************************)
(* Theorems about the MarginPool, for every set of assets and Aave pools   *)
(* and every bound on amounts, yield and losses.                           *)
(***************************************************************************)
EXTENDS MarginPool, SumProofs

(* What makes Backed inductive.  An asset that was never enabled has        *)
(* nothing at Aave, so the drain check of setAavePool misses no principal   *)
(* by looking at the enabled assets only; and nothing is enabled before a   *)
(* pool is configured.  Nothing is assumed of the registered aTokens.       *)
Untracked(a) ==
    a \notin aaveAssets =>
        ~isAaveEnabled[a] /\ totalDeposited[a] = 0 /\ \A p \in AavePools : aBalance[p][a] = 0

Configured(a) == aavePool = NoPool => a \notin aaveAssets

\* Where the pool pays from.
AtPool(a) ==
    totalDeposited[a] # 0 =>
        /\ aavePool # NoPool
        /\ totalDeposited[a] <= aBalance[aavePool][a] + lost[a] + misread[a]

Somewhere(a) == totalDeposited[a] <= AtAave(a) + lost[a]

AssetInv(a) == Untracked(a) /\ Configured(a) /\ AtPool(a)

PoolInv ==
    /\ TypeOK
    /\ \A a \in Assets : AssetInv(a)
    /\ \A a \in Assets : Somewhere(a)

USE DEF Supplied, Withdrawn, configVars, balanceVars, marketVars

-----------------------------------------------------------------------------
(* What is at the Aave pools together, and how it moves with one of them.   *)

LEMMA AtAaveType ==
    ASSUME TypeOK, NEW a \in Assets
    PROVE  AtAave(a) \in Nat
<1> DEFINE f == [p \in AavePools |-> aBalance[p][a]]
<1>1. \A p \in AavePools : f[p] \in Nat
  BY DEF TypeOK
<1> HIDE DEF f
<1>2. SumFunctionOnSet(f, AavePools) \in Nat
  BY <1>1, MarginPoolAssumption, SumNat
<1> QED
  BY <1>2 DEF f, AtAave

(* A pool holds no more than all of them, and so do two.                    *)
LEMMA AtOnePool ==
    ASSUME TypeOK, NEW a \in Assets, NEW p \in AavePools
    PROVE  aBalance[p][a] <= AtAave(a)
<1> DEFINE f == [x \in AavePools |-> aBalance[x][a]]
           P == AavePools \ {p}
<1>1. \A x \in AavePools : f[x] \in Nat
  BY DEF TypeOK
<1>2. f[p] = aBalance[p][a]
  OBVIOUS
<1>3. IsFiniteSet(AavePools) /\ IsFiniteSet(P)
  BY MarginPoolAssumption, FS_RemoveElement
<1> HIDE DEF f
<1>4. (\A x \in AavePools : f[x] \in Int) /\ \A x \in P : f[x] \in Nat
  BY <1>1
<1>5. SumFunctionOnSet(f, AavePools) = f[p] + SumFunctionOnSet(f, P)
  BY <1>3, <1>4, SumTake
<1> HIDE DEF P
<1>6. SumFunctionOnSet(f, P) \in Nat
  BY <1>3, <1>4, SumNat
<1>7. AtAave(a) = SumFunctionOnSet(f, AavePools)
  BY DEF f, AtAave
<1> QED
  BY <1>1, <1>2, <1>5, <1>6, <1>7

LEMMA AtTwoPools ==
    ASSUME TypeOK, NEW a \in Assets, NEW p \in AavePools, NEW q \in AavePools, p # q
    PROVE  aBalance[p][a] + aBalance[q][a] <= AtAave(a)
<1> DEFINE f == [x \in AavePools |-> aBalance[x][a]]
           P == AavePools \ {p}
           Q == P \ {q}
<1>1. \A x \in AavePools : f[x] \in Nat
  BY DEF TypeOK
<1>2. f[p] = aBalance[p][a] /\ f[q] = aBalance[q][a]
  OBVIOUS
<1>3. IsFiniteSet(AavePools) /\ IsFiniteSet(P)
  BY MarginPoolAssumption, FS_RemoveElement
<1>4. IsFiniteSet(Q) /\ q \in P
  BY <1>3, FS_RemoveElement
<1> HIDE DEF f
<1>5. /\ \A x \in AavePools : f[x] \in Int
      /\ \A x \in P : f[x] \in Int
      /\ \A x \in Q : f[x] \in Nat
  BY <1>1
<1>6. SumFunctionOnSet(f, AavePools) = f[p] + SumFunctionOnSet(f, P)
  BY <1>3, <1>5, SumTake
<1> HIDE DEF P
<1>7. SumFunctionOnSet(f, P) = f[q] + SumFunctionOnSet(f, Q)
  BY <1>3, <1>4, <1>5, SumTake
<1> HIDE DEF Q
<1>8. SumFunctionOnSet(f, Q) \in Nat
  BY <1>4, <1>5, SumNat
<1>9. AtAave(a) = SumFunctionOnSet(f, AavePools)
  BY DEF f, AtAave
<1> QED
  BY <1>1, <1>2, <1>6, <1>7, <1>8, <1>9

LEMMA AtAaveMoves ==
    ASSUME TypeOK, NEW q \in AavePools, NEW a \in Assets, NEW v \in Nat,
           aBalance' = [aBalance EXCEPT ![q][a] = v], NEW b \in Assets
    PROVE  AtAave(b)' = IF b = a THEN AtAave(a) + (v - aBalance[q][a]) ELSE AtAave(b)
<1> DEFINE f == [p \in AavePools |-> aBalance[p][b]]
           g == [p \in AavePools |-> aBalance'[p][b]]
<1>1. \A p \in AavePools : f[p] \in Int /\ g[p] \in Int
  BY DEF TypeOK
<1>2. \A p \in AavePools : p # q => g[p] = f[p]
  BY DEF TypeOK
<1>3. f[q] = aBalance[q][b] /\ g[q] = IF b = a THEN v ELSE aBalance[q][b]
  BY DEF TypeOK
<1> HIDE DEF f, g
<1>4. SumFunctionOnSet(g, AavePools) = SumFunctionOnSet(f, AavePools) + (g[q] - f[q])
  BY <1>1, <1>2, MarginPoolAssumption, SumUpdate
<1>5. AtAave(b) = SumFunctionOnSet(f, AavePools) /\ AtAave(b)' = SumFunctionOnSet(g, AavePools)
  BY DEF AtAave, f, g
<1>6. AtAave(b) \in Nat
  BY AtAaveType
<1>7. f[q] \in Int /\ g[q] \in Int
  BY <1>1
<1>8. CASE b = a
  BY <1>3, <1>4, <1>5, <1>8
<1>9. CASE b # a
  BY <1>3, <1>4, <1>5, <1>6, <1>7, <1>9
<1> QED
  BY <1>8, <1>9

(* The principal stays somewhere when one balance becomes v, and the books  *)
(* of its asset d.                                                          *)
LEMMA SomewhereMoves ==
    ASSUME PoolInv, NEW q \in AavePools, NEW a \in Assets, NEW v \in Nat, NEW d,
           aBalance' = [aBalance EXCEPT ![q][a] = v],
           totalDeposited' = [totalDeposited EXCEPT ![a] = d],
           \A b \in Assets : b # a => lost'[b] = lost[b],
           d <= AtAave(a) + (v - aBalance[q][a]) + lost'[a]
    PROVE  \A b \in Assets : Somewhere(b)'
<1> SUFFICES ASSUME NEW b \in Assets PROVE Somewhere(b)'
  OBVIOUS
<1>1. TypeOK /\ Somewhere(b)
  BY DEF PoolInv
<1>2. AtAave(b)' = IF b = a THEN AtAave(a) + (v - aBalance[q][a]) ELSE AtAave(b)
  BY <1>1, AtAaveMoves
<1>3. totalDeposited'[b] = IF b = a THEN d ELSE totalDeposited[b]
  BY <1>1 DEF TypeOK
<1> QED
  BY <1>1, <1>2, <1>3 DEF Somewhere

LEMMA SomewhereStays ==
    ASSUME PoolInv, UNCHANGED <<aBalance, totalDeposited, lost>>
    PROVE  \A b \in Assets : Somewhere(b)'
  BY DEF PoolInv, Somewhere, AtAave

LEMMA InitInv == Init => PoolInv
<1> SUFFICES ASSUME Init PROVE PoolInv
  OBVIOUS
<1>1. TypeOK
  BY MarginPoolAssumption DEF Init, TypeOK
<1>2. \A a \in Assets : AssetInv(a)
  BY MarginPoolAssumption DEF Init, AssetInv, Untracked, Configured, AtPool
<1>3. \A a \in Assets : Somewhere(a)
  <2> SUFFICES ASSUME NEW a \in Assets PROVE Somewhere(a)
    OBVIOUS
  <2>1. AtAave(a) \in Nat
    BY <1>1, AtAaveType
  <2>2. totalDeposited[a] = 0 /\ lost[a] = 0
    BY DEF Init
  <2> QED
    BY <2>1, <2>2 DEF Somewhere
<1> QED
  BY <1>1, <1>2, <1>3 DEF PoolInv

-----------------------------------------------------------------------------
(* The steps.                                                               *)

LEMMA FromAaveBounds ==
    ASSUME TypeOK, NEW a \in Assets, NEW n \in Nat
    PROVE  /\ FromAave(a, n) \in Nat
           /\ FromAave(a, n) <= n
           /\ FromAave(a, n) <= totalDeposited[a]
  BY DEF FromAave, TypeOK

LEMMA FallbackBounds ==
    ASSUME TypeOK, NEW a \in Assets, NEW n \in Nat, aToken[a] # NoPool
    PROVE  /\ FallbackAmount(a, n) \in Nat
           /\ FallbackAmount(a, n) <= n
           /\ FallbackAmount(a, n) <= aBalance[aToken[a]][a]
  BY DEF FallbackAmount, TypeOK

LEMMA PayUserType ==
    ASSUME TypeOK, NEW a \in Assets, NEW n \in Amounts, NEW taken \in Nat,
           owed[a] >= n, taken <= FromAave(a, n), PayUser(a, n, taken),
           aBalance' \in [AavePools -> [Assets -> Nat]]
    PROVE  TypeOK'
<1> DEFINE fromDirect == n - FromAave(a, n)
<1>1. n \in Nat
  BY MarginPoolAssumption
<1>2. fromDirect \in Nat /\ taken <= totalDeposited[a]
  BY <1>1, FromAaveBounds DEF TypeOK
<1>3. /\ direct[a] >= fromDirect
      /\ direct' = [direct EXCEPT ![a] = @ - fromDirect]
      /\ wallet' = [wallet EXCEPT ![a] = @ + taken + fromDirect]
  BY DEF PayUser
<1> HIDE DEF fromDirect
<1>4. direct' \in [Assets -> Nat] /\ wallet' \in [Assets -> Nat]
  BY <1>2, <1>3 DEF TypeOK
<1>5. totalDeposited' \in [Assets -> Nat] /\ owed' \in [Assets -> Nat]
  BY <1>1, <1>2 DEF PayUser, TypeOK
<1>6. QED
  BY <1>4, <1>5 DEF PayUser, TypeOK

LEMMA ToPoolStep ==
    ASSUME PoolInv, NEW a \in Assets, NEW n \in Amounts, TransferToPool(a, n)
    PROVE  PoolInv'
<1>1. n \in Nat /\ TypeOK
  BY MarginPoolAssumption DEF PoolInv
<1>2. CASE isAaveEnabled[a]
  <2>1. aavePool \in AavePools
    BY <1>2 DEF PoolInv, TypeOK, AssetInv, Untracked, Configured
  <2>2. /\ aBalance' = [aBalance EXCEPT ![aavePool][a] = @ + n]
        /\ totalDeposited' = [totalDeposited EXCEPT ![a] = @ + n]
        /\ UNCHANGED <<direct, configVars, marketVars, misread>>
    BY <1>2 DEF TransferToPool
  <2>3. TypeOK'
    BY <1>1, <2>1, <2>2 DEF TransferToPool, TypeOK
  <2>4. ASSUME NEW b \in Assets
        PROVE  AssetInv(b)'
    BY <1>1, <1>2, <2>1, <2>2
    DEF PoolInv, TypeOK, AssetInv, Untracked, Configured, AtPool
  <2>5. \A b \in Assets : Somewhere(b)'
    <3> DEFINE v == aBalance[aavePool][a] + n
               d == totalDeposited[a] + n
    <3>1. aBalance[aavePool][a] \in Nat /\ totalDeposited[a] \in Nat /\ AtAave(a) \in Nat
          /\ lost[a] \in Nat /\ lost' = lost
      BY <1>1, <2>1, <2>2, AtAaveType DEF TypeOK
    <3>2. /\ aBalance' = [aBalance EXCEPT ![aavePool][a] = v]
          /\ totalDeposited' = [totalDeposited EXCEPT ![a] = d]
      BY <2>2
    <3>3. v \in Nat /\ d <= AtAave(a) + (v - aBalance[aavePool][a]) + lost'[a]
      BY <1>1, <3>1 DEF PoolInv, Somewhere
    <3> HIDE DEF v, d
    <3> QED
      BY <2>1, <3>1, <3>2, <3>3, SomewhereMoves
  <2> QED
    BY <2>3, <2>4, <2>5 DEF PoolInv
<1>3. CASE ~isAaveEnabled[a]
  <2>1. /\ direct' = [direct EXCEPT ![a] = @ + n]
        /\ UNCHANGED <<aBalance, totalDeposited, configVars, marketVars, misread>>
    BY <1>3 DEF TransferToPool
  <2>2. TypeOK'
    BY <1>1, <2>1 DEF TransferToPool, TypeOK
  <2>3. ASSUME NEW b \in Assets
        PROVE  AssetInv(b)'
    BY <2>1 DEF PoolInv, AssetInv, Untracked, Configured, AtPool
  <2> QED
    BY <2>1, <2>2, <2>3, SomewhereStays DEF PoolInv
<1> QED
  BY <1>2, <1>3

(* Aave's part of a payout leaves one pool and the books together, whether  *)
(* it is the configured pool or the one whose aToken is registered.         *)
LEMMA TakenStep ==
    ASSUME PoolInv, NEW a \in Assets, NEW n \in Amounts, NEW q \in AavePools, NEW taken \in Nat,
           owed[a] >= n, taken <= FromAave(a, n), taken <= aBalance[q][a],
           PayUser(a, n, taken), aBalance' = [aBalance EXCEPT ![q][a] = @ - taken]
    PROVE  PoolInv'
<1>1. TypeOK /\ n \in Nat /\ FromAave(a, n) \in Nat /\ FromAave(a, n) <= totalDeposited[a]
  BY MarginPoolAssumption, FromAaveBounds DEF PoolInv
<1>2. /\ totalDeposited' = [totalDeposited EXCEPT ![a] = @ - taken]
      /\ UNCHANGED <<configVars, marketVars, misread>>
  BY DEF PayUser
<1>3. /\ aBalance[q][a] \in Nat /\ totalDeposited[a] \in Nat /\ AtAave(a) \in Nat
      /\ lost[a] \in Nat /\ lost' = lost
  BY <1>1, <1>2, AtAaveType DEF TypeOK
<1>4. aBalance' \in [AavePools -> [Assets -> Nat]]
  BY <1>1 DEF TypeOK
<1>5. TypeOK'
  BY <1>1, <1>4, PayUserType
<1>6. ASSUME NEW b \in Assets
      PROVE  AssetInv(b)'
  <2>1. CASE b = a
    <3>1. totalDeposited'[a] = totalDeposited[a] - taken
      BY <1>1, <1>2 DEF TypeOK
    <3>2. \A p \in AavePools : aBalance'[p][a] \in Nat /\ aBalance'[p][a] <= aBalance[p][a]
                               /\ aBalance'[p][a] >= aBalance[p][a] - taken
      BY <1>1, <1>3, <1>4 DEF TypeOK
    <3>3. Untracked(a)'
      BY <1>1, <1>2, <1>3, <3>1, <3>2 DEF PoolInv, AssetInv, Untracked, TypeOK
    <3>4. Configured(a)'
      BY <1>2 DEF PoolInv, AssetInv, Configured
    <3>5. AtPool(a)'
      <4> SUFFICES ASSUME totalDeposited'[a] # 0
                   PROVE  /\ aavePool' # NoPool
                          /\ totalDeposited'[a] <= aBalance'[aavePool'][a] + lost'[a] + misread'[a]
        BY DEF AtPool
      <4>1. totalDeposited[a] # 0
        BY <1>1, <1>3, <3>1
      <4>2. /\ aavePool \in AavePools /\ aavePool # NoPool
            /\ totalDeposited[a] <= aBalance[aavePool][a] + lost[a] + misread[a]
        BY <1>1, <4>1 DEF PoolInv, AssetInv, AtPool, TypeOK
      <4>3. aBalance[aavePool][a] \in Nat /\ misread[a] \in Nat
        BY <1>1, <4>2 DEF TypeOK
      <4>4. aavePool' = aavePool /\ misread' = misread
        BY <1>2
      <4> QED
        BY <1>3, <3>1, <3>2, <4>2, <4>3, <4>4
    <3> QED
      BY <2>1, <3>3, <3>4, <3>5 DEF AssetInv
  <2>2. CASE b # a
    BY <1>1, <1>2, <2>2
    DEF PoolInv, TypeOK, AssetInv, Untracked, Configured, AtPool
  <2> QED
    BY <2>1, <2>2
<1>7. \A b \in Assets : Somewhere(b)'
  <2> DEFINE v == aBalance[q][a] - taken
             d == totalDeposited[a] - taken
  <2>1. /\ aBalance' = [aBalance EXCEPT ![q][a] = v]
        /\ totalDeposited' = [totalDeposited EXCEPT ![a] = d]
    BY <1>2
  <2>2. v \in Nat /\ d <= AtAave(a) + (v - aBalance[q][a]) + lost'[a]
    BY <1>3 DEF PoolInv, Somewhere
  <2> HIDE DEF v, d
  <2> QED
    BY <1>3, <2>1, <2>2, SomewhereMoves
<1> QED
  BY <1>5, <1>6, <1>7 DEF PoolInv

LEMMA ToUserStep ==
    ASSUME PoolInv, NEW a \in Assets, NEW n \in Amounts, TransferToUser(a, n)
    PROVE  PoolInv'
<1> DEFINE taken == FromAave(a, n)
<1>1. /\ TypeOK /\ n \in Nat /\ taken \in Nat /\ taken <= totalDeposited[a]
      /\ PayUser(a, n, taken) /\ owed[a] >= n
  BY MarginPoolAssumption, FromAaveBounds DEF PoolInv, TransferToUser
<1>2. /\ totalDeposited' = [totalDeposited EXCEPT ![a] = @ - taken]
      /\ UNCHANGED <<configVars, marketVars, misread>>
  BY <1>1 DEF PayUser
<1>3. CASE taken = 0 /\ UNCHANGED aBalance
  <2>1. TypeOK'
    BY <1>1, <1>3, PayUserType DEF TypeOK
  <2>2. UNCHANGED totalDeposited
    BY <1>1, <1>2, <1>3 DEF TypeOK
  <2>3. ASSUME NEW b \in Assets
        PROVE  AssetInv(b)'
    BY <1>2, <1>3, <2>2 DEF PoolInv, AssetInv, Untracked, Configured, AtPool
  <2> QED
    BY <1>2, <1>3, <2>1, <2>2, <2>3, SomewhereStays DEF PoolInv
<1>4. CASE /\ taken > 0
           /\ aBalance[aavePool][a] >= taken
           /\ aBalance' = [aBalance EXCEPT ![aavePool][a] = @ - taken]
  <2>1. aavePool \in AavePools
    BY <1>1, <1>4 DEF PoolInv, TypeOK, AssetInv, AtPool
  <2>2. /\ taken <= FromAave(a, n) /\ taken <= aBalance[aavePool][a]
        /\ aBalance' = [aBalance EXCEPT ![aavePool][a] = @ - taken]
    <3>1. aBalance[aavePool][a] \in Nat
      BY <1>1, <2>1 DEF TypeOK
    <3> QED
      BY <1>1, <1>4, <3>1
  <2> HIDE DEF taken
  <2> QED
    BY <1>1, <2>1, <2>2, TakenStep
<1> QED
  BY <1>3, <1>4 DEF TransferToUser

LEMMA FallbackStep ==
    ASSUME PoolInv, NEW a \in Assets, NEW n \in Amounts, TransferToUserFallback(a, n)
    PROVE  PoolInv'
<1> DEFINE asked == FromAave(a, n)
           taken == FallbackAmount(a, asked)
           q     == aToken[a]
<1>1. /\ TypeOK /\ n \in Nat /\ owed[a] >= n /\ q \in AavePools /\ q # NoPool
      /\ asked \in Nat
  BY MarginPoolAssumption, FromAaveBounds DEF PoolInv, TypeOK, TransferToUserFallback
<1>2. taken \in Nat /\ taken <= asked /\ taken <= aBalance[q][a]
  BY <1>1, FallbackBounds
<1>3. PayUser(a, n, taken) /\ aBalance' = [aBalance EXCEPT ![q][a] = @ - taken]
  BY DEF TransferToUserFallback
<1> QED
  BY <1>1, <1>2, <1>3, TakenStep

(* A harvest takes what the balance of the registered aToken exceeds the    *)
(* principal by.  Of the configured pool's aToken that leaves the principal *)
(* there; of another's, what it takes is at the other pool in addition to   *)
(* the principal.                                                           *)
LEMMA HarvestStep ==
    ASSUME PoolInv, NEW a \in Assets, HarvestYield(a)
    PROVE  PoolInv'
<1> DEFINE y == AccruedYield(a)
           v == aBalance[aavePool][a] - y
           r == aToken[a]
           taken == IF r = aavePool THEN 0 ELSE y
<1>1. /\ TypeOK /\ r \in AavePools
      /\ y # 0 /\ aBalance[aavePool][a] >= y
      /\ aBalance' = [aBalance EXCEPT ![aavePool][a] = @ - y]
      /\ misread' = [misread EXCEPT ![a] = IF r = aavePool THEN @ ELSE @ + y]
      /\ UNCHANGED <<configVars, totalDeposited, direct, wallet, owed, marketVars>>
  BY DEF PoolInv, TypeOK, HarvestYield
<1>2. /\ y \in Nat /\ y = aBalance[r][a] - totalDeposited[a]
      /\ aBalance[r][a] # 0
  BY <1>1 DEF AccruedYield, TypeOK
<1>3. aavePool \in AavePools /\ a \in aaveAssets
  BY <1>1, <1>2 DEF PoolInv, TypeOK, AssetInv, Untracked, Configured
<1>4. /\ aBalance[aavePool][a] \in Nat /\ totalDeposited[a] \in Nat /\ aBalance[r][a] \in Nat
      /\ AtAave(a) \in Nat /\ lost[a] \in Nat /\ misread[a] \in Nat /\ lost' = lost
  BY <1>1, <1>3, AtAaveType DEF TypeOK
<1>5. /\ aBalance' = [aBalance EXCEPT ![aavePool][a] = v]
      /\ misread' = [misread EXCEPT ![a] = misread[a] + taken]
  <2>1. (IF r = aavePool THEN misread[a] ELSE misread[a] + y) = misread[a] + taken
    BY <1>2, <1>4
  <2> HIDE DEF y, r, taken
  <2> QED
    BY <1>1, <2>1
<1>6. taken \in Nat /\ v \in Nat
  BY <1>1, <1>2, <1>4
<1>7. v + taken >= totalDeposited[a] \/ (taken = y /\ r # aavePool)
  BY <1>2, <1>4
<1> HIDE DEF y, v, r, taken
<1>8. TypeOK'
  BY <1>1, <1>3, <1>5, <1>6, <1>4 DEF TypeOK
<1>9. ASSUME NEW b \in Assets
      PROVE  AssetInv(b)'
  <2>1. CASE b = a
    <3>1. Untracked(a)' /\ Configured(a)'
      BY <1>1, <1>3 DEF PoolInv, AssetInv, Untracked, Configured
    <3>2. /\ aBalance'[aavePool][a] = v /\ misread'[a] = misread[a] + taken
          /\ totalDeposited' = totalDeposited /\ aavePool' = aavePool
      BY <1>1, <1>3, <1>5 DEF TypeOK
    <3>3. totalDeposited[a] <= v + lost[a] + (misread[a] + taken) \/ totalDeposited[a] = 0
      <4>1. CASE taken = y
        <5>1. totalDeposited[a] # 0 =>
                  totalDeposited[a] <= aBalance[aavePool][a] + lost[a] + misread[a]
          BY DEF PoolInv, AssetInv, AtPool
        <5> QED
          BY <1>4, <1>6, <4>1, <5>1 DEF v
      <4>2. CASE v + taken >= totalDeposited[a]
        BY <1>4, <1>6, <4>2
      <4> QED
        BY <1>7, <4>1, <4>2
    <3>4. AtPool(a)'
      BY <1>3, <1>4, <3>2, <3>3, MarginPoolAssumption DEF AtPool
    <3> QED
      BY <2>1, <3>1, <3>4 DEF AssetInv
  <2>2. CASE b # a
    BY <1>1, <1>3, <2>2
    DEF PoolInv, TypeOK, AssetInv, Untracked, Configured, AtPool
  <2> QED
    BY <2>1, <2>2
<1>10. \A b \in Assets : Somewhere(b)'
  <2>1. totalDeposited[a] <= AtAave(a) + (v - aBalance[aavePool][a])
    <3>1. CASE r # aavePool
      <4>1. aBalance[r][a] + aBalance[aavePool][a] <= AtAave(a)
        BY <1>1, <1>3, <3>1, AtTwoPools
      <4> QED
        BY <1>2, <1>4, <4>1 DEF v
    <3>2. CASE r = aavePool
      <4>1. aBalance[aavePool][a] <= AtAave(a)
        BY <1>1, <1>3, AtOnePool
      <4> QED
        BY <1>2, <1>4, <3>2, <4>1 DEF v
    <3> QED
      BY <3>1, <3>2
  <2>2. totalDeposited[a] <= AtAave(a) + (v - aBalance[aavePool][a]) + lost'[a]
    BY <1>4, <1>6, <2>1
  <2>3. totalDeposited' = [totalDeposited EXCEPT ![a] = totalDeposited[a]]
    BY <1>1 DEF TypeOK
  <2> QED
    BY <1>3, <1>4, <1>5, <1>6, <2>2, <2>3, SomewhereMoves
<1> QED
  BY <1>8, <1>9, <1>10 DEF PoolInv

LEMMA MarketStep ==
    ASSUME PoolInv, NEW p \in AavePools, NEW a \in Assets, Accrue(p, a) \/ Lose(p, a)
    PROVE  PoolInv'
<1>0. /\ TypeOK /\ aBalance[p][a] \in Nat /\ totalDeposited[a] \in Nat /\ AtAave(a) \in Nat
      /\ lost[a] \in Nat /\ totalDeposited[a] <= AtAave(a) + lost[a]
      /\ totalDeposited = [totalDeposited EXCEPT ![a] = totalDeposited[a]]
  BY AtAaveType DEF PoolInv, TypeOK, Somewhere
<1>1. CASE Accrue(p, a)
  <2>1. TypeOK'
    BY <1>1 DEF Accrue, PoolInv, TypeOK
  <2>2. ASSUME NEW b \in Assets
        PROVE  AssetInv(b)'
    BY <1>1, <2>2
    DEF Accrue, PoolInv, TypeOK, AssetInv, Untracked, Configured, AtPool
  <2>3. \A b \in Assets : Somewhere(b)'
    <3> DEFINE v == aBalance[p][a] + 1
    <3>1. aBalance' = [aBalance EXCEPT ![p][a] = v] /\ UNCHANGED <<totalDeposited, lost>>
      BY <1>1 DEF Accrue
    <3>2. v \in Nat /\ totalDeposited[a] <= AtAave(a) + (v - aBalance[p][a]) + lost'[a]
      BY <1>0, <3>1
    <3> HIDE DEF v
    <3> QED
      BY <1>0, <3>1, <3>2, SomewhereMoves
  <2> QED
    BY <2>1, <2>2, <2>3 DEF PoolInv
<1>2. CASE Lose(p, a)
  <2>1. TypeOK'
    BY <1>2 DEF Lose, PoolInv, TypeOK
  <2>2. ASSUME NEW b \in Assets
        PROVE  AssetInv(b)'
    BY <1>2, <2>2
    DEF Lose, PoolInv, TypeOK, AssetInv, Untracked, Configured, AtPool
  <2>3. \A b \in Assets : Somewhere(b)'
    <3> DEFINE v == aBalance[p][a] - 1
    <3>1. aBalance' = [aBalance EXCEPT ![p][a] = v] /\ UNCHANGED totalDeposited
          /\ aBalance[p][a] > 0
      BY <1>2 DEF Lose
    <3>2. lost'[a] = lost[a] + 1 /\ \A b \in Assets : b # a => lost'[b] = lost[b]
      BY <1>0, <1>2 DEF Lose, TypeOK
    <3>3. v \in Nat /\ totalDeposited[a] <= AtAave(a) + (v - aBalance[p][a]) + lost'[a]
      BY <1>0, <3>1, <3>2
    <3> HIDE DEF v
    <3> QED
      BY <1>0, <3>1, <3>2, <3>3, SomewhereMoves
  <2> QED
    BY <2>1, <2>2, <2>3 DEF PoolInv
<1> QED
  BY <1>1, <1>2

LEMMA DrainStep ==
    ASSUME PoolInv, NEW a \in Assets, DrainAave(a)
    PROVE  PoolInv'
<1> DEFINE v == aBalance[aavePool][a] - totalDeposited[a]
<1>1. aavePool \in AavePools /\ TypeOK
  BY DEF DrainAave, PoolInv, TypeOK, AssetInv, AtPool
<1>2. TypeOK'
  BY <1>1 DEF DrainAave, TypeOK
<1>3. ASSUME NEW b \in Assets
      PROVE  AssetInv(b)'
  BY <1>1, <1>3
  DEF DrainAave, PoolInv, TypeOK, AssetInv, Untracked, Configured, AtPool
<1>4. /\ aBalance' = [aBalance EXCEPT ![aavePool][a] = v]
      /\ totalDeposited' = [totalDeposited EXCEPT ![a] = 0]
      /\ lost' = lost /\ aBalance[aavePool][a] >= totalDeposited[a]
  BY DEF DrainAave
<1>5. aBalance[aavePool][a] \in Nat /\ totalDeposited[a] \in Nat /\ lost[a] \in Nat
  BY <1>1 DEF TypeOK
<1>6. v \in Nat /\ 0 <= AtAave(a) + (v - aBalance[aavePool][a]) + lost'[a]
  <2>1. aBalance[aavePool][a] <= AtAave(a) /\ AtAave(a) \in Nat
    BY <1>1, AtOnePool, AtAaveType
  <2> QED
    BY <1>4, <1>5, <2>1
<1> HIDE DEF v
<1>7. \A b \in Assets : Somewhere(b)'
  BY <1>1, <1>4, <1>6, SomewhereMoves
<1> QED
  BY <1>2, <1>3, <1>7 DEF PoolInv

LEMMA OwnerStep ==
    ASSUME PoolInv, NEW a \in Assets,
           \/ \E p \in AavePools : SetAToken(a, p)
           \/ \E b \in BOOLEAN : SetAaveEnabled(a, b) \/ ApproveAave(a, b)
    PROVE  PoolInv'
<1>0. UNCHANGED <<aBalance, totalDeposited, lost>>
  BY DEF SetAToken, SetAaveEnabled, ApproveAave
<1>1. ASSUME NEW p \in AavePools, SetAToken(a, p)
      PROVE  TypeOK' /\ \A b \in Assets : AssetInv(b)'
  <2>1. TypeOK'
    BY <1>1 DEF SetAToken, PoolInv, TypeOK
  <2>2. ASSUME NEW b \in Assets
        PROVE  AssetInv(b)'
    BY <1>1, <2>2
    DEF SetAToken, PoolInv, TypeOK, AssetInv, Untracked, Configured, AtPool
  <2> QED
    BY <2>1, <2>2
<1>2. ASSUME NEW enabled \in BOOLEAN, SetAaveEnabled(a, enabled)
      PROVE  TypeOK' /\ \A b \in Assets : AssetInv(b)'
  <2>1. TypeOK'
    BY <1>2 DEF SetAaveEnabled, PoolInv, TypeOK
  <2>2. ASSUME NEW b \in Assets
        PROVE  AssetInv(b)'
    <3>1. isAaveEnabled'[b] => isAaveEnabled[b] \/ (b = a /\ a \in aaveAssets')
      BY <1>2 DEF SetAaveEnabled, PoolInv, TypeOK
    <3>2. aaveAssets \subseteq aaveAssets' /\ (aavePool = NoPool => aaveAssets' = aaveAssets)
      BY <1>2 DEF SetAaveEnabled
    <3>3. UNCHANGED <<aavePool, aToken, balanceVars, marketVars, misread>>
      BY <1>2 DEF SetAaveEnabled
    <3> QED
      BY <2>2, <3>1, <3>2, <3>3
      DEF PoolInv, AssetInv, Untracked, Configured, AtPool
  <2> QED
    BY <2>1, <2>2
<1>3. ASSUME NEW allow \in BOOLEAN, ApproveAave(a, allow)
      PROVE  TypeOK' /\ \A b \in Assets : AssetInv(b)'
  <2>1. TypeOK'
    BY <1>3 DEF ApproveAave, PoolInv, TypeOK
  <2> QED
    BY <1>3, <2>1
    DEF ApproveAave, PoolInv, AssetInv, Untracked, Configured, AtPool
<1> QED
  BY <1>0, <1>1, <1>2, <1>3, SomewhereStays DEF PoolInv

LEMMA SetPoolStep ==
    ASSUME PoolInv, NEW q \in AavePools, SetAavePool(q)
    PROVE  PoolInv'
<1>1. TypeOK'
  BY DEF SetAavePool, PoolInv, TypeOK
<1>2. ASSUME NEW a \in Assets
      PROVE  AssetInv(a)'
  <2>1. totalDeposited[a] = 0
    BY <1>2 DEF SetAavePool, Drained, PoolInv, TypeOK, AssetInv, Untracked, Configured
  <2> QED
    BY <1>2, <2>1, MarginPoolAssumption
    DEF SetAavePool, PoolInv, AssetInv, Untracked, Configured, AtPool
<1>3. UNCHANGED <<aBalance, totalDeposited, lost>>
  BY DEF SetAavePool
<1> QED
  BY <1>1, <1>2, <1>3, SomewhereStays DEF PoolInv

LEMMA InvInductive == PoolInv /\ [Next]_vars => PoolInv'
<1> SUFFICES ASSUME PoolInv, [Next]_vars
             PROVE  PoolInv'
  OBVIOUS
<1>1. CASE Next
  BY <1>1, ToPoolStep, ToUserStep, FallbackStep, HarvestStep, MarketStep, DrainStep,
     OwnerStep, SetPoolStep
  DEF Next, ControllerCall, OwnerCall
<1>2. CASE UNCHANGED vars
  BY <1>2
  DEF vars, PoolInv, TypeOK, AssetInv, Untracked, Configured, AtPool, Somewhere, AtAave
<1>3. QED
  BY <1>1, <1>2

THEOREM InvariantHolds == Spec => []PoolInv
  BY InitInv, InvInductive, PTL DEF Spec

-----------------------------------------------------------------------------
(* No balance, allowance or book entry of the MarginPool leaves its type:   *)
(* transferToUser and harvestYield never subtract more than there is.       *)
THEOREM TypeCorrect == Spec => []TypeOK
<1>1. PoolInv => TypeOK
  BY DEF PoolInv
<1>2. QED
  BY <1>1, InvariantHolds, PTL

(* The principal on the books is at Aave up to what Aave lost, and at the   *)
(* configured pool but for what harvests took from there by another pool's  *)
(* aToken, through every harvest, fallback, drain, migration and            *)
(* registration of an aToken (harvestYield, setAavePool, setAToken).        *)
THEOREM PrincipalBacked == Spec => []Backed
<1>1. PoolInv => Backed
  BY DEF PoolInv, AssetInv, AtPool, Somewhere, Backed
<1>2. QED
  BY <1>1, InvariantHolds, PTL

-----------------------------------------------------------------------------
(* The refinement.                                                          *)

LEMMA PayoutRefines ==
    ASSUME TypeOK, NEW a \in Assets, NEW n \in Amounts, NEW taken \in Nat,
           taken <= FromAave(a, n), PayUser(a, n, taken)
    PROVE  Books!Payout(a, n)
<1> DEFINE fromDirect == n - FromAave(a, n)
           paid       == taken + fromDirect
<1>1. /\ n \in Nat /\ FromAave(a, n) \in Nat /\ FromAave(a, n) <= n
      /\ taken <= totalDeposited[a]
  BY MarginPoolAssumption, FromAaveBounds DEF TypeOK
<1>2. fromDirect \in Nat /\ paid \in 0 .. n
  BY <1>1
<1>3. /\ direct[a] >= fromDirect
      /\ totalDeposited' = [totalDeposited EXCEPT ![a] = @ - taken]
      /\ direct' = [direct EXCEPT ![a] = @ - fromDirect]
      /\ wallet' = [wallet EXCEPT ![a] = @ + taken + fromDirect]
  BY DEF PayUser
<1> HIDE DEF fromDirect
<1>4. /\ StoredBalance(a) >= paid
      /\ wallet' = [wallet EXCEPT ![a] = @ + paid]
  <2>1. StoredBalance(a) >= paid
    BY <1>1, <1>2, <1>3 DEF StoredBalance, TypeOK
  <2>2. wallet[a] + taken + fromDirect = wallet[a] + paid
    BY <1>2 DEF TypeOK
  <2> HIDE DEF paid
  <2>3. wallet' = [wallet EXCEPT ![a] = wallet[a] + paid]
    BY <1>3, <2>2
  <2>4. QED
    BY <2>1, <2>3
<1>5. [b \in Assets |-> StoredBalance(b)'] =
          [[b \in Assets |-> StoredBalance(b)] EXCEPT ![a] = @ - paid]
  <2>1. ASSUME NEW b \in Assets
        PROVE  StoredBalance(b)' = IF b = a THEN StoredBalance(a) - paid ELSE StoredBalance(b)
    BY <1>1, <1>2, <1>3 DEF StoredBalance, TypeOK
  <2>2. QED
    BY <2>1
<1>6. QED
  BY <1>2, <1>4, <1>5 DEF Books!Payout

LEMMA DepositRefines ==
    ASSUME TypeOK, NEW a \in Assets, NEW n \in Amounts, TransferToPool(a, n)
    PROVE  Books!Deposit(a, n)
<1>1. ASSUME NEW b \in Assets
      PROVE  StoredBalance(b)' = IF b = a THEN StoredBalance(a) + n ELSE StoredBalance(b)
  BY <1>1, MarginPoolAssumption DEF TransferToPool, StoredBalance, TypeOK
<1>2. [b \in Assets |-> StoredBalance(b)'] =
          [[b \in Assets |-> StoredBalance(b)] EXCEPT ![a] = @ + n]
  BY <1>1
<1>3. QED
  BY <1>2 DEF TransferToPool, Books!Deposit

LEMMA InvisibleRefines ==
    ASSUME TypeOK, UNCHANGED wallet, \A a \in Assets : StoredBalance(a)' = StoredBalance(a)
    PROVE  UNCHANGED Books!poolVars
<1>1. [a \in Assets |-> StoredBalance(a)'] = [a \in Assets |-> StoredBalance(a)]
  OBVIOUS
<1>2. QED
  BY <1>1 DEF Books!poolVars

(* The MarginPool implements the pool the Controller relies on: supplying   *)
(* to Aave, harvesting, draining and migrating never show, and its books    *)
(* fall by exactly what the user receives, fallback included.               *)
THEOREM Refinement == Spec => ImplementsPool
<1>1. Init => Books!PoolInit
  <2> SUFFICES ASSUME Init
               PROVE  Books!PoolInit
    OBVIOUS
  <2>1. \A a \in Assets : StoredBalance(a) = 0
    BY DEF Init, StoredBalance
  <2>2. wallet \in [Assets -> Nat]
    BY MarginPoolAssumption DEF Init
  <2>3. QED
    BY <2>1, <2>2 DEF Books!PoolInit
<1>2. PoolInv /\ [Next]_vars => [Books!PoolNext]_Books!poolVars
  <2> SUFFICES ASSUME PoolInv, [Next]_vars
               PROVE  [Books!PoolNext]_Books!poolVars
    OBVIOUS
  <2>0. TypeOK
    BY DEF PoolInv
  <2>1. ASSUME NEW a \in Assets, NEW n \in Amounts, TransferToPool(a, n)
        PROVE  Books!PoolNext
    BY <2>0, <2>1, DepositRefines DEF Books!PoolNext
  <2>2. ASSUME NEW a \in Assets, NEW n \in Amounts,
               TransferToUser(a, n) \/ TransferToUserFallback(a, n)
        PROVE  Books!PoolNext
    <3>1. n \in Nat
      BY MarginPoolAssumption
    <3>2. FromAave(a, n) \in Nat
      BY <2>0, <3>1, FromAaveBounds
    <3>3. \E taken \in Nat : taken <= FromAave(a, n) /\ PayUser(a, n, taken)
      <4>1. CASE TransferToUser(a, n)
        BY <4>1, <3>2 DEF TransferToUser
      <4>2. CASE TransferToUserFallback(a, n)
        BY <4>2, <2>0, <3>2, FallbackBounds DEF TransferToUserFallback
      <4>3. QED
        BY <2>2, <4>1, <4>2
    <3>4. QED
      BY <2>0, <3>3, PayoutRefines DEF Books!PoolNext
  <2>3. ASSUME NEW a \in Assets, DrainAave(a)
        PROVE  UNCHANGED Books!poolVars
    <3>1. \A b \in Assets : StoredBalance(b)' = StoredBalance(b)
      BY <2>0, <2>3 DEF DrainAave, StoredBalance, TypeOK
    <3>2. QED
      BY <2>0, <2>3, <3>1, InvisibleRefines DEF DrainAave
  <2>4. CASE UNCHANGED <<totalDeposited, direct, wallet>>
    BY <2>0, <2>4, InvisibleRefines DEF StoredBalance
  <2>5. QED
    BY <2>1, <2>2, <2>3, <2>4
    DEF Next, ControllerCall, OwnerCall, HarvestYield, SetAToken, SetAaveEnabled,
        ApproveAave, SetAavePool, Accrue, Lose, vars
<1>3. QED
  BY <1>1, <1>2, InvariantHolds, PTL DEF Spec, ImplementsPool, Books!PoolSpec

-----------------------------------------------------------------------------
(* Full payment.                                                            *)

\* What a payout that takes taken from Aave leaves on the books of the asset.
LEMMA PayoutBooks ==
    ASSUME TypeOK, NEW a \in Assets, NEW n \in Amounts, NEW taken \in Nat,
           taken <= FromAave(a, n), PayUser(a, n, taken), NEW b \in Assets
    PROVE  StoredBalance(b)' - owed'[b] =
               StoredBalance(b) - owed[b] + IF b = a THEN FromAave(a, n) - taken ELSE 0
<1> DEFINE fromAave == FromAave(a, n)
<1>1. n \in Nat /\ fromAave \in Nat
  BY MarginPoolAssumption, FromAaveBounds
<1>2. /\ totalDeposited' = [totalDeposited EXCEPT ![a] = @ - taken]
      /\ direct' = [direct EXCEPT ![a] = @ - (n - fromAave)]
      /\ owed' = [owed EXCEPT ![a] = @ - n]
  BY DEF PayUser
<1> HIDE DEF fromAave
<1>3. StoredBalance(b)' - owed'[b] =
          StoredBalance(b) - owed[b] + IF b = a THEN fromAave - taken ELSE 0
  BY <1>1, <1>2 DEF StoredBalance, TypeOK
<1> QED
  BY <1>3 DEF fromAave

(* With the configured pool's aToken registered, at every harvest too, and  *)
(* nothing lost, a fallback hands over all of Aave's part.                  *)
LEMMA FallbackInFull ==
    ASSUME PoolInv, NEW a \in Assets, NEW n \in Nat, FromAave(a, n) > 0,
           aToken[a] # NoPool, lost[a] = 0, misread[a] = 0, aToken[a] = aavePool
    PROVE  FallbackAmount(a, FromAave(a, n)) = FromAave(a, n)
<1>1. FromAave(a, n) \in Nat /\ FromAave(a, n) <= totalDeposited[a]
  BY FromAaveBounds DEF PoolInv
<1>2. totalDeposited[a] <= aBalance[aToken[a]][a] + lost[a] + misread[a]
  BY <1>1 DEF PoolInv, AssetInv, AtPool, TypeOK
<1>3. aBalance[aToken[a]][a] \in Nat /\ totalDeposited[a] \in Nat
  BY DEF PoolInv, TypeOK
<1> QED
  BY <1>1, <1>2, <1>3 DEF FallbackAmount

(* A user is paid less than asked for only when Aave lost aTokens, or the   *)
(* registered aToken is not the configured pool's or was not at a harvest   *)
(* (transferToUser).                                                        *)
THEOREM PayoutsInFull == Spec => PaidInFull
<1> DEFINE Short(a) == StoredBalance(a)' - owed'[a] > StoredBalance(a) - owed[a]
           Excused(a) == lost[a] > 0 \/ misread[a] > 0 \/ aToken[a] # aavePool
<1>1. PoolInv /\ [Next]_vars => [\A a \in Assets : Short(a) => Excused(a)]_vars
  <2> SUFFICES ASSUME PoolInv, Next, NEW b \in Assets, ~Excused(b)
               PROVE  ~Short(b)
    OBVIOUS
  <2>0. TypeOK /\ StoredBalance(b) - owed[b] \in Int
    BY DEF PoolInv, TypeOK, StoredBalance
  <2>1. ASSUME NEW a \in Assets, NEW n \in Amounts, TransferToPool(a, n)
        PROVE  ~Short(b)
    <3>1. StoredBalance(b)' - owed'[b] = StoredBalance(b) - owed[b]
      BY <2>0, <2>1, MarginPoolAssumption DEF TransferToPool, StoredBalance, TypeOK
    <3> QED
      BY <2>0, <3>1
  <2>2. ASSUME NEW a \in Assets, NEW n \in Amounts, TransferToUser(a, n)
        PROVE  ~Short(b)
    <3>1. n \in Nat /\ FromAave(a, n) \in Nat
      BY <2>0, MarginPoolAssumption, FromAaveBounds
    <3>2. PayUser(a, n, FromAave(a, n))
      BY <2>2 DEF TransferToUser
    <3>3. StoredBalance(b)' - owed'[b] = StoredBalance(b) - owed[b]
      BY <2>0, <3>1, <3>2, PayoutBooks
    <3> QED
      BY <2>0, <3>3
  <2>3. ASSUME NEW a \in Assets, NEW n \in Amounts, TransferToUserFallback(a, n)
        PROVE  ~Short(b)
    <3> DEFINE taken == FallbackAmount(a, FromAave(a, n))
    <3>1. /\ n \in Nat /\ FromAave(a, n) \in Nat /\ FromAave(a, n) > 0
          /\ aToken[a] # NoPool /\ PayUser(a, n, taken)
      BY <2>0, <2>3, MarginPoolAssumption, FromAaveBounds DEF TransferToUserFallback
    <3>2. taken \in Nat /\ taken <= FromAave(a, n)
      BY <2>0, <3>1, FallbackBounds
    <3>3. b = a => taken = FromAave(a, n)
      BY <2>0, <3>1, FallbackInFull DEF TypeOK
    <3>4. StoredBalance(b)' - owed'[b] =
              StoredBalance(b) - owed[b] + IF b = a THEN FromAave(a, n) - taken ELSE 0
      BY <2>0, <3>1, <3>2, PayoutBooks
    <3> QED
      BY <2>0, <3>1, <3>3, <3>4
  <2>4. ASSUME NEW a \in Assets, DrainAave(a)
        PROVE  ~Short(b)
    <3>1. StoredBalance(b)' = StoredBalance(b) /\ owed' = owed
      BY <2>0, <2>4 DEF DrainAave, StoredBalance, TypeOK
    <3> QED
      BY <2>0, <3>1
  <2>5. CASE UNCHANGED <<totalDeposited, direct, owed>>
    <3>1. StoredBalance(b)' = StoredBalance(b) /\ owed' = owed
      BY <2>5 DEF StoredBalance
    <3> QED
      BY <2>0, <3>1
  <2> QED
    BY <2>1, <2>2, <2>3, <2>4, <2>5
    DEF Next, ControllerCall, OwnerCall, HarvestYield, SetAToken, SetAaveEnabled,
        ApproveAave, SetAavePool, Accrue, Lose
<1> QED
  BY <1>1, InvariantHolds, PTL DEF Spec, PaidInFull
=============================================================================
