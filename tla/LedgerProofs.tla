---------------------------- MODULE LedgerProofs ----------------------------
(***************************************************************************)
(* Theorems about the contracts that add up balances, vaults and quotes:   *)
(* conservation of oTokens, custody of the market makers' oTokens, what a  *)
(* pause forbids, and solvency of the MarginPool.                          *)
(***************************************************************************)
EXTENDS SettlerProofs, SumProofs

-----------------------------------------------------------------------------
(* What the actions do to the quantities that are added up.  Every action   *)
(* has one of a few effects; each is stated point by point, so that a sum   *)
(* over accounts, vaults or quotes changes in at most one term.             *)

Only(condition, n) == IF condition THEN n ELSE 0

PoolGains(a, n) ==
    \A b \in Assets : tokenBalance'[b][Pool] = tokenBalance[b][Pool] + Only(b = a, n)

HolderGains(o, h, n) ==
    \A x \in OTokens, y \in OTokenHolders :
        oTokenBalance'[x][y] = oTokenBalance[x][y] + Only(x = o /\ y = h, n)

HolderPays(o, from, to, n) ==
    \A x \in OTokens, y \in OTokenHolders :
        oTokenBalance'[x][y] = oTokenBalance[x][y]
            + (Only(x = o /\ y = to, n) - Only(x = o /\ y = from, n))

LedgerGains(mm, o, n) ==
    \A m \in MMs, x \in OTokens :
        mmOTokenBalance'[m][x] = mmOTokenBalance[m][x] + Only(m = mm /\ x = o, n)

QuoteGains(q, n) ==
    \A r \in Quotes : quoteState'[r].filled = quoteState[r].filled + Only(r = q, n)

PoolKept == \A b \in Assets : tokenBalance'[b][Pool] = tokenBalance[b][Pool]
FillsKept == \A r \in Quotes : quoteState'[r].filled = quoteState[r].filled
SettlerKept == \A b \in Assets : tokenBalance'[b][Settler] = tokenBalance[b][Settler]

Writes(p, v) ==
    /\ ~IsSettled(p)
    /\ VaultAt(p)' = v
    /\ \A r \in AllVaults : r # p => VaultAt(r)' = VaultAt(r)
    /\ UNCHANGED vaultSettled

Closes(p) ==
    /\ ~IsSettled(p)
    /\ IsSettled(p)'
    /\ \A r \in AllVaults : r # p => (IsSettled(r)' <=> IsSettled(r))
    /\ UNCHANGED vaults

StepQuiet ==
    /\ now' >= now
    /\ UNCHANGED <<vaults, vaultSettled, vaultMM, oTokenBalance, mmOTokenBalance, expiryPrice>>
    /\ FillsKept /\ PoolKept

StepPrice ==
    /\ UNCHANGED <<now, vaults, vaultSettled, vaultMM, oTokenBalance, mmOTokenBalance>>
    /\ FillsKept /\ PoolKept
    /\ \A o \in OTokens : PriceOf(o)' # PriceOf(o) => ~PriceIsSet(o) /\ Expired(o)

StepDeposit(p, a, d) ==
    /\ NotPaused
    /\ DepositAllowed(VaultAt(p), a)
    /\ Writes(p, Deposited(VaultAt(p), a, d))
    /\ PoolGains(a, d)
    /\ UNCHANGED <<now, vaultMM, oTokenBalance, mmOTokenBalance, expiryPrice>>
    /\ FillsKept

StepMint(p, o, n, h) ==
    /\ NotPaused
    /\ VaultAt(p).shortOtoken \in {NoOToken, o} /\ ~Expired(o)
    /\ Writes(p, Minted(VaultAt(p), o, n))
    /\ HolderGains(o, h, n)
    /\ UNCHANGED <<now, vaultMM, mmOTokenBalance, expiryPrice>>
    /\ FillsKept /\ PoolKept

StepOrder(p, q, n, d) ==
    LET o == q.oToken
        a == Series[o].collateralAsset
    IN  /\ NotPaused
        /\ DepositAllowed(VaultAt(p), a)
        /\ VaultAt(p).shortOtoken \in {NoOToken, o} /\ ~Expired(o)
        /\ Writes(p, Minted(Deposited(VaultAt(p), a, d), o, n))
        /\ MakerOf(p)' = q.mm
        /\ \A r \in AllVaults : r # p => MakerOf(r)' = MakerOf(r)
        /\ PoolGains(a, d)
        /\ HolderGains(o, Settler, n)
        /\ LedgerGains(q.mm, o, n)
        /\ QuoteGains(q, n)
        /\ UNCHANGED <<now, expiryPrice>>

StepTransfer(o, from, to, n) ==
    /\ HolderPays(o, from, to, n)
    /\ UNCHANGED <<now, vaults, vaultSettled, vaultMM, mmOTokenBalance, expiryPrice>>
    /\ FillsKept /\ PoolKept

StepRedeem(o, n, h) ==
    /\ ~systemFullyPaused
    /\ PriceIsSet(o)
    /\ PoolGains(Series[o].collateralAsset, 0 - PayoutOf(o, n))
    /\ HolderGains(o, h, 0 - n)
    /\ UNCHANGED <<now, vaults, vaultSettled, vaultMM, expiryPrice>>
    /\ FillsKept

StepSettle(p) ==
    LET v == VaultAt(p)
    IN  /\ ~systemFullyPaused
        /\ v.shortOtoken # NoOToken
        /\ PriceIsSet(v.shortOtoken)
        /\ Closes(p)
        /\ PoolGains(v.collateralAsset, 0 - CollateralToReturn(v))
        /\ UNCHANGED <<now, vaultMM, oTokenBalance, mmOTokenBalance, expiryPrice>>
        /\ FillsKept

\* The vault wrote nothing, or what it wrote is burned from the settler's oTokens.
StepWithdraw(p) ==
    LET v == VaultAt(p)
        o == v.shortOtoken
    IN  /\ systemFullyPaused
        /\ Closes(p)
        /\ PoolGains(v.collateralAsset, 0 - v.collateralAmount)
        /\ \/ /\ o = NoOToken \/ v.shortAmount = 0
              /\ UNCHANGED <<oTokenBalance, mmOTokenBalance>>
           \/ /\ o # NoOToken
              /\ HolderGains(o, Settler, 0 - v.shortAmount)
              /\ \/ MakerOf(p) = NoMM /\ UNCHANGED mmOTokenBalance
                 \/ MakerOf(p) \in MMs /\ LedgerGains(MakerOf(p), o, 0 - v.shortAmount)
        /\ UNCHANGED <<now, vaultMM, expiryPrice>>
        /\ FillsKept

Step ==
    \/ StepQuiet
    \/ StepPrice
    \/ \E p \in AllVaults, a \in Assets, d \in Nat : StepDeposit(p, a, d)
    \/ \E p \in AllVaults, o \in OTokens, n \in Nat, h \in OTokenHolders :
           StepMint(p, o, n, h)
    \/ \E p \in AllVaults, q \in Quotes, n \in Nat, d \in Nat : StepOrder(p, q, n, d)
    \/ \E o \in OTokens, from \in Users, to \in OTokenHolders, n \in Nat :
           StepTransfer(o, from, to, n)
    \/ \E o \in OTokens, n \in Nat, h \in Users :
           StepRedeem(o, n, h) /\ UNCHANGED mmOTokenBalance
    \/ \E mm \in MMs, o \in OTokens, n \in Nat :
           StepRedeem(o, n, Settler) /\ LedgerGains(mm, o, 0 - n)
    \/ \E p \in AllVaults : StepSettle(p)
    \/ \E p \in AllVaults : StepWithdraw(p)

-----------------------------------------------------------------------------
(* Movements of tokens, point by point.                                     *)

Balances == [Assets -> [Accounts -> Int]]

LEMMA BalancesType == TypeOK => tokenBalance \in Balances
  BY DEF TypeOK, ControllerTypeOK, Balances

LEMMA MovedSigned ==
    ASSUME NEW b \in Balances, NEW a \in Assets, NEW from \in Accounts,
           NEW to \in Accounts, NEW n \in Int
    PROVE  Moved(b, a, from, to, n) \in Balances
  BY DEF Moved, Balances

LEMMA TokenMoved ==
    ASSUME NEW b \in Balances, NEW a \in Assets, NEW from \in Accounts,
           NEW to \in Accounts, NEW n \in Int, NEW c, c = Moved(b, a, from, to, n)
    PROVE  /\ \A x \in Assets, y \in Accounts : y # from /\ y # to => c[x][y] = b[x][y]
           /\ from # to => \A x \in Assets : /\ c[x][to] = b[x][to] + Only(x = a, n)
                                            /\ c[x][from] = b[x][from] + Only(x = a, 0 - n)
  BY DEF Moved, Only, Balances

LEMMA OTokenMoved ==
    ASSUME TypeOK, NEW o \in OTokens, NEW from \in OTokenHolders,
           NEW to \in OTokenHolders, NEW n \in Int, from # to
    PROVE  \A x \in OTokens, y \in OTokenHolders :
               Moved(oTokenBalance, o, from, to, n)[x][y] = oTokenBalance[x][y]
                   + (Only(x = o /\ y = to, n) - Only(x = o /\ y = from, n))
<1> DEFINE taken == [oTokenBalance EXCEPT ![o][from] = @ - n]
<1>1. oTokenBalance \in [OTokens -> [OTokenHolders -> Int]]
  BY DEF TypeOK, ControllerTypeOK
<1>2. taken \in [OTokens -> [OTokenHolders -> Int]]
  BY <1>1
<1>3. ASSUME NEW x \in OTokens, NEW y \in OTokenHolders
      PROVE  Moved(oTokenBalance, o, from, to, n)[x][y] = oTokenBalance[x][y]
                 + (Only(x = o /\ y = to, n) - Only(x = o /\ y = from, n))
  <2>1. taken[x][y] = oTokenBalance[x][y] - (IF x = o /\ y = from THEN n ELSE 0)
    BY <1>1
  <2>2. Moved(oTokenBalance, o, from, to, n) = [taken EXCEPT ![o][to] = @ + n]
    BY DEF Moved
  <2> HIDE DEF taken
  <2>3. [taken EXCEPT ![o][to] = @ + n][x][y] =
            taken[x][y] + (IF x = o /\ y = to THEN n ELSE 0)
    BY <1>2
  <2>4. oTokenBalance[x][y] \in Int
    BY <1>1
  <2> QED
    BY <2>1, <2>2, <2>3, <2>4 DEF Only
<1> QED
  BY <1>3

LEMMA PaidOutPool ==
    ASSUME TypeOK, NEW b \in Balances, NEW o \in OTokens, NEW n \in Nat,
           NEW h \in Accounts, h # Pool
    PROVE  /\ PaidOut(b, o, n, h) \in Balances
           /\ \A x \in Assets : PaidOut(b, o, n, h)[x][Pool] =
                  b[x][Pool] + Only(x = Series[o].collateralAsset, 0 - PayoutOf(o, n))
<1>1. PayoutOf(o, n) \in Int /\ Series[o].collateralAsset \in Assets
      /\ Pool \in Accounts
  BY PayoutType, SeriesType, HolderTypes
<1>2. PaidOut(b, o, n, h) =
          Moved(b, Series[o].collateralAsset, Pool, h, PayoutOf(o, n))
  BY DEF PaidOut
<1>3. PaidOut(b, o, n, h) \in Balances
  BY <1>1, <1>2, MovedSigned
<1> QED
  BY <1>1, <1>2, <1>3, TokenMoved DEF Only

LEMMA SomeVault ==
    ASSUME NEW u \in Users, NEW id \in VaultIds
    PROVE  /\ <<u, id>> \in AllVaults
           /\ \A r \in AllVaults :
                  /\ r[1] \in Users /\ r[2] \in VaultIds
                  /\ r # <<u, id>> => r[1] # u \/ r[2] # id
  BY DEF AllVaults

LEMMA WritesVault ==
    ASSUME TypeOK, NEW u \in Users, NEW id \in VaultIds, NEW v, ~vaultSettled[u][id],
           vaults' = [vaults EXCEPT ![u][id] = v], UNCHANGED vaultSettled
    PROVE  Writes(<<u, id>>, v)
<1>1. vaults \in [Users -> [VaultIds -> Vault]]
  BY DEF TypeOK, ControllerTypeOK
<1>2. vaults'[u][id] = v
  BY <1>1
<1>3. ASSUME NEW w \in Users, NEW k \in VaultIds, w # u \/ k # id
      PROVE  vaults'[w][k] = vaults[w][k]
  BY <1>1, <1>3
<1> QED
  BY <1>2, <1>3, SomeVault DEF Writes, VaultAt, IsSettled

LEMMA ClosesVault ==
    ASSUME TypeOK, NEW u \in Users, NEW id \in VaultIds, ~vaultSettled[u][id],
           vaultSettled' = [vaultSettled EXCEPT ![u][id] = TRUE], UNCHANGED vaults
    PROVE  Closes(<<u, id>>)
<1>1. vaultSettled \in [Users -> [VaultIds -> BOOLEAN]]
  BY DEF TypeOK, ControllerTypeOK
<1>2. vaultSettled'[u][id]
  BY <1>1
<1>3. ASSUME NEW w \in Users, NEW k \in VaultIds, w # u \/ k # id
      PROVE  vaultSettled'[w][k] <=> vaultSettled[w][k]
  BY <1>1, <1>3
<1> QED
  BY <1>2, <1>3, SomeVault DEF Closes, IsSettled

-----------------------------------------------------------------------------
(* The effect of each action.                                               *)

LEMMA RedeemEffect ==
    ASSUME TypeOK, NEW u \in Users, NEW o \in OTokens, NEW n \in Nat, Redeem(u, o, n),
           UNCHANGED settlerVars
    PROVE  StepRedeem(o, n, u) /\ SettlerKept /\ UNCHANGED mmOTokenBalance
<1>1. PoolGains(Series[o].collateralAsset, 0 - PayoutOf(o, n)) /\ SettlerKept
  <2>1. tokenBalance' = PaidOut(tokenBalance, o, n, u)
    BY DEF Redeem
  <2>2. \A x \in Assets : PaidOut(tokenBalance, o, n, u)[x][Pool] =
            tokenBalance[x][Pool] + Only(x = Series[o].collateralAsset, 0 - PayoutOf(o, n))
    BY PaidOutPool, BalancesType, HolderTypes DEF Only
  <2>3. SettlerKept
    BY <2>1, BalancesType, HolderTypes, PayoutType, SeriesType
    DEF PaidOut, Moved, Balances, SettlerKept
  <2> QED
    BY <2>1, <2>2, <2>3 DEF PoolGains, Only
<1>2. HolderGains(o, u, 0 - n)
  BY HolderTypes DEF Redeem, Burned, HolderGains, TypeOK, ControllerTypeOK, Only
<1> QED
  BY <1>1, <1>2
  DEF StepRedeem, Redeem, RedeemAllowed, FillsKept, settlerVars, quoteVars, ledgerVars,
      vaultVars

(* A payout that passes through the settler leaves the pool lower by the    *)
(* payout and the settler as it was.                                        *)
LEMMA ThroughSettler ==
    ASSUME NEW b \in Balances, NEW a \in Assets, NEW P \in Int, NEW h \in Accounts,
           h # Settler, h # Pool,
           NEW r, r = Moved(b, a, Pool, Settler, P),
           NEW s, s = Moved(r, a, Settler, h, r[a][Settler] - b[a][Settler])
    PROVE  \A x \in Assets : /\ s[x][Pool] = b[x][Pool] + Only(x = a, 0 - P)
                             /\ s[x][Settler] = b[x][Settler]
<1>1. Pool \in Accounts /\ Settler \in Accounts /\ Settler # Pool
  BY HolderTypes
<1>2. r \in Balances
  BY <1>1, MovedSigned
<1>3. \A x \in Assets : /\ r[x][Pool] = b[x][Pool] + Only(x = a, 0 - P)
                        /\ r[x][Settler] = b[x][Settler] + Only(x = a, P)
  BY <1>1, TokenMoved DEF Only
<1>4. \A x \in Assets : b[x][Settler] \in Int /\ r[x][Settler] \in Int
  BY <1>1, <1>2 DEF Balances
<1>5. r[a][Settler] - b[a][Settler] = P
  BY <1>3, <1>4 DEF Only
<1>6. s = Moved(r, a, Settler, h, P)
  BY <1>5
<1>7. \A x \in Assets : /\ s[x][Pool] = r[x][Pool]
                        /\ s[x][Settler] = r[x][Settler] + Only(x = a, 0 - P)
  BY <1>1, <1>2, <1>6, TokenMoved DEF Only
<1> QED
  BY <1>3, <1>4, <1>7 DEF Only

LEMMA PaidThroughSettler ==
    ASSUME TypeOK, NEW o \in OTokens, NEW n \in Nat, NEW h \in Users,
           LET asset    == Series[o].collateralAsset
               redeemed == PaidOut(tokenBalance, o, n, Settler)
               payout   == redeemed[asset][Settler] - tokenBalance[asset][Settler]
           IN  tokenBalance' = Moved(redeemed, asset, Settler, h, payout)
    PROVE  PoolGains(Series[o].collateralAsset, 0 - PayoutOf(o, n)) /\ SettlerKept
<1>1. /\ tokenBalance \in Balances /\ PayoutOf(o, n) \in Int
      /\ h \in Accounts /\ h # Pool /\ h # Settler
      /\ Series[o].collateralAsset \in Assets
  BY BalancesType, HolderTypes, PayoutType, SeriesType
<1>2. \A x \in Assets :
          /\ tokenBalance'[x][Pool] = tokenBalance[x][Pool]
                  + Only(x = Series[o].collateralAsset, 0 - PayoutOf(o, n))
          /\ tokenBalance'[x][Settler] = tokenBalance[x][Settler]
  BY <1>1, ThroughSettler DEF PaidOut, Only
<1> QED
  BY <1>2 DEF PoolGains, SettlerKept, Only

LEMMA BatchRedeemEffect ==
    ASSUME TypeOK, NEW u \in Users, NEW o \in OTokens, NEW n \in Nat, BatchRedeem(u, o, n)
    PROVE  StepRedeem(o, n, u) /\ SettlerKept /\ UNCHANGED mmOTokenBalance
<1>1. PoolGains(Series[o].collateralAsset, 0 - PayoutOf(o, n)) /\ SettlerKept
  BY PaidThroughSettler DEF BatchRedeem
<1>2. HolderGains(o, u, 0 - n)
  <2> DEFINE pulled == Moved(oTokenBalance, o, u, Settler, n)
  <2>1. /\ oTokenBalance \in [OTokens -> [OTokenHolders -> Int]]
        /\ u \in OTokenHolders /\ Settler \in OTokenHolders /\ u # Settler
    BY HolderTypes DEF TypeOK, ControllerTypeOK
  <2>2. \A x \in OTokens, y \in OTokenHolders : pulled[x][y] = oTokenBalance[x][y]
            + (Only(x = o /\ y = Settler, n) - Only(x = o /\ y = u, n))
    BY <2>1, OTokenMoved DEF Only
  <2>3. pulled \in [OTokens -> [OTokenHolders -> Int]]
    BY <2>1 DEF Moved
  <2>4. oTokenBalance' = [pulled EXCEPT ![o][Settler] = @ - n]
    BY DEF BatchRedeem
  <2> HIDE DEF pulled
  <2>5. ASSUME NEW x \in OTokens, NEW y \in OTokenHolders
        PROVE  oTokenBalance'[x][y] = pulled[x][y] - Only(x = o /\ y = Settler, n)
    BY <2>1, <2>3, <2>4 DEF Only
  <2>6. ASSUME NEW x \in OTokens, NEW y \in OTokenHolders
        PROVE  oTokenBalance'[x][y] = oTokenBalance[x][y] + Only(x = o /\ y = u, 0 - n)
    <3>1. oTokenBalance[x][y] \in Int
      BY <2>1
    <3> QED
      BY <2>1, <2>2, <2>5, <3>1 DEF Only
  <2> QED
    BY <2>6 DEF HolderGains
<1> QED
  BY <1>1, <1>2
  DEF StepRedeem, BatchRedeem, RedeemAllowed, FillsKept, settlerVars, quoteVars, ledgerVars,
      vaultVars

LEMMA RedeemFromLedgerEffect ==
    ASSUME TypeOK, NEW mm \in MMs, NEW o \in OTokens, NEW n \in Nat,
           RedeemFromLedger(mm, o, n)
    PROVE  StepRedeem(o, n, Settler) /\ SettlerKept /\ LedgerGains(mm, o, 0 - n)
<1>1. PoolGains(Series[o].collateralAsset, 0 - PayoutOf(o, n)) /\ SettlerKept
  BY PaidThroughSettler, HolderTypes DEF RedeemFromLedger
<1>2. HolderGains(o, Settler, 0 - n) /\ LedgerGains(mm, o, 0 - n)
  BY HolderTypes DEF RedeemFromLedger, Burned, HolderGains, LedgerGains, Only,
                     TypeOK, ControllerTypeOK, SettlerTypeOK
<1> QED
  BY <1>1, <1>2
  DEF StepRedeem, RedeemFromLedger, RedeemAllowed, FillsKept, quoteVars, vaultVars
(* The swap of a physical delivery moves nothing of the pool's, and takes   *)
(* from the settler just what it had received.                              *)
LEMMA SwappedAt ==
    ASSUME NEW b \in Balances, NEW o \in OTokens, NEW mm \in MMs,
           NEW received \in Int, NEW x \in Int,
           NEW s, s = Swapped(b, o, mm, received, x)
    PROVE  \A a \in Assets :
               /\ s[a][Pool] = b[a][Pool]
               /\ s[a][Settler] = b[a][Settler]
                      + Only(a = Series[o].collateralAsset, 0 - received)
<1> DEFINE asset   == Series[o].collateralAsset
           contra  == ContraAsset(o)
           sold    == IF Series[o].isPut THEN x ELSE received
           paying  == IF Series[o].isPut THEN asset ELSE contra
           surplus == IF Series[o].isPut THEN received - x ELSE x
           bought  == IF Series[o].isPut THEN 0 ELSE x
           spent   == [b EXCEPT ![asset][Settler] = @ - sold]
           traded  == [spent EXCEPT ![contra][Settler] = @ + bought]
<1>1. /\ asset \in Assets /\ contra \in Assets /\ paying \in Assets
      /\ sold \in Int /\ surplus \in Int /\ bought \in Int
      /\ Pool \in Accounts /\ Settler \in Accounts /\ mm \in Accounts
      /\ Pool # Settler /\ Pool # mm /\ mm # Settler
  BY SeriesType, HolderTypes
<1>2. s = Moved(traded, paying, Settler, mm, surplus)
  BY DEF Swapped
<1>3. \/ paying = asset /\ bought = 0 /\ sold + surplus = received
      \/ paying = contra /\ bought = surplus /\ sold = received
  OBVIOUS
<1> HIDE DEF asset, contra, sold, paying, surplus, bought
<1>4. /\ spent \in Balances
      /\ \A a \in Assets : /\ spent[a][Pool] = b[a][Pool]
                           /\ spent[a][Settler] = b[a][Settler] + Only(a = asset, 0 - sold)
  BY <1>1 DEF Balances, Only
<1> HIDE DEF spent
<1>5. /\ traded \in Balances
      /\ \A a \in Assets : /\ traded[a][Pool] = spent[a][Pool]
                           /\ traded[a][Settler] = spent[a][Settler] + Only(a = contra, bought)
  BY <1>1, <1>4 DEF Balances, Only
<1> HIDE DEF traded
<1>6. \A a \in Assets : /\ s[a][Pool] = traded[a][Pool]
                        /\ s[a][Settler] = traded[a][Settler] + Only(a = paying, 0 - surplus)
  <2>1. \A a \in Assets, y \in Accounts : y # Settler /\ y # mm => s[a][y] = traded[a][y]
    BY <1>1, <1>2, <1>5 DEF Moved, Balances
  <2>2. \A a \in Assets : s[a][Settler] = traded[a][Settler] + Only(a = paying, 0 - surplus)
    BY <1>1, <1>2, <1>5 DEF Moved, Balances, Only
  <2> QED
    BY <1>1, <2>1, <2>2
<1>7. \A a \in Assets : b[a][Settler] \in Int
  BY <1>1 DEF Balances
<1>8. ASSUME NEW a \in Assets
      PROVE  s[a][Settler] = b[a][Settler] + Only(a = asset, 0 - received)
  BY <1>1, <1>3, <1>4, <1>5, <1>6, <1>7 DEF Only
<1> QED
  BY <1>4, <1>5, <1>6, <1>8 DEF asset

LEMMA PhysicalRedeemEffect ==
    ASSUME TypeOK, NEW mm \in MMs, NEW o \in OTokens, NEW n \in Nat,
           NEW u \in Users, NEW x \in Nat, PhysicalRedeem(o, u, n, mm, x)
    PROVE  StepRedeem(o, n, Settler) /\ SettlerKept /\ LedgerGains(mm, o, 0 - n)
<1> DEFINE asset     == Series[o].collateralAsset
           contra    == ContraAsset(o)
           delivered == [tokenBalance EXCEPT ![contra][u] = @ + ContraAmount(o, n)]
           redeemed  == PaidOut(delivered, o, n, Settler)
           received  == redeemed[asset][Settler] - delivered[asset][Settler]
           P         == PayoutOf(o, n)
<1>1. /\ tokenBalance \in Balances /\ P \in Int /\ asset \in Assets
      /\ contra \in Assets /\ ContraAmount(o, n) \in Int
      /\ Pool \in Accounts /\ Settler \in Accounts /\ u \in Accounts
      /\ u # Pool /\ u # Settler /\ Pool # Settler
  BY BalancesType, PayoutType, SeriesType, ContraAmountType, HolderTypes
<1>2. tokenBalance' = Swapped(redeemed, o, mm, received, x)
  BY DEF PhysicalRedeem
<1>3. redeemed = Moved(delivered, asset, Pool, Settler, P)
  BY DEF PaidOut
<1> HIDE DEF asset, contra, redeemed, P
<1>4. /\ delivered \in Balances
      /\ \A b \in Assets : /\ delivered[b][Pool] = tokenBalance[b][Pool]
                           /\ delivered[b][Settler] = tokenBalance[b][Settler]
  BY <1>1 DEF Balances
<1> HIDE DEF delivered
<1>5. redeemed \in Balances
  BY <1>1, <1>3, <1>4, MovedSigned
<1>6. \A b \in Assets : /\ redeemed[b][Pool] = delivered[b][Pool] + Only(b = asset, 0 - P)
                        /\ redeemed[b][Settler] = delivered[b][Settler] + Only(b = asset, P)
  <2>1. \A b \in Assets : redeemed[b][Pool] = delivered[b][Pool] + Only(b = asset, 0 - P)
    BY <1>1, <1>3, <1>4 DEF Moved, Balances, Only
  <2>2. \A b \in Assets : redeemed[b][Settler] = delivered[b][Settler] + Only(b = asset, P)
    BY <1>1, <1>3, <1>4 DEF Moved, Balances, Only
  <2> QED
    BY <2>1, <2>2
<1>7. \A b \in Assets : delivered[b][Settler] \in Int /\ redeemed[b][Settler] \in Int
  BY <1>1, <1>4, <1>5 DEF Balances
<1>8. received = P /\ received \in Int
  BY <1>1, <1>6, <1>7 DEF Only
<1> HIDE DEF received
<1>9. \A b \in Assets : /\ tokenBalance'[b][Pool] = redeemed[b][Pool]
                        /\ tokenBalance'[b][Settler] = redeemed[b][Settler] + Only(b = asset, 0 - received)
  BY <1>2, <1>5, <1>8, SwappedAt DEF Only, asset
<1>10. PoolGains(Series[o].collateralAsset, 0 - PayoutOf(o, n))
  BY <1>4, <1>6, <1>9 DEF PoolGains, Only, asset, P
<1>11. SettlerKept
  BY <1>1, <1>4, <1>6, <1>7, <1>8, <1>9 DEF SettlerKept, Only
<1>12. HolderGains(o, Settler, 0 - n) /\ LedgerGains(mm, o, 0 - n)
  BY HolderTypes DEF PhysicalRedeem, Burned, HolderGains, LedgerGains, Only,
                     TypeOK, ControllerTypeOK, SettlerTypeOK
<1> QED
  BY <1>10, <1>11, <1>12
  DEF StepRedeem, PhysicalRedeem, RedeemAllowed, FillsKept, quoteVars, vaultVars
LEMMA DepositEffect ==
    ASSUME TypeOK, NEW u \in Users, NEW id \in VaultIds, NEW a \in Assets,
           NEW d \in Nat, DepositCollateral(u, id, a, d), UNCHANGED settlerVars
    PROVE  StepDeposit(<<u, id>>, a, d) /\ SettlerKept
<1>1. VaultAt(<<u, id>>) = vaults[u][id]
  BY DEF VaultAt
<1>2. Writes(<<u, id>>, Deposited(vaults[u][id], a, d))
  BY WritesVault DEF DepositCollateral, IsOpen
<1>3. PoolGains(a, d) /\ SettlerKept
  BY BalancesType, HolderTypes DEF DepositCollateral, Moved, Balances, PoolGains, SettlerKept, Only
<1> QED
  BY <1>1, <1>2, <1>3
  DEF StepDeposit, DepositCollateral, FillsKept, settlerVars, quoteVars, ledgerVars

LEMMA MintEffect ==
    ASSUME TypeOK, NEW u \in Users, NEW id \in VaultIds, NEW o \in OTokens,
           NEW n \in Nat, NEW h \in OTokenHolders, MintOtoken(u, id, o, n, h),
           UNCHANGED settlerVars
    PROVE  StepMint(<<u, id>>, o, n, h) /\ SettlerKept
<1>1. VaultAt(<<u, id>>) = vaults[u][id]
  BY DEF VaultAt
<1>2. Writes(<<u, id>>, Minted(vaults[u][id], o, n))
  BY WritesVault DEF MintOtoken, IsOpen
<1>3. HolderGains(o, h, n)
  BY DEF MintOtoken, HolderGains, TypeOK, ControllerTypeOK, Only
<1> QED
  BY <1>1, <1>2, <1>3
  DEF StepMint, MintOtoken, MintAllowed, FillsKept, PoolKept, SettlerKept, settlerVars,
      quoteVars, ledgerVars

LEMMA TransferEffect ==
    ASSUME TypeOK, NEW o \in OTokens, NEW from \in Users, NEW to \in OTokenHolders,
           to # from, NEW n \in Nat, TransferOToken(o, from, to, n), UNCHANGED settlerVars
    PROVE  StepTransfer(o, from, to, n) /\ SettlerKept
<1>1. \A x \in OTokens, y \in OTokenHolders :
          oTokenBalance'[x][y] = oTokenBalance[x][y]
              + (Only(x = o /\ y = to, n) - Only(x = o /\ y = from, n))
  BY OTokenMoved, HolderTypes DEF TransferOToken, Only
<1> QED
  BY <1>1
  DEF StepTransfer, HolderPays, TransferOToken, FillsKept, PoolKept, SettlerKept, settlerVars,
      quoteVars, ledgerVars, vaultVars, Only

LEMMA SettleEffect ==
    ASSUME TypeOK, \A u \in Users, id \in VaultIds : Covered(vaults[u][id]),
           NEW u \in Users, NEW id \in VaultIds, BatchSettleVault(u, id)
    PROVE  StepSettle(<<u, id>>) /\ SettlerKept
<1> DEFINE v == vaults[u][id]
<1>1. VaultAt(<<u, id>>) = v
  BY DEF VaultAt
<1>2. SettleVault(u, id) /\ UNCHANGED settlerVars
  BY DEF BatchSettleVault
<1>3. v \in Vault /\ v.shortOtoken \in OTokens /\ v.collateralAsset \in Assets
  BY <1>2, VaultType, SeriesType DEF SettleVault, Covered
<1>4. CollateralToReturn(v) \in Int
  BY <1>3, CollateralToReturnType
<1>5. Closes(<<u, id>>)
  BY <1>2, ClosesVault DEF SettleVault, IsOpen
<1>6. tokenBalance' = Moved(tokenBalance, v.collateralAsset, Pool, u, CollateralToReturn(v))
  BY <1>2 DEF SettleVault
<1>7. v.shortOtoken # NoOToken /\ PriceIsSet(v.shortOtoken)
  BY <1>2 DEF SettleVault
<1> HIDE DEF v
<1>8. PoolGains(v.collateralAsset, 0 - CollateralToReturn(v)) /\ SettlerKept
  BY <1>3, <1>4, <1>6, BalancesType, HolderTypes
  DEF Moved, Balances, PoolGains, SettlerKept, Only
<1> QED
  BY <1>1, <1>2, <1>5, <1>7, <1>8
  DEF StepSettle, SettleVault, FillsKept, settlerVars, quoteVars, ledgerVars

LEMMA WithdrawEffect ==
    ASSUME TypeOK, \A u \in Users, id \in VaultIds : Covered(vaults[u][id]),
           NEW u \in Users, NEW id \in VaultIds, EmergencyWithdrawVault(u, id)
    PROVE  StepWithdraw(<<u, id>>) /\ SettlerKept
<1> DEFINE v     == vaults[u][id]
           o     == v.shortOtoken
           short == v.shortAmount
           mm    == vaultMM[u][id]
<1>1. VaultAt(<<u, id>>) = v /\ MakerOf(<<u, id>>) = mm
  BY DEF VaultAt, MakerOf
<1>2. /\ v.collateralAmount \in Nat /\ short \in Nat /\ mm \in MMs \cup {NoMM}
      /\ o \in OTokens \cup {NoOToken}
  BY VaultType
<1>3. v.collateralAsset \in Assets
  BY DEF EmergencyWithdrawVault, Covered
<1>4. Closes(<<u, id>>)
  BY ClosesVault DEF EmergencyWithdrawVault, IsOpen
<1>5. tokenBalance' = Moved(tokenBalance, v.collateralAsset, Pool, u, v.collateralAmount)
  BY DEF EmergencyWithdrawVault
<1>6. \/ /\ o = NoOToken \/ short = 0
         /\ UNCHANGED <<oTokenBalance, mmOTokenBalance>>
      \/ /\ o # NoOToken
         /\ HolderGains(o, Settler, 0 - short)
         /\ \/ mm = NoMM /\ UNCHANGED mmOTokenBalance
            \/ mm \in MMs /\ LedgerGains(mm, o, 0 - short)
  <2>1. CASE /\ o # NoOToken
             /\ mm # NoMM => mmOTokenBalance[mm][o] >= short
             /\ oTokenBalance' = Burned(o, short, Settler)
             /\ mmOTokenBalance' = ClearedMMBalance(u, id, o, short)
    <3>1. o \in OTokens
      BY <2>1, <1>2
    <3>2. mmOTokenBalance' = IF mm = NoMM THEN mmOTokenBalance
            ELSE [mmOTokenBalance EXCEPT ![mm][o] = IF short < @ THEN @ - short ELSE 0]
      BY <2>1 DEF ClearedMMBalance
    <3> HIDE DEF o, short, mm, v
    <3>3. HolderGains(o, Settler, 0 - short)
      BY <2>1, <1>2, <3>1, HolderTypes DEF Burned, HolderGains, TypeOK, ControllerTypeOK, Only
    <3>4. CASE mm \in MMs
      <4>1. mmOTokenBalance \in [MMs -> [OTokens -> Nat]]
        BY DEF TypeOK, SettlerTypeOK
      <4>2. mm # NoMM
        BY <3>4, SettlerAssumption
      <4>3. LedgerGains(mm, o, 0 - short)
        BY <2>1, <1>2, <3>1, <3>2, <3>4, <4>1, <4>2 DEF LedgerGains, Only
      <4> QED
        BY <2>1, <3>3, <3>4, <4>3
    <3> QED
      BY <2>1, <1>2, <3>2, <3>3, <3>4
  <2> QED
    BY <2>1 DEF EmergencyWithdrawVault
<1>7. UNCHANGED <<now, vaultMM, expiryPrice>> /\ FillsKept /\ systemFullyPaused
  BY DEF EmergencyWithdrawVault, quoteVars, FillsKept
<1> HIDE DEF o, short, mm, v
<1>8. PoolGains(v.collateralAsset, 0 - v.collateralAmount) /\ SettlerKept
  BY <1>2, <1>3, <1>5, BalancesType, HolderTypes
  DEF Moved, Balances, PoolGains, SettlerKept, Only
<1> QED
  BY <1>1, <1>4, <1>6, <1>7, <1>8 DEF StepWithdraw, o, short
LEMMA OrderEffect ==
    ASSUME TypeOK, NEW u \in Users, NEW q \in Quotes, NEW n \in Nat, NEW d \in Nat,
           ExecuteOrder(u, q, n, d), NEW id, id = vaultCount[u] + 1
    PROVE  id \in VaultIds /\ StepOrder(<<u, id>>, q, n, d) /\ SettlerKept
<1> DEFINE o         == q.oToken
           asset     == Series[o].collateralAsset
           payment   == Series[o].strikeAsset
           p         == <<u, id>>
           funded    == Deposited(vaults[u][id], asset, d)
           premium   == Premium(n, q.bidPrice)
           fee       == ProtocolFee(premium, ProtocolFeeBps)
           net       == premium - fee
           deposited == Moved(tokenBalance, asset, u, Pool, d)
           paid      == Moved(deposited, payment, q.mm, u, net)
<1>1. /\ o \in OTokens /\ q.mm \in MMs /\ q.bidPrice \in Nat
      /\ asset \in Assets /\ payment \in Assets
  BY SettlerAssumption, SeriesType DEF QuoteFields
<1>2. fee \in Int /\ net \in Int
  <2>1. premium \in Nat /\ fee \in Nat
    BY <1>1, PremiumType
  <2> HIDE DEF premium, fee
  <2> QED
    BY <2>1
<1>3. id \in VaultIds
  BY ControllerAssumption DEF ExecuteOrder, VaultIds, TypeOK, ControllerTypeOK
<1>4. VaultAt(p) = vaults[u][id]
  BY DEF VaultAt
<1>5. Writes(p, Minted(funded, o, n))
  <2>1. /\ ~vaultSettled[u][id]
        /\ vaults' = [vaults EXCEPT ![u][id] = Minted(funded, o, n)]
        /\ UNCHANGED vaultSettled
    BY DEF ExecuteOrder
  <2> HIDE DEF funded
  <2> QED
    BY <1>3, <2>1, WritesVault
<1>6. /\ MakerOf(p)' = q.mm
      /\ \A r \in AllVaults : r # p => MakerOf(r)' = MakerOf(r)
  <2>1. /\ vaultMM \in [Users -> [VaultIds -> MMs \cup {NoMM}]]
        /\ vaultMM' = [vaultMM EXCEPT ![u][id] = q.mm]
    BY DEF ExecuteOrder, TypeOK, SettlerTypeOK
  <2>2. vaultMM'[u][id] = q.mm
    BY <1>3, <2>1
  <2>3. ASSUME NEW w \in Users, NEW k \in VaultIds, w # u \/ k # id
        PROVE  vaultMM'[w][k] = vaultMM[w][k]
    BY <2>1, <2>3
  <2>4. ASSUME NEW r \in AllVaults, r # p PROVE MakerOf(r)' = MakerOf(r)
    <3>1. r[1] \in Users /\ r[2] \in VaultIds /\ (r[1] # u \/ r[2] # id)
      BY <1>3, <2>4, SomeVault
    <3> QED
      BY <2>3, <3>1 DEF MakerOf
  <2>5. MakerOf(p)' = q.mm
    BY <2>2 DEF MakerOf
  <2> QED
    BY <2>4, <2>5
<1>7. PoolGains(asset, d) /\ SettlerKept
  <2>1. tokenBalance' = Moved(paid, payment, q.mm, Treasury, fee)
    BY DEF ExecuteOrder
  <2>2. /\ tokenBalance \in Balances /\ u \in Accounts /\ Pool \in Accounts
        /\ Settler \in Accounts /\ Treasury \in Accounts /\ q.mm \in Accounts
        /\ u # Pool /\ u # Settler /\ Pool # Settler /\ q.mm # Pool /\ q.mm # Settler
        /\ Treasury # Pool /\ Treasury # Settler
    BY <1>1, BalancesType, HolderTypes, ControllerAssumption
  <2> HIDE DEF asset, payment, fee, net
  <2>3. deposited \in Balances /\ paid \in Balances
    BY <1>1, <1>2, <2>2, MovedSigned
  <2>4. \A b \in Assets :
            /\ deposited[b][Pool] = tokenBalance[b][Pool] + Only(b = asset, d)
            /\ deposited[b][Settler] = tokenBalance[b][Settler]
    BY <1>1, <2>2 DEF Moved, Balances, Only
  <2> HIDE DEF deposited
  <2>5. \A b \in Assets : /\ paid[b][Pool] = deposited[b][Pool]
                          /\ paid[b][Settler] = deposited[b][Settler]
    BY <1>1, <1>2, <2>2, <2>3 DEF Moved, Balances
  <2> HIDE DEF paid
  <2>6. \A b \in Assets : /\ tokenBalance'[b][Pool] = paid[b][Pool]
                          /\ tokenBalance'[b][Settler] = paid[b][Settler]
    BY <1>1, <1>2, <2>1, <2>2, <2>3 DEF Moved, Balances
  <2> QED
    BY <2>4, <2>5, <2>6 DEF PoolGains, SettlerKept, Only
<1>8. HolderGains(o, Settler, n) /\ LedgerGains(q.mm, o, n)
  <2>1. /\ oTokenBalance \in [OTokens -> [OTokenHolders -> Nat]]
        /\ mmOTokenBalance \in [MMs -> [OTokens -> Nat]]
        /\ oTokenBalance' = [oTokenBalance EXCEPT ![o][Settler] = @ + n]
        /\ mmOTokenBalance' = [mmOTokenBalance EXCEPT ![q.mm][o] = @ + n]
    BY DEF ExecuteOrder, TypeOK, ControllerTypeOK, SettlerTypeOK
  <2> HIDE DEF o
  <2> QED
    BY <1>1, <2>1, HolderTypes DEF HolderGains, LedgerGains, Only
<1>9. QuoteGains(q, n)
  <2>1. /\ quoteState \in [Quotes -> QuoteState]
        /\ quoteState' = [quoteState EXCEPT ![q].filled = @ + n]
    BY DEF ExecuteOrder, TypeOK, SettlerTypeOK
  <2> QED
    BY <2>1 DEF QuoteGains, QuoteState, Only
<1>10. /\ NotPaused
       /\ DepositAllowed(vaults[u][id], asset)
       /\ MintAllowed(funded, o, n)
       /\ UNCHANGED <<now, expiryPrice>>
  BY DEF ExecuteOrder
<1>11. vaults[u][id].shortOtoken \in {NoOToken, o} /\ ~Expired(o)
  BY <1>10 DEF MintAllowed, Deposited
<1> HIDE DEF funded, asset, o
<1>12. StepOrder(p, q, n, d)
  BY <1>4, <1>5, <1>6, <1>7, <1>8, <1>9, <1>10, <1>11 DEF StepOrder, o, asset, funded
<1> QED
  BY <1>3, <1>7, <1>12

LEMMA OwnerEffect ==
    ASSUME TypeOK, OwnerCall
    PROVE  (StepQuiet \/ StepPrice) /\ SettlerKept
<1> USE DEF settlerVars, quoteVars, ledgerVars, pauseVars, vaultVars
<1>0. UNCHANGED settlerVars
  BY DEF OwnerCall
<1>1. now \in Int /\ now >= now
  BY DEF TypeOK, ControllerTypeOK
<1>2. ASSUME NEW a \in Assets, NEW e \in Expiries, NEW price \in Prices,
             SetExpiryPrice(a, e, price)
      PROVE  StepPrice /\ SettlerKept
  <2>1. /\ expiryPrice \in [Assets -> [Expiries -> Nat]]
        /\ now >= e /\ expiryPrice[a][e] = 0
        /\ expiryPrice' = [expiryPrice EXCEPT ![a][e] = price]
        /\ now' = now
    BY <1>2 DEF SetExpiryPrice, TypeOK, ControllerTypeOK
  <2>2. ASSUME NEW o \in OTokens, PriceOf(o)' # PriceOf(o)
        PROVE  ~PriceIsSet(o) /\ Expired(o)
    <3>1. /\ Series[o].underlying \in Assets /\ Series[o].expiry \in Expiries
          /\ expiryPrice'[Series[o].underlying][Series[o].expiry]
                # expiryPrice[Series[o].underlying][Series[o].expiry]
      BY <2>2, SeriesType DEF PriceOf
    <3>2. Series[o].underlying = a /\ Series[o].expiry = e
      BY <2>1, <3>1
    <3> QED
      BY <2>1, <3>2 DEF PriceIsSet, PriceOf, Expired
  <2> QED
    BY <1>0, <1>2, <2>2 DEF StepPrice, SetExpiryPrice, FillsKept, PoolKept, SettlerKept
<1>3. CASE \E paused \in BOOLEAN : SetSystemPartiallyPaused(paused)
  BY <1>0, <1>1, <1>3
  DEF SetSystemPartiallyPaused, StepQuiet, FillsKept, PoolKept, SettlerKept
<1>4. CASE \E paused \in BOOLEAN : SetSystemFullyPaused(paused)
  BY <1>0, <1>1, <1>4
  DEF SetSystemFullyPaused, StepQuiet, FillsKept, PoolKept, SettlerKept
<1>5. CASE \E o \in OTokens : CreateOToken(o)
  BY <1>0, <1>1, <1>5 DEF CreateOToken, StepQuiet, FillsKept, PoolKept, SettlerKept
<1> QED
  BY <1>2, <1>3, <1>4, <1>5 DEF OwnerCall

LEMMA QuoteCallEffect ==
    ASSUME TypeOK, NEW mm \in MMs,
           \/ \E status \in BOOLEAN : SetWhitelistedMM(mm, status)
           \/ \E batch \in SUBSET Quotes : CancelQuotes(mm, batch)
           \/ IncrementMakerNonce(mm)
    PROVE  StepQuiet /\ SettlerKept
<1> USE DEF controllerVars, ledgerVars, vaultVars
<1>1. UNCHANGED controllerVars /\ UNCHANGED ledgerVars /\ now >= now
  BY DEF SetWhitelistedMM, CancelQuotes, IncrementMakerNonce, TypeOK, ControllerTypeOK
<1>2. FillsKept
  <2>1. CASE UNCHANGED quoteState
    BY <2>1 DEF FillsKept
  <2>2. ASSUME NEW batch \in SUBSET Quotes, CancelQuotes(mm, batch)
        PROVE  FillsKept
    <3>1. quoteState \in [Quotes -> QuoteState]
      BY DEF TypeOK, SettlerTypeOK
    <3>2. ASSUME NEW r \in Quotes
          PROVE  quoteState'[r].filled = quoteState[r].filled
      <4>1. quoteState[r] \in QuoteState
        BY <3>1
      <4>2. quoteState'[r] = IF r \in batch THEN [quoteState[r] EXCEPT !.cancelled = TRUE]
                             ELSE quoteState[r]
        BY <2>2 DEF CancelQuotes
      <4> QED
        BY <4>1, <4>2 DEF QuoteState
    <3> QED
      BY <3>2 DEF FillsKept
  <2> QED
    BY <2>1, <2>2 DEF SetWhitelistedMM, IncrementMakerNonce
<1> QED
  BY <1>1, <1>2 DEF StepQuiet, PoolKept, SettlerKept

(* Every action has one of the effects, and leaves the settler's balances.  *)
LEMMA NextIsStep ==
    ASSUME TypeOK, \A u \in Users, id \in VaultIds : Covered(vaults[u][id]), Next
    PROVE  Step /\ SettlerKept
<1>0. Amounts \subseteq Nat /\ Deposits \subseteq Nat /\ SwapCosts \subseteq Nat
      /\ DirectCallers \subseteq Users
  BY ControllerAssumption, SettlerAssumption
<1>1. CASE Tick /\ UNCHANGED settlerVars
  <2>1. StepQuiet /\ SettlerKept
    BY <1>1 DEF Tick, StepQuiet, FillsKept, PoolKept, SettlerKept, settlerVars, quoteVars,
                ledgerVars, vaultVars, TypeOK, ControllerTypeOK
  <2> QED
    BY <2>1 DEF Step
<1>2. CASE OwnerCall
  BY <1>2, OwnerEffect DEF Step
<1>3. ASSUME NEW u \in Users, UserCall(u)
      PROVE  Step /\ SettlerKept
  <2>1. ASSUME NEW q \in Quotes, NEW n \in Amounts, NEW d \in Deposits, ExecuteOrder(u, q, n, d)
        PROVE  Step /\ SettlerKept
    <3>1. n \in Nat /\ d \in Nat
      BY <1>0
    <3> QED
      <4>1. PICK id : id = vaultCount[u] + 1
        OBVIOUS
      <4>2. <<u, id>> \in AllVaults /\ StepOrder(<<u, id>>, q, n, d) /\ SettlerKept
        BY <2>1, <3>1, <4>1, OrderEffect, SomeVault
      <4> QED
        BY <3>1, <4>2 DEF Step
  <2>2. ASSUME NEW o \in OTokens, NEW n \in Amounts, BatchRedeem(u, o, n)
        PROVE  Step /\ SettlerKept
    <3>1. n \in Nat
      BY <1>0
    <3> QED
      BY <2>2, <3>1, BatchRedeemEffect DEF Step
  <2>3. ASSUME NEW id \in VaultIds, EmergencyWithdrawVault(u, id)
        PROVE  Step /\ SettlerKept
    BY <2>3, WithdrawEffect, SomeVault DEF Step
  <2> QED
    BY <1>3, <2>1, <2>2, <2>3 DEF UserCall
<1>4. ASSUME NEW u \in Users, DirectCall(u)
      PROVE  Step /\ SettlerKept
  <2>0. UNCHANGED settlerVars
    BY <1>4 DEF DirectCall
  <2>1. CASE OpenVault(u)
    <3>1. StepQuiet /\ SettlerKept
      BY <2>0, <2>1
      DEF OpenVault, StepQuiet, FillsKept, PoolKept, SettlerKept, settlerVars, quoteVars,
          ledgerVars, TypeOK, ControllerTypeOK
    <3> QED
      BY <3>1 DEF Step
  <2>2. ASSUME NEW id \in VaultIds, NEW a \in Assets, NEW d \in Deposits,
               DepositCollateral(u, id, a, d)
        PROVE  Step /\ SettlerKept
    <3>1. d \in Nat
      BY <1>0
    <3> QED
      BY <2>0, <2>2, <3>1, DepositEffect, SomeVault DEF Step
  <2>3. ASSUME NEW id \in VaultIds, NEW o \in OTokens, NEW n \in Amounts,
               NEW to \in OTokenHolders, MintOtoken(u, id, o, n, to)
        PROVE  Step /\ SettlerKept
    <3>1. n \in Nat
      BY <1>0
    <3> QED
      BY <2>0, <2>3, <3>1, MintEffect, SomeVault DEF Step
  <2>4. ASSUME NEW o \in OTokens, NEW n \in Amounts, Redeem(u, o, n)
        PROVE  Step /\ SettlerKept
    <3>1. n \in Nat
      BY <1>0
    <3> QED
      BY <2>0, <2>4, <3>1, RedeemEffect DEF Step
  <2>5. ASSUME NEW o \in OTokens, NEW n \in Amounts, NEW to \in OTokenHolders \ {u},
               TransferOToken(o, u, to, n)
        PROVE  Step /\ SettlerKept
    <3>1. n \in Nat /\ to \in OTokenHolders /\ to # u
      BY <1>0
    <3> QED
      BY <2>0, <2>5, <3>1, TransferEffect DEF Step
  <2> QED
    BY <1>4, <2>1, <2>2, <2>3, <2>4, <2>5 DEF DirectCall
<1>5. ASSUME NEW m \in MMs, NEW o \in OTokens, NEW n \in Amounts, RedeemFromLedger(m, o, n)
      PROVE  Step /\ SettlerKept
  <2>1. n \in Nat
    BY <1>0
  <2> QED
    BY <1>5, <2>1, RedeemFromLedgerEffect DEF Step
<1>6. ASSUME NEW m \in MMs, MMCall(m)
      PROVE  Step /\ SettlerKept
  BY <1>5, <1>6, QuoteCallEffect DEF MMCall, MMSelfRedeem, Step
<1>7. CASE OperatorCall
  <2>1. ASSUME NEW u \in Users, NEW id \in VaultIds, BatchSettleVault(u, id)
        PROVE  Step /\ SettlerKept
    BY <2>1, SettleEffect, SomeVault DEF Step
  <2>2. ASSUME NEW m \in MMs, NEW o \in OTokens, NEW n \in Amounts, NEW u \in Users,
               NEW x \in SwapCosts, PhysicalRedeem(o, u, n, m, x)
        PROVE  Step /\ SettlerKept
    <3>1. n \in Nat /\ x \in Nat
      BY <1>0
    <3> QED
      BY <2>2, <3>1, PhysicalRedeemEffect DEF Step
  <2> QED
    BY <1>5, <1>7, <2>1, <2>2 DEF OperatorCall, OperatorRedeemForMM
<1> QED
  BY <1>0, <1>1, <1>2, <1>3, <1>4, <1>6, <1>7 DEF Next
-----------------------------------------------------------------------------
(* The sums of the properties, taken over every vault: a vault that is not  *)
(* meant contributes nothing.                                               *)

OpenShort(p, o) ==
    IF VaultAt(p).shortOtoken = o /\ ~IsSettled(p) THEN VaultAt(p).shortAmount ELSE 0
OpenShorts(o) == SumFunctionOnSet([p \in AllVaults |-> OpenShort(p, o)], AllVaults)

ClosedShort(p, o, m) ==
    IF VaultAt(p).shortOtoken = o /\ IsSettled(p) /\ MakerOf(p) = m
    THEN VaultAt(p).shortAmount ELSE 0
ClosedShorts(o, m) ==
    SumFunctionOnSet([p \in AllVaults |-> ClosedShort(p, o, m)], AllVaults)

LEMMA FiniteSets ==
    /\ IsFiniteSet(AllVaults) /\ IsFiniteSet(OTokenHolders) /\ IsFiniteSet(MMs)
    /\ \A m, o : IsFiniteSet({q \in Quotes : q.mm = m /\ q.oToken = o})
<1>1. IsFiniteSet(VaultIds)
  BY ControllerAssumption, FS_Interval DEF VaultIds
<1>2. IsFiniteSet(OTokenHolders)
  BY FiniteAssumption, FS_AddElement DEF OTokenHolders
<1>3. IsFiniteSet(MMs) /\ \A m, o : IsFiniteSet({q \in Quotes : q.mm = m /\ q.oToken = o})
  <2>1. MMs \subseteq Users
    BY SettlerAssumption
  <2>2. \A m, o : {q \in Quotes : q.mm = m /\ q.oToken = o} \subseteq Quotes
    OBVIOUS
  <2> QED
    BY <2>1, <2>2, FiniteAssumption, FS_Subset
<1> QED
  BY <1>1, <1>2, <1>3, FiniteAssumption, FS_Product DEF AllVaults

LEMMA VaultTypes ==
    ASSUME TypeOK, NEW p \in AllVaults
    PROVE  /\ VaultAt(p) \in Vault
           /\ VaultAt(p).shortOtoken \in OTokens \cup {NoOToken}
           /\ VaultAt(p).collateralAsset \in Assets \cup {NoAsset}
           /\ VaultAt(p).shortAmount \in Nat
           /\ VaultAt(p).collateralAmount \in Nat
           /\ IsSettled(p) \in BOOLEAN
           /\ MakerOf(p) \in MMs \cup {NoMM}
<1>1. p[1] \in Users /\ p[2] \in VaultIds
  BY DEF AllVaults
<1> QED
  BY <1>1, VaultType DEF VaultAt, IsSettled, MakerOf

LEMMA ShortTypes ==
    TypeOK => \A p \in AllVaults, o \in OTokens :
                  OpenShort(p, o) \in Nat /\ \A m : ClosedShort(p, o, m) \in Nat
  BY VaultTypes DEF OpenShort, ClosedShort

LEMMA ShortTypesNext ==
    TypeOK' => \A p \in AllVaults, o \in OTokens :
                   OpenShort(p, o)' \in Nat /\ \A m : ClosedShort(p, o, m)' \in Nat
<1>1. TypeOK => \A p \in AllVaults, o \in OTokens :
                    OpenShort(p, o) \in Nat /\ \A m : ClosedShort(p, o, m) \in Nat
  BY ShortTypes
<1>2. (TypeOK => \A p \in AllVaults, o \in OTokens :
                    OpenShort(p, o) \in Nat /\ \A m : ClosedShort(p, o, m) \in Nat)'
  BY <1>1, PTL
<1> QED
  BY <1>2

LEMMA ShortSums ==
    TypeOK => \A o \in OTokens :
        /\ OpenShorts(o) \in Nat
        /\ \A m : ClosedShorts(o, m) \in Nat
        /\ ShortTotal({p \in VaultsWriting(o) : ~IsSettled(p)}) = OpenShorts(o)
        /\ \A m : ShortTotal({p \in VaultsWriting(o) : IsSettled(p) /\ MakerOf(p) = m})
                     = ClosedShorts(o, m)
<1> SUFFICES ASSUME TypeOK, NEW o \in OTokens
             PROVE  /\ OpenShorts(o) \in Nat
                    /\ \A m : ClosedShorts(o, m) \in Nat
                    /\ ShortTotal({p \in VaultsWriting(o) : ~IsSettled(p)}) = OpenShorts(o)
                    /\ \A m : ShortTotal({p \in VaultsWriting(o) : IsSettled(p) /\ MakerOf(p) = m})
                                 = ClosedShorts(o, m)
  OBVIOUS
<1> DEFINE f == [p \in AllVaults |-> VaultAt(p).shortAmount]
<1>1. IsFiniteSet(AllVaults) /\ \A p \in AllVaults : f[p] \in Int
  BY FiniteSets, VaultTypes
<1>2. /\ OpenShorts(o) \in Nat
      /\ ShortTotal({p \in VaultsWriting(o) : ~IsSettled(p)}) = OpenShorts(o)
  <2> DEFINE R == {p \in VaultsWriting(o) : ~IsSettled(p)}
             g == [p \in AllVaults |-> OpenShort(p, o)]
  <2>1. R \in SUBSET AllVaults /\ \A p \in AllVaults : g[p] = IF p \in R THEN f[p] ELSE 0
    BY DEF VaultsWriting, OpenShort
  <2>2. \A p \in AllVaults : g[p] \in Nat
    BY ShortTypes
  <2> HIDE DEF f, g, R
  <2>3. SumFunctionOnSet(f, R) = SumFunctionOnSet(g, AllVaults)
    BY <1>1, <2>1, SumOnSubset
  <2>4. SumFunctionOnSet(g, AllVaults) \in Nat
    BY <1>1, <2>2, SumNat
  <2> QED
    BY <2>3, <2>4 DEF ShortTotal, OpenShorts, f, g, R
<1>3. ASSUME NEW m
      PROVE  /\ ClosedShorts(o, m) \in Nat
             /\ ShortTotal({p \in VaultsWriting(o) : IsSettled(p) /\ MakerOf(p) = m})
                   = ClosedShorts(o, m)
  <2> DEFINE R == {p \in VaultsWriting(o) : IsSettled(p) /\ MakerOf(p) = m}
             g == [p \in AllVaults |-> ClosedShort(p, o, m)]
  <2>1. R \in SUBSET AllVaults /\ \A p \in AllVaults : g[p] = IF p \in R THEN f[p] ELSE 0
    BY DEF VaultsWriting, ClosedShort
  <2>2. \A p \in AllVaults : g[p] \in Nat
    BY ShortTypes
  <2> HIDE DEF f, g, R
  <2>3. SumFunctionOnSet(f, R) = SumFunctionOnSet(g, AllVaults)
    BY <1>1, <2>1, SumOnSubset
  <2>4. SumFunctionOnSet(g, AllVaults) \in Nat
    BY <1>1, <2>2, SumNat
  <2> QED
    BY <2>3, <2>4 DEF ShortTotal, ClosedShorts, f, g, R
<1> QED
  BY <1>2, <1>3

(* A sum over the vaults changes by what its terms change.                  *)
LEMMA OpenShortsChange ==
    ASSUME TypeOK, TypeOK', NEW o \in OTokens, NEW p \in AllVaults,
           \A r \in AllVaults : r # p => OpenShort(r, o)' = OpenShort(r, o)
    PROVE  OpenShorts(o)' = OpenShorts(o) + (OpenShort(p, o)' - OpenShort(p, o))
<1> DEFINE f == [r \in AllVaults |-> OpenShort(r, o)]
           g == [r \in AllVaults |-> OpenShort(r, o)']
<1>1. \A r \in AllVaults : OpenShort(r, o) \in Nat /\ OpenShort(r, o)' \in Nat
  BY ShortTypes, ShortTypesNext
<1>2. /\ \A r \in AllVaults : f[r] \in Int /\ g[r] \in Int
      /\ \A r \in AllVaults : r # p => g[r] = f[r]
  BY <1>1
<1>3. f[p] = OpenShort(p, o) /\ g[p] = OpenShort(p, o)'
  OBVIOUS
<1> HIDE DEF f, g
<1>4. SumFunctionOnSet(g, AllVaults) = SumFunctionOnSet(f, AllVaults) + (g[p] - f[p])
  BY <1>2, FiniteSets, SumUpdate
<1>5. OpenShorts(o)' = SumFunctionOnSet(g, AllVaults)
  BY DEF OpenShorts, g
<1>6. OpenShorts(o) = SumFunctionOnSet(f, AllVaults)
  BY DEF OpenShorts, f
<1> QED
  BY <1>3, <1>4, <1>5, <1>6

LEMMA ClosedShortsChange ==
    ASSUME TypeOK, TypeOK', NEW o \in OTokens, NEW m, NEW p \in AllVaults,
           \A r \in AllVaults : r # p => ClosedShort(r, o, m)' = ClosedShort(r, o, m)
    PROVE  ClosedShorts(o, m)' = ClosedShorts(o, m) + (ClosedShort(p, o, m)' - ClosedShort(p, o, m))
<1> DEFINE f == [r \in AllVaults |-> ClosedShort(r, o, m)]
           g == [r \in AllVaults |-> ClosedShort(r, o, m)']
<1>1. \A r \in AllVaults : ClosedShort(r, o, m) \in Nat /\ ClosedShort(r, o, m)' \in Nat
  BY ShortTypes, ShortTypesNext
<1>2. /\ \A r \in AllVaults : f[r] \in Int /\ g[r] \in Int
      /\ \A r \in AllVaults : r # p => g[r] = f[r]
  BY <1>1
<1>3. f[p] = ClosedShort(p, o, m) /\ g[p] = ClosedShort(p, o, m)'
  OBVIOUS
<1> HIDE DEF f, g
<1>4. SumFunctionOnSet(g, AllVaults) = SumFunctionOnSet(f, AllVaults) + (g[p] - f[p])
  BY <1>2, FiniteSets, SumUpdate
<1>5. ClosedShorts(o, m)' = SumFunctionOnSet(g, AllVaults)
  BY DEF ClosedShorts, g
<1>6. ClosedShorts(o, m) = SumFunctionOnSet(f, AllVaults)
  BY DEF ClosedShorts, f
<1> QED
  BY <1>3, <1>4, <1>5, <1>6

(* What a step does to the sums: nothing while it leaves the vaults alone;  *)
(* what is written when it writes an open vault; the whole of what a vault  *)
(* wrote when it closes one.                                                *)
LEMMA ShortsSame ==
    ASSUME UNCHANGED <<vaults, vaultSettled, vaultMM>>
    PROVE  \A o \in OTokens : OpenShorts(o)' = OpenShorts(o)
                              /\ \A m : ClosedShorts(o, m)' = ClosedShorts(o, m)
  BY DEF OpenShorts, OpenShort, ClosedShorts, ClosedShort, VaultAt, IsSettled, MakerOf

\* v stands for n more oTokens of o than the vault p.
WritesMore(p, v, o, n) ==
    \A x \in OTokens :
        (IF v.shortOtoken = x THEN v.shortAmount ELSE 0) =
            (IF VaultAt(p).shortOtoken = x THEN VaultAt(p).shortAmount ELSE 0) + Only(x = o, n)

LEMMA ShortsWritten ==
    ASSUME TypeOK, TypeOK', NEW p \in AllVaults, NEW v, NEW o \in OTokens, NEW n \in Nat,
           Writes(p, v), \A r \in AllVaults : r # p => MakerOf(r)' = MakerOf(r),
           WritesMore(p, v, o, n)
    PROVE  \A x \in OTokens : /\ OpenShorts(x)' = OpenShorts(x) + Only(x = o, n)
                              /\ \A m : ClosedShorts(x, m)' = ClosedShorts(x, m)
<1> SUFFICES ASSUME NEW x \in OTokens
             PROVE  /\ OpenShorts(x)' = OpenShorts(x) + Only(x = o, n)
                    /\ \A m : ClosedShorts(x, m)' = ClosedShorts(x, m)
  OBVIOUS
<1>1. ~IsSettled(p) /\ ~IsSettled(p)' /\ VaultAt(p)' = v
  BY DEF Writes, IsSettled
<1>2. \A r \in AllVaults : r # p => /\ VaultAt(r)' = VaultAt(r)
                                    /\ IsSettled(r)' = IsSettled(r)
                                    /\ MakerOf(r)' = MakerOf(r)
  BY DEF Writes, IsSettled
<1>3. OpenShorts(x)' = OpenShorts(x) + (OpenShort(p, x)' - OpenShort(p, x))
  BY <1>2, OpenShortsChange DEF OpenShort
<1>4. OpenShort(p, x)' = OpenShort(p, x) + Only(x = o, n)
  BY <1>1 DEF OpenShort, Only, WritesMore
<1>5. OpenShort(p, x) \in Nat /\ OpenShorts(x) \in Nat /\ Only(x = o, n) \in Nat
      /\ \A m : ClosedShorts(x, m) \in Nat
  BY ShortTypes, ShortSums DEF Only
<1>6. ASSUME NEW m
      PROVE  ClosedShorts(x, m)' = ClosedShorts(x, m)
  <2>1. ClosedShorts(x, m)' = ClosedShorts(x, m)
            + (ClosedShort(p, x, m)' - ClosedShort(p, x, m))
    BY <1>2, ClosedShortsChange DEF ClosedShort
  <2>2. ClosedShort(p, x, m)' = 0 /\ ClosedShort(p, x, m) = 0
    BY <1>1 DEF ClosedShort
  <2> QED
    BY <2>1, <2>2, <1>5
<1> QED
  <2>1. OpenShorts(x)' = OpenShorts(x) + Only(x = o, n)
    BY <1>3, <1>4, <1>5
  <2> QED
    BY <2>1, <1>6

LEMMA ShortsClosed ==
    ASSUME TypeOK, TypeOK', NEW p \in AllVaults, Closes(p), UNCHANGED vaultMM
    PROVE  \A x \in OTokens :
               /\ OpenShorts(x)' = OpenShorts(x)
                      - Only(x = VaultAt(p).shortOtoken, VaultAt(p).shortAmount)
               /\ \A m : ClosedShorts(x, m)' = ClosedShorts(x, m)
                      + Only(x = VaultAt(p).shortOtoken /\ m = MakerOf(p),
                             VaultAt(p).shortAmount)
<1> SUFFICES ASSUME NEW x \in OTokens
             PROVE  /\ OpenShorts(x)' = OpenShorts(x)
                           - Only(x = VaultAt(p).shortOtoken, VaultAt(p).shortAmount)
                    /\ \A m : ClosedShorts(x, m)' = ClosedShorts(x, m)
                           + Only(x = VaultAt(p).shortOtoken /\ m = MakerOf(p),
                                  VaultAt(p).shortAmount)
  OBVIOUS
<1> DEFINE k == VaultAt(p).shortAmount
<1>1. ~IsSettled(p) /\ IsSettled(p)' /\ VaultAt(p)' = VaultAt(p) /\ MakerOf(p)' = MakerOf(p)
  BY DEF Closes, VaultAt, MakerOf
<1>2. \A r \in AllVaults : r # p => /\ VaultAt(r)' = VaultAt(r)
                                    /\ (IsSettled(r)' <=> IsSettled(r))
                                    /\ MakerOf(r)' = MakerOf(r)
  BY DEF Closes, VaultAt, MakerOf
<1>3. k \in Nat /\ OpenShorts(x) \in Nat /\ \A m : ClosedShorts(x, m) \in Nat
  BY VaultTypes, ShortSums
<1>4. OpenShorts(x)' = OpenShorts(x) - Only(x = VaultAt(p).shortOtoken, k)
  <2>1. OpenShorts(x)' = OpenShorts(x) + (OpenShort(p, x)' - OpenShort(p, x))
    BY <1>2, OpenShortsChange DEF OpenShort
  <2>2. OpenShort(p, x)' = 0 /\ OpenShort(p, x) = Only(x = VaultAt(p).shortOtoken, k)
    BY <1>1 DEF OpenShort, Only
  <2>3. Only(x = VaultAt(p).shortOtoken, k) \in Nat
    BY <1>3 DEF Only
  <2> QED
    BY <2>1, <2>2, <2>3, <1>3
<1>5. ASSUME NEW m
      PROVE  ClosedShorts(x, m)' = ClosedShorts(x, m)
                 + Only(x = VaultAt(p).shortOtoken /\ m = MakerOf(p), k)
  <2>1. ClosedShorts(x, m)' = ClosedShorts(x, m)
            + (ClosedShort(p, x, m)' - ClosedShort(p, x, m))
    BY <1>2, ClosedShortsChange DEF ClosedShort
  <2>2. /\ ClosedShort(p, x, m)' = Only(x = VaultAt(p).shortOtoken /\ m = MakerOf(p), k)
        /\ ClosedShort(p, x, m) = 0
    BY <1>1 DEF ClosedShort, Only
  <2>3. Only(x = VaultAt(p).shortOtoken /\ m = MakerOf(p), k) \in Nat
    BY <1>3 DEF Only
  <2> QED
    BY <2>1, <2>2, <2>3, <1>3
<1> QED
  BY <1>4, <1>5

LEMMA HeldTypes ==
    TypeOK => /\ \A o \in OTokens, h \in OTokenHolders : oTokenBalance[o][h] \in Nat
              /\ \A m \in MMs, o \in OTokens : mmOTokenBalance[m][o] \in Nat
              /\ \A q \in Quotes : quoteState[q].filled \in Nat
  BY DEF TypeOK, ControllerTypeOK, SettlerTypeOK, QuoteState

LEMMA HeldTypesNext ==
    TypeOK' => /\ \A o \in OTokens, h \in OTokenHolders : oTokenBalance'[o][h] \in Nat
               /\ \A m \in MMs, o \in OTokens : mmOTokenBalance'[m][o] \in Nat
               /\ \A q \in Quotes : quoteState'[q].filled \in Nat
  BY DEF TypeOK, ControllerTypeOK, SettlerTypeOK, QuoteState

LEMMA HeldSums ==
    TypeOK => /\ \A o \in OTokens : Supply(o) \in Nat /\ LedgerTotal(o) \in Nat
              /\ \A m, o : Fills(m, o) \in Nat
<1> SUFFICES ASSUME TypeOK
             PROVE  /\ \A o \in OTokens : Supply(o) \in Nat /\ LedgerTotal(o) \in Nat
                    /\ \A m, o : Fills(m, o) \in Nat
  OBVIOUS
<1>1. ASSUME NEW o \in OTokens PROVE Supply(o) \in Nat
  BY HeldTypes, FiniteSets, SumNat DEF Supply
<1>2. ASSUME NEW o \in OTokens PROVE LedgerTotal(o) \in Nat
  <2> DEFINE f == [m \in MMs |-> mmOTokenBalance[m][o]]
  <2>1. \A m \in MMs : f[m] \in Nat
    BY HeldTypes
  <2> HIDE DEF f
  <2>2. SumFunctionOnSet(f, MMs) \in Nat
    BY <2>1, FiniteSets, SumNat
  <2> QED
    BY <2>2 DEF LedgerTotal, f
<1>3. ASSUME NEW m, NEW o PROVE Fills(m, o) \in Nat
  <2> DEFINE f == [q \in Quotes |-> quoteState[q].filled]
             R == {q \in Quotes : q.mm = m /\ q.oToken = o}
  <2>1. \A q \in R : f[q] \in Nat
    BY HeldTypes
  <2>2. IsFiniteSet(R)
    BY FiniteSets
  <2> HIDE DEF f, R
  <2>3. SumFunctionOnSet(f, R) \in Nat
    BY <2>1, <2>2, SumNat
  <2> QED
    BY <2>3 DEF Fills, f, R
<1> QED
  BY <1>1, <1>2, <1>3

LEMMA SupplyGains ==
    ASSUME TypeOK, TypeOK', NEW o \in OTokens, NEW h \in OTokenHolders, NEW n \in Int,
           HolderGains(o, h, n)
    PROVE  \A x \in OTokens : Supply(x)' = Supply(x) + Only(x = o, n)
<1> SUFFICES ASSUME NEW x \in OTokens PROVE Supply(x)' = Supply(x) + Only(x = o, n)
  OBVIOUS
<1> DEFINE f == oTokenBalance[x]
           g == oTokenBalance'[x]
<1>1. /\ \A y \in OTokenHolders : f[y] \in Int /\ g[y] \in Int
      /\ \A y \in OTokenHolders : y # h => g[y] = f[y]
      /\ g[h] = f[h] + Only(x = o, n)
  BY HeldTypes, HeldTypesNext DEF HolderGains, Only
<1> HIDE DEF f, g
<1>2. SumFunctionOnSet(g, OTokenHolders) = SumFunctionOnSet(f, OTokenHolders) + (g[h] - f[h])
  BY <1>1, FiniteSets, SumUpdate
<1>3. Supply(x)' = SumFunctionOnSet(g, OTokenHolders) /\ Supply(x) = SumFunctionOnSet(f, OTokenHolders)
  BY DEF Supply, f, g
<1>4. Only(x = o, n) \in Int /\ f[h] \in Int
  BY <1>1 DEF Only
<1>5. g[h] - f[h] = Only(x = o, n)
  BY <1>1, <1>4
<1> QED
  BY <1>2, <1>3, <1>5

LEMMA SupplyTransferred ==
    ASSUME TypeOK, TypeOK', NEW o \in OTokens, NEW from \in OTokenHolders,
           NEW to \in OTokenHolders, NEW n \in Nat,
           HolderPays(o, from, to, n)
    PROVE  \A x \in OTokens : Supply(x)' = Supply(x)
<1> SUFFICES ASSUME NEW x \in OTokens PROVE Supply(x)' = Supply(x)
  OBVIOUS
<1> DEFINE f == oTokenBalance[x]
           g == oTokenBalance'[x]
           k == Only(x = o, n)
           i == [y \in OTokenHolders |-> f[y] - IF y = from THEN k ELSE 0]
<1>1. /\ \A y \in OTokenHolders : f[y] \in Int /\ g[y] \in Int
      /\ \A y \in OTokenHolders : g[y] = f[y] + ((IF y = to THEN k ELSE 0)
                                                 - (IF y = from THEN k ELSE 0))
  <2>1. \A y \in OTokenHolders : f[y] \in Int /\ g[y] \in Int
    BY HeldTypes, HeldTypesNext
  <2>2. \A y \in OTokenHolders : g[y] = f[y] + ((IF y = to THEN k ELSE 0)
                                                 - (IF y = from THEN k ELSE 0))
    BY DEF HolderPays, Only
  <2> QED
    BY <2>1, <2>2
<1>2. k \in Int
  BY DEF Only
<1>3. \A y \in OTokenHolders : i[y] = f[y] - IF y = from THEN k ELSE 0
  OBVIOUS
<1>9. Supply(x)' = SumFunctionOnSet(g, OTokenHolders) /\ Supply(x) = SumFunctionOnSet(f, OTokenHolders)
  BY DEF Supply
<1>8. IsFiniteSet(OTokenHolders)
  BY FiniteSets
<1> HIDE DEF f, g, k, i
<1>4. i[from] - f[from] = 0 - k /\ g[to] - i[to] = k
  BY <1>1, <1>2, <1>3
<1>10. \A y \in OTokenHolders : f[y] \in Int /\ i[y] \in Int /\ g[y] \in Int
  BY <1>1, <1>2, <1>3
<1>11. \A y \in OTokenHolders : y # from => i[y] = f[y]
  BY <1>1, <1>2, <1>3
<1>12. \A y \in OTokenHolders : y # to => g[y] = i[y]
  BY <1>1, <1>2, <1>3
<1>5. SumFunctionOnSet(i, OTokenHolders) = SumFunctionOnSet(f, OTokenHolders) + (i[from] - f[from])
  <2>1. \A y \in OTokenHolders : f[y] \in Int /\ i[y] \in Int
    BY <1>10
  <2> QED
    BY <1>8, <1>11, <2>1, SumUpdate
<1>6. SumFunctionOnSet(g, OTokenHolders) = SumFunctionOnSet(i, OTokenHolders) + (g[to] - i[to])
  BY <1>8, <1>10, <1>12, SumUpdate
<1>7. SumFunctionOnSet(f, OTokenHolders) \in Int
  BY <1>1, <1>8, SumType
<1> QED
  BY <1>2, <1>4, <1>5, <1>6, <1>7, <1>9

LEMMA LedgerTotalGains ==
    ASSUME TypeOK, TypeOK', NEW mm \in MMs, NEW o \in OTokens, NEW n \in Int,
           LedgerGains(mm, o, n)
    PROVE  \A x \in OTokens : LedgerTotal(x)' = LedgerTotal(x) + Only(x = o, n)
<1> SUFFICES ASSUME NEW x \in OTokens
             PROVE LedgerTotal(x)' = LedgerTotal(x) + Only(x = o, n)
  OBVIOUS
<1> DEFINE f == [m \in MMs |-> mmOTokenBalance[m][x]]
           g == [m \in MMs |-> mmOTokenBalance'[m][x]]
<1>1. /\ \A m \in MMs : f[m] \in Int /\ g[m] \in Int
      /\ \A m \in MMs : m # mm => g[m] = f[m]
      /\ g[mm] = f[mm] + Only(x = o, n)
  BY HeldTypes, HeldTypesNext DEF LedgerGains, Only
<1>2. LedgerTotal(x)' = SumFunctionOnSet(g, MMs) /\ LedgerTotal(x) = SumFunctionOnSet(f, MMs)
  BY DEF LedgerTotal
<1> HIDE DEF f, g
<1>6. IsFiniteSet(MMs)
  BY FiniteSets
<1>3. SumFunctionOnSet(g, MMs) = SumFunctionOnSet(f, MMs) + (g[mm] - f[mm])
  BY <1>1, <1>6, SumUpdate
<1>4. Only(x = o, n) \in Int /\ f[mm] \in Int
  BY <1>1 DEF Only
<1>5. g[mm] - f[mm] = Only(x = o, n)
  BY <1>1, <1>4
<1> QED
  BY <1>2, <1>3, <1>5

LEMMA FillsGain ==
    ASSUME TypeOK, TypeOK', NEW q \in Quotes, NEW n \in Nat, QuoteGains(q, n)
    PROVE  \A m, x : Fills(m, x)' = Fills(m, x) + Only(m = q.mm /\ x = q.oToken, n)
<1> SUFFICES ASSUME NEW m, NEW x
             PROVE  Fills(m, x)' = Fills(m, x) + Only(m = q.mm /\ x = q.oToken, n)
  OBVIOUS
<1> DEFINE f == [r \in Quotes |-> quoteState[r].filled]
           g == [r \in Quotes |-> quoteState'[r].filled]
           R == {r \in Quotes : r.mm = m /\ r.oToken = x}
<1>1. /\ \A r \in Quotes : f[r] \in Nat /\ g[r] \in Nat
      /\ \A r \in Quotes : g[r] = f[r] + Only(r = q, n)
  BY HeldTypes, HeldTypesNext DEF QuoteGains
<1>2. Fills(m, x)' = SumFunctionOnSet(g, R) /\ Fills(m, x) = SumFunctionOnSet(f, R)
  BY DEF Fills
<1>3. IsFiniteSet(R) /\ R \in SUBSET Quotes
  BY FiniteSets
<1>4. q \in R <=> m = q.mm /\ x = q.oToken
  OBVIOUS
<1> HIDE DEF f, g, R
<1>5. CASE q \in R
  <2>1. SumFunctionOnSet(g, R) = SumFunctionOnSet(f, R) + (g[q] - f[q])
    BY <1>1, <1>3, <1>5, SumUpdate DEF Only
  <2>2. g[q] - f[q] = n
    BY <1>1, <1>3, <1>5 DEF Only
  <2> QED
    BY <1>2, <1>4, <1>5, <2>1, <2>2 DEF Only
<1>6. CASE q \notin R
  <2>1. SumFunctionOnSet(g, R) = SumFunctionOnSet(f, R)
    BY <1>1, <1>3, <1>6, SumSame DEF Only
  <2>2. SumFunctionOnSet(f, R) \in Nat
    BY <1>1, <1>3, SumNat
  <2> QED
    BY <1>2, <1>4, <1>6, <2>1, <2>2 DEF Only
<1> QED
  BY <1>5, <1>6

LEMMA HeldSame ==
    ASSUME TypeOK
    PROVE  /\ UNCHANGED oTokenBalance => \A o \in OTokens : Supply(o)' = Supply(o)
           /\ UNCHANGED mmOTokenBalance => \A o \in OTokens : LedgerTotal(o)' = LedgerTotal(o)
           /\ FillsKept => \A m, o : Fills(m, o)' = Fills(m, o)
<1>1. UNCHANGED oTokenBalance => \A o \in OTokens : Supply(o)' = Supply(o)
  BY DEF Supply
<1>2. UNCHANGED mmOTokenBalance => \A o \in OTokens : LedgerTotal(o)' = LedgerTotal(o)
  BY DEF LedgerTotal
<1>3. ASSUME FillsKept, NEW m, NEW o PROVE Fills(m, o)' = Fills(m, o)
  <2>1. [r \in Quotes |-> quoteState'[r].filled] = [r \in Quotes |-> quoteState[r].filled]
    BY <1>3 DEF FillsKept
  <2> QED
    BY <2>1 DEF Fills
<1> QED
  BY <1>1, <1>2, <1>3

-----------------------------------------------------------------------------
(* The books: supply against what is written, fills against the ledger, and *)
(* the ledger against the settler's oTokens.  A step keeps each difference, *)
(* or lets the third one fall.                                              *)

BookKept(o) ==
    /\ ~PriceIsSet(o) => Supply(o)' - OpenShorts(o)' = Supply(o) - OpenShorts(o)
    /\ ~PriceIsSet(o) => \A m \in MMs :
           Fills(m, o)' - (mmOTokenBalance'[m][o] + ClosedShorts(o, m)')
               = Fills(m, o) - (mmOTokenBalance[m][o] + ClosedShorts(o, m))
    /\ LedgerTotal(o)' - (oTokenBalance'[o][Settler] + ClosedShorts(o, NoMM)')
           <= LedgerTotal(o) - (oTokenBalance[o][Settler] + ClosedShorts(o, NoMM))
BooksKept == \A o \in OTokens : BookKept(o)

\* A vault that wrote nothing has written nothing of any option.
UnwrittenIsZero ==
    \A p \in AllVaults : VaultAt(p).shortOtoken = NoOToken => VaultAt(p).shortAmount = 0

LEMMA BookTypes ==
    TypeOK => \A o \in OTokens :
        /\ Supply(o) \in Nat /\ OpenShorts(o) \in Nat /\ LedgerTotal(o) \in Nat
        /\ oTokenBalance[o][Settler] \in Nat
        /\ \A m : ClosedShorts(o, m) \in Nat
        /\ \A m : Fills(m, o) \in Nat
        /\ \A m \in MMs : mmOTokenBalance[m][o] \in Nat
  BY HeldSums, HeldTypes, ShortSums DEF OTokenHolders

LEMMA StepQuietBooks ==
    ASSUME TypeOK, TypeOK', StepQuiet \/ StepPrice
    PROVE  BooksKept
<1> SUFFICES ASSUME NEW o \in OTokens PROVE BookKept(o)
  BY DEF BooksKept
<1>1. /\ UNCHANGED <<vaults, vaultSettled, vaultMM>> /\ FillsKept
      /\ UNCHANGED oTokenBalance /\ UNCHANGED mmOTokenBalance
  BY DEF StepQuiet, StepPrice
<1>2. Supply(o)' = Supply(o) /\ LedgerTotal(o)' = LedgerTotal(o)
      /\ \A m : Fills(m, o)' = Fills(m, o)
  BY <1>1, HeldSame
<1>3. OpenShorts(o)' = OpenShorts(o) /\ \A m : ClosedShorts(o, m)' = ClosedShorts(o, m)
  BY <1>1, ShortsSame
<1>4. oTokenBalance'[o][Settler] = oTokenBalance[o][Settler]
      /\ \A m \in MMs : mmOTokenBalance'[m][o] = mmOTokenBalance[m][o]
  BY <1>1
<1>5. LedgerTotal(o) - (oTokenBalance[o][Settler] + ClosedShorts(o, NoMM)) \in Int
  BY BookTypes
<1> QED
  BY <1>2, <1>3, <1>4, <1>5 DEF BookKept

\* Depositing writes no oToken.
LEMMA StepDepositBooks ==
    ASSUME TypeOK, TypeOK', NEW p \in AllVaults, NEW a \in Assets, NEW d \in Nat,
           StepDeposit(p, a, d)
    PROVE  BooksKept
<1> SUFFICES ASSUME NEW o \in OTokens PROVE BookKept(o)
  BY DEF BooksKept
<1>1. /\ UNCHANGED vaultMM /\ FillsKept
      /\ UNCHANGED oTokenBalance /\ UNCHANGED mmOTokenBalance
  BY DEF StepDeposit
<1>2. Supply(o)' = Supply(o) /\ LedgerTotal(o)' = LedgerTotal(o)
      /\ \A m : Fills(m, o)' = Fills(m, o)
  BY <1>1, HeldSame
<1>3. OpenShorts(o)' = OpenShorts(o) + Only(o = o, 0)
      /\ \A m : ClosedShorts(o, m)' = ClosedShorts(o, m)
  <2> DEFINE v == Deposited(VaultAt(p), a, d)
  <2>1. Writes(p, v) /\ \A r \in AllVaults : r # p => MakerOf(r)' = MakerOf(r)
    BY <1>1 DEF StepDeposit, MakerOf
  <2>2. VaultAt(p).shortAmount \in Nat
    BY VaultTypes
  <2>3. v.shortOtoken = VaultAt(p).shortOtoken /\ v.shortAmount = VaultAt(p).shortAmount
    BY DEF Deposited
  <2>4. WritesMore(p, v, o, 0)
    BY <2>2, <2>3 DEF Only, WritesMore
  <2> HIDE DEF v
  <2> QED
    BY <2>1, <2>4, ShortsWritten
<1>4. oTokenBalance'[o][Settler] = oTokenBalance[o][Settler]
      /\ \A m \in MMs : mmOTokenBalance'[m][o] = mmOTokenBalance[m][o]
  BY <1>1
<1>5. LedgerTotal(o) - (oTokenBalance[o][Settler] + ClosedShorts(o, NoMM)) \in Int
      /\ OpenShorts(o) \in Nat
  BY BookTypes
<1>6. OpenShorts(o)' = OpenShorts(o)
  BY <1>3, <1>5 DEF Only
<1> QED
  BY <1>2, <1>3, <1>4, <1>5, <1>6 DEF BookKept

LEMMA Written ==
    ASSUME TypeOK, UnwrittenIsZero, NEW p \in AllVaults, NEW o \in OTokens, NEW n \in Nat,
           VaultAt(p).shortOtoken \in {NoOToken, o}, NEW v,
           v.shortOtoken = VaultAt(p).shortOtoken, v.shortAmount = VaultAt(p).shortAmount
    PROVE  WritesMore(p, Minted(v, o, n), o, n)
<1>1. VaultAt(p).shortAmount \in Nat
  BY VaultTypes
<1> QED
  BY <1>1 DEF UnwrittenIsZero, Minted, Only, WritesMore

LEMMA StepMintBooks ==
    ASSUME TypeOK, TypeOK', UnwrittenIsZero, NEW p \in AllVaults, NEW o \in OTokens,
           NEW n \in Nat, NEW h \in OTokenHolders, StepMint(p, o, n, h)
    PROVE  BooksKept
<1> SUFFICES ASSUME NEW x \in OTokens PROVE BookKept(x)
  BY DEF BooksKept
<1>1. /\ UNCHANGED vaultMM /\ FillsKept /\ UNCHANGED mmOTokenBalance
      /\ HolderGains(o, h, n) /\ Writes(p, Minted(VaultAt(p), o, n))
      /\ VaultAt(p).shortOtoken \in {NoOToken, o}
  BY DEF StepMint
<1>2. /\ LedgerTotal(x)' = LedgerTotal(x)
      /\ \A m : Fills(m, x)' = Fills(m, x)
      /\ \A m \in MMs : mmOTokenBalance'[m][x] = mmOTokenBalance[m][x]
  BY <1>1, HeldSame
<1>3. OpenShorts(x)' = OpenShorts(x) + Only(x = o, n)
      /\ \A m : ClosedShorts(x, m)' = ClosedShorts(x, m)
  <2>1. \A r \in AllVaults : r # p => MakerOf(r)' = MakerOf(r)
    BY <1>1 DEF MakerOf
  <2> QED
    BY <1>1, <2>1, Written, ShortsWritten
<1>4. Supply(x)' = Supply(x) + Only(x = o, n)
  BY <1>1, SupplyGains
<1>5. oTokenBalance'[x][Settler] = oTokenBalance[x][Settler] + Only(x = o /\ Settler = h, n)
  BY <1>1 DEF HolderGains, OTokenHolders
<1>6. Only(x = o, n) \in Nat /\ Only(x = o /\ Settler = h, n) \in Nat
  BY DEF Only
<1>7. /\ Supply(x) \in Nat /\ OpenShorts(x) \in Nat /\ LedgerTotal(x) \in Nat
      /\ oTokenBalance[x][Settler] \in Nat /\ ClosedShorts(x, NoMM) \in Nat
  BY BookTypes
<1>8. Supply(x)' - OpenShorts(x)' = Supply(x) - OpenShorts(x)
  BY <1>3, <1>4, <1>6, <1>7
<1>9. LedgerTotal(x)' - (oTokenBalance'[x][Settler] + ClosedShorts(x, NoMM)')
          <= LedgerTotal(x) - (oTokenBalance[x][Settler] + ClosedShorts(x, NoMM))
  BY <1>2, <1>3, <1>5, <1>6, <1>7
<1> QED
  BY <1>2, <1>3, <1>8, <1>9 DEF BookKept

LEMMA StepOrderBooks ==
    ASSUME TypeOK, TypeOK', UnwrittenIsZero, NEW p \in AllVaults, NEW q \in Quotes,
           NEW n \in Nat, NEW d \in Nat, StepOrder(p, q, n, d)
    PROVE  BooksKept
<1> SUFFICES ASSUME NEW x \in OTokens PROVE BookKept(x)
  BY DEF BooksKept
<1> DEFINE o == q.oToken
           w == Deposited(VaultAt(p), Series[o].collateralAsset, d)
<1>0. o \in OTokens /\ q.mm \in MMs
  BY SettlerAssumption DEF QuoteFields
<1>1. /\ Writes(p, Minted(w, o, n))
      /\ \A r \in AllVaults : r # p => MakerOf(r)' = MakerOf(r)
      /\ HolderGains(o, Settler, n)
      /\ LedgerGains(q.mm, o, n)
      /\ QuoteGains(q, n)
      /\ VaultAt(p).shortOtoken \in {NoOToken, o}
  BY DEF StepOrder
<1>2. w.shortOtoken = VaultAt(p).shortOtoken /\ w.shortAmount = VaultAt(p).shortAmount
  BY DEF Deposited
<1> HIDE DEF o, w
<1>3. OpenShorts(x)' = OpenShorts(x) + Only(x = o, n)
      /\ \A m : ClosedShorts(x, m)' = ClosedShorts(x, m)
  BY <1>0, <1>1, <1>2, Written, ShortsWritten
<1>4. Supply(x)' = Supply(x) + Only(x = o, n)
  BY <1>0, <1>1, SupplyGains DEF OTokenHolders
<1>5. oTokenBalance'[x][Settler] = oTokenBalance[x][Settler] + Only(x = o, n)
  BY <1>1 DEF HolderGains, OTokenHolders, Only
<1>6. LedgerTotal(x)' = LedgerTotal(x) + Only(x = o, n)
  BY <1>0, <1>1, LedgerTotalGains
<1>7. \A m : Fills(m, x)' = Fills(m, x) + Only(m = q.mm /\ x = o, n)
  BY <1>1, FillsGain DEF o
<1>8. \A m \in MMs : mmOTokenBalance'[m][x] = mmOTokenBalance[m][x] + Only(m = q.mm /\ x = o, n)
  BY <1>1 DEF LedgerGains
<1>9. /\ Supply(x) \in Nat /\ OpenShorts(x) \in Nat /\ LedgerTotal(x) \in Nat
      /\ oTokenBalance[x][Settler] \in Nat /\ Only(x = o, n) \in Nat
      /\ \A m : ClosedShorts(x, m) \in Nat /\ Fills(m, x) \in Nat
      /\ \A m \in MMs : mmOTokenBalance[m][x] \in Nat /\ Only(m = q.mm /\ x = o, n) \in Nat
  BY BookTypes DEF Only
<1>10. Supply(x)' - OpenShorts(x)' = Supply(x) - OpenShorts(x)
  BY <1>3, <1>4, <1>9
<1>11. \A m \in MMs :
           Fills(m, x)' - (mmOTokenBalance'[m][x] + ClosedShorts(x, m)')
               = Fills(m, x) - (mmOTokenBalance[m][x] + ClosedShorts(x, m))
  BY <1>3, <1>7, <1>8, <1>9
<1>12. LedgerTotal(x)' - (oTokenBalance'[x][Settler] + ClosedShorts(x, NoMM)')
           <= LedgerTotal(x) - (oTokenBalance[x][Settler] + ClosedShorts(x, NoMM))
  BY <1>3, <1>5, <1>6, <1>9
<1> QED
  BY <1>10, <1>11, <1>12 DEF BookKept

LEMMA StepTransferBooks ==
    ASSUME TypeOK, TypeOK', NEW o \in OTokens, NEW from \in Users, NEW to \in OTokenHolders,
           NEW n \in Nat, StepTransfer(o, from, to, n)
    PROVE  BooksKept
<1> SUFFICES ASSUME NEW x \in OTokens PROVE BookKept(x)
  BY DEF BooksKept
<1>1. /\ UNCHANGED <<vaults, vaultSettled, vaultMM>> /\ FillsKept /\ UNCHANGED mmOTokenBalance
      /\ HolderPays(o, from, to, n)
  BY DEF StepTransfer
<1>2. LedgerTotal(x)' = LedgerTotal(x)
      /\ (\A m : Fills(m, x)' = Fills(m, x))
      /\ \A m \in MMs : mmOTokenBalance'[m][x] = mmOTokenBalance[m][x]
  BY <1>1, HeldSame
<1>3. OpenShorts(x)' = OpenShorts(x) /\ \A m : ClosedShorts(x, m)' = ClosedShorts(x, m)
  BY <1>1, ShortsSame
<1>4. from \in OTokenHolders /\ Settler \in OTokenHolders /\ Settler # from
  BY ControllerAssumption DEF OTokenHolders
<1>5. Supply(x)' = Supply(x)
  BY <1>1, <1>4, SupplyTransferred
<1>6. /\ oTokenBalance'[x][Settler] = oTokenBalance[x][Settler] + Only(x = o /\ Settler = to, n)
      /\ Only(x = o /\ Settler = to, n) \in Nat
  BY <1>1, <1>4, HeldTypes DEF HolderPays, Only
<1>7. /\ LedgerTotal(x) \in Nat /\ oTokenBalance[x][Settler] \in Nat
      /\ ClosedShorts(x, NoMM) \in Nat
  BY BookTypes
<1>8. LedgerTotal(x)' - (oTokenBalance'[x][Settler] + ClosedShorts(x, NoMM)')
          <= LedgerTotal(x) - (oTokenBalance[x][Settler] + ClosedShorts(x, NoMM))
  BY <1>2, <1>3, <1>6, <1>7
<1> QED
  BY <1>2, <1>3, <1>5, <1>8 DEF BookKept

\* Redeeming burns an option that is priced.  What the settler redeems leaves a ledger.
LEMMA StepRedeemBooks ==
    ASSUME TypeOK, TypeOK', NEW o \in OTokens, NEW n \in Nat, NEW h \in OTokenHolders,
           StepRedeem(o, n, h),
           \/ h \in Users /\ UNCHANGED mmOTokenBalance
           \/ h = Settler /\ \E mm \in MMs : LedgerGains(mm, o, 0 - n)
    PROVE  BooksKept
<1> SUFFICES ASSUME NEW x \in OTokens PROVE BookKept(x)
  BY DEF BooksKept
<1>1. /\ UNCHANGED <<vaults, vaultSettled, vaultMM>> /\ FillsKept
      /\ HolderGains(o, h, 0 - n) /\ PriceIsSet(o)
  BY DEF StepRedeem
<1>2. \A m : Fills(m, x)' = Fills(m, x)
  BY <1>1, HeldSame
<1>3. OpenShorts(x)' = OpenShorts(x) /\ \A m : ClosedShorts(x, m)' = ClosedShorts(x, m)
  BY <1>1, ShortsSame
<1>4. 0 - n \in Int /\ Settler \in OTokenHolders /\ Settler \notin Users
  BY ControllerAssumption DEF OTokenHolders
<1>5. Supply(x)' = Supply(x) + Only(x = o, 0 - n)
  BY <1>1, <1>4, SupplyGains
<1>6. oTokenBalance'[x][Settler] = oTokenBalance[x][Settler] + Only(x = o /\ Settler = h, 0 - n)
  BY <1>1, <1>4 DEF HolderGains
<1>7. /\ Supply(x) \in Nat /\ LedgerTotal(x) \in Nat /\ oTokenBalance[x][Settler] \in Nat
      /\ ClosedShorts(x, NoMM) \in Nat
  BY BookTypes
<1>8. /\ LedgerTotal(x)' = LedgerTotal(x) + Only(x = o /\ Settler = h, 0 - n)
      /\ x # o => \A m \in MMs : mmOTokenBalance'[m][x] = mmOTokenBalance[m][x]
  <2>1. CASE h \in Users /\ UNCHANGED mmOTokenBalance
    <3>1. LedgerTotal(x)' = LedgerTotal(x)
      BY <2>1, HeldSame
    <3> QED
      BY <1>4, <1>7, <2>1, <3>1 DEF Only
  <2>2. ASSUME h = Settler, NEW mm \in MMs, LedgerGains(mm, o, 0 - n)
        PROVE  /\ LedgerTotal(x)' = LedgerTotal(x) + Only(x = o /\ Settler = h, 0 - n)
               /\ x # o => \A m \in MMs : mmOTokenBalance'[m][x] = mmOTokenBalance[m][x]
    <3>1. LedgerTotal(x)' = LedgerTotal(x) + Only(x = o, 0 - n)
      BY <1>4, <2>2, LedgerTotalGains
    <3>2. x # o => \A m \in MMs : mmOTokenBalance'[m][x] = mmOTokenBalance[m][x]
      BY <2>2, HeldTypes DEF LedgerGains, Only
    <3> QED
      BY <2>2, <3>1, <3>2 DEF Only
  <2> QED
    BY <2>1, <2>2
<1>9. Only(x = o /\ Settler = h, 0 - n) \in Int
  BY DEF Only
<1>10. LedgerTotal(x)' - (oTokenBalance'[x][Settler] + ClosedShorts(x, NoMM)')
           <= LedgerTotal(x) - (oTokenBalance[x][Settler] + ClosedShorts(x, NoMM))
  BY <1>3, <1>6, <1>7, <1>8, <1>9
<1>11. x # o => Supply(x)' = Supply(x)
  BY <1>5, <1>7 DEF Only
<1> QED
  BY <1>1, <1>2, <1>3, <1>8, <1>10, <1>11 DEF BookKept

LEMMA StepSettleBooks ==
    ASSUME TypeOK, TypeOK', NEW p \in AllVaults, StepSettle(p)
    PROVE  BooksKept
<1> SUFFICES ASSUME NEW x \in OTokens PROVE BookKept(x)
  BY DEF BooksKept
<1> DEFINE k == VaultAt(p).shortAmount
           o == VaultAt(p).shortOtoken
<1>1. /\ UNCHANGED vaultMM /\ FillsKept /\ Closes(p) /\ PriceIsSet(o)
      /\ UNCHANGED oTokenBalance /\ UNCHANGED mmOTokenBalance
  BY DEF StepSettle
<1>2. Supply(x)' = Supply(x) /\ LedgerTotal(x)' = LedgerTotal(x)
      /\ \A m : Fills(m, x)' = Fills(m, x)
  BY <1>1, HeldSame
<1>3. /\ OpenShorts(x)' = OpenShorts(x) - Only(x = o, k)
      /\ \A m : ClosedShorts(x, m)' = ClosedShorts(x, m) + Only(x = o /\ m = MakerOf(p), k)
  BY <1>1, ShortsClosed
<1>4. /\ LedgerTotal(x) \in Nat /\ oTokenBalance[x][Settler] \in Nat /\ OpenShorts(x) \in Nat
      /\ (\A m : ClosedShorts(x, m) \in Nat) /\ k \in Nat
  BY BookTypes, VaultTypes
<1> HIDE DEF k, o
<1>5. LedgerTotal(x)' - (oTokenBalance'[x][Settler] + ClosedShorts(x, NoMM)')
          <= LedgerTotal(x) - (oTokenBalance[x][Settler] + ClosedShorts(x, NoMM))
  BY <1>1, <1>2, <1>3, <1>4 DEF Only
<1>6. x # o => OpenShorts(x)' = OpenShorts(x) /\ \A m : ClosedShorts(x, m)' = ClosedShorts(x, m)
  BY <1>3, <1>4 DEF Only
<1> QED
  BY <1>1, <1>2, <1>5, <1>6 DEF BookKept

\* What a withdrawal closes is burned from the settler and leaves the ledger of
\* the vault's market maker, if it has one.
LEMMA StepWithdrawBooks ==
    ASSUME TypeOK, TypeOK', NEW p \in AllVaults, StepWithdraw(p)
    PROVE  BooksKept
<1> SUFFICES ASSUME NEW x \in OTokens PROVE BookKept(x)
  BY DEF BooksKept
<1> DEFINE k == VaultAt(p).shortAmount
           o == VaultAt(p).shortOtoken
           mm == MakerOf(p)
<1>1. /\ UNCHANGED vaultMM /\ FillsKept /\ Closes(p)
      /\ \/ (o = NoOToken \/ k = 0) /\ UNCHANGED oTokenBalance /\ UNCHANGED mmOTokenBalance
         \/ /\ o # NoOToken /\ HolderGains(o, Settler, 0 - k)
            /\ \/ mm = NoMM /\ UNCHANGED mmOTokenBalance
               \/ mm \in MMs /\ LedgerGains(mm, o, 0 - k)
  BY DEF StepWithdraw
<1>2. \A m : Fills(m, x)' = Fills(m, x)
  BY <1>1, HeldSame
<1>3. /\ OpenShorts(x)' = OpenShorts(x) - Only(x = o, k)
      /\ \A m : ClosedShorts(x, m)' = ClosedShorts(x, m) + Only(x = o /\ m = mm, k)
  BY <1>1, ShortsClosed
<1>4. k \in Nat /\ o \in OTokens \cup {NoOToken} /\ mm \in MMs \cup {NoMM}
  BY VaultTypes
<1>5. /\ Supply(x) \in Nat /\ OpenShorts(x) \in Nat /\ LedgerTotal(x) \in Nat
      /\ oTokenBalance[x][Settler] \in Nat
      /\ (\A m : ClosedShorts(x, m) \in Nat /\ Fills(m, x) \in Nat)
      /\ \A m \in MMs : mmOTokenBalance[m][x] \in Nat
  BY BookTypes
<1>6. NoOToken \notin OTokens /\ NoMM \notin MMs /\ Settler \in OTokenHolders
  BY ControllerAssumption, SettlerAssumption DEF OTokenHolders
<1> HIDE DEF k, o, mm
<1>7. CASE (o = NoOToken \/ k = 0) /\ UNCHANGED oTokenBalance /\ UNCHANGED mmOTokenBalance
  <2>1. /\ Supply(x)' = Supply(x) /\ LedgerTotal(x)' = LedgerTotal(x)
        /\ oTokenBalance'[x][Settler] = oTokenBalance[x][Settler]
        /\ \A m \in MMs : mmOTokenBalance'[m][x] = mmOTokenBalance[m][x]
    BY <1>7, HeldSame
  <2>2. OpenShorts(x)' = OpenShorts(x) /\ \A m : ClosedShorts(x, m)' = ClosedShorts(x, m)
    BY <1>3, <1>4, <1>5, <1>6, <1>7 DEF Only
  <2> QED
    BY <1>2, <1>5, <2>1, <2>2 DEF BookKept
<1>8. CASE o \in OTokens /\ HolderGains(o, Settler, 0 - k)
           /\ mm = NoMM /\ UNCHANGED mmOTokenBalance
  <2>1. Supply(x)' = Supply(x) + Only(x = o, 0 - k)
    BY <1>4, <1>6, <1>8, SupplyGains
  <2>2. oTokenBalance'[x][Settler] = oTokenBalance[x][Settler] + Only(x = o, 0 - k)
    BY <1>6, <1>8 DEF HolderGains, Only
  <2>3. LedgerTotal(x)' = LedgerTotal(x)
        /\ \A m \in MMs : mmOTokenBalance'[m][x] = mmOTokenBalance[m][x]
    BY <1>8, HeldSame
  <2>4. /\ \A m \in MMs : ClosedShorts(x, m)' = ClosedShorts(x, m)
        /\ ClosedShorts(x, NoMM)' = ClosedShorts(x, NoMM) + Only(x = o, k)
    BY <1>3, <1>5, <1>6, <1>8 DEF Only
  <2>5. Supply(x)' - OpenShorts(x)' = Supply(x) - OpenShorts(x)
    BY <1>3, <1>4, <1>5, <2>1 DEF Only
  <2>6. LedgerTotal(x)' - (oTokenBalance'[x][Settler] + ClosedShorts(x, NoMM)')
            <= LedgerTotal(x) - (oTokenBalance[x][Settler] + ClosedShorts(x, NoMM))
    BY <1>4, <1>5, <2>2, <2>3, <2>4 DEF Only
  <2> QED
    BY <1>2, <2>3, <2>4, <2>5, <2>6 DEF BookKept
<1>9. CASE o \in OTokens /\ HolderGains(o, Settler, 0 - k)
           /\ mm \in MMs /\ LedgerGains(mm, o, 0 - k)
  <2>1. Supply(x)' = Supply(x) + Only(x = o, 0 - k)
    BY <1>4, <1>6, <1>9, SupplyGains
  <2>2. oTokenBalance'[x][Settler] = oTokenBalance[x][Settler] + Only(x = o, 0 - k)
    BY <1>6, <1>9 DEF HolderGains, Only
  <2>3. LedgerTotal(x)' = LedgerTotal(x) + Only(x = o, 0 - k)
    BY <1>4, <1>9, LedgerTotalGains
  <2>4. \A m \in MMs : mmOTokenBalance'[m][x] = mmOTokenBalance[m][x]
                                                + Only(m = mm /\ x = o, 0 - k)
    BY <1>9 DEF LedgerGains
  <2>5. ClosedShorts(x, NoMM)' = ClosedShorts(x, NoMM)
    BY <1>3, <1>5, <1>6, <1>9 DEF Only
  <2>6. Supply(x)' - OpenShorts(x)' = Supply(x) - OpenShorts(x)
    BY <1>3, <1>4, <1>5, <2>1 DEF Only
  <2>7. LedgerTotal(x)' - (oTokenBalance'[x][Settler] + ClosedShorts(x, NoMM)')
            <= LedgerTotal(x) - (oTokenBalance[x][Settler] + ClosedShorts(x, NoMM))
    BY <1>4, <1>5, <2>2, <2>3, <2>5 DEF Only
  <2>8. \A m \in MMs :
            Fills(m, x)' - (mmOTokenBalance'[m][x] + ClosedShorts(x, m)')
                = Fills(m, x) - (mmOTokenBalance[m][x] + ClosedShorts(x, m))
    BY <1>2, <1>3, <1>4, <1>5, <2>4 DEF Only
  <2> QED
    BY <2>6, <2>7, <2>8 DEF BookKept
<1> QED
  BY <1>1, <1>4, <1>7, <1>8, <1>9

LEMMA StepBooks == TypeOK /\ TypeOK' /\ UnwrittenIsZero /\ Step => BooksKept
<1> SUFFICES ASSUME TypeOK, TypeOK', UnwrittenIsZero, Step PROVE BooksKept
  OBVIOUS
<1>1. ASSUME NEW mm \in MMs, NEW o \in OTokens, NEW n \in Nat,
             StepRedeem(o, n, Settler), LedgerGains(mm, o, 0 - n)
      PROVE  BooksKept
  BY <1>1, StepRedeemBooks DEF OTokenHolders
<1>2. ASSUME NEW o \in OTokens, NEW n \in Nat, NEW h \in Users,
             StepRedeem(o, n, h), UNCHANGED mmOTokenBalance
      PROVE  BooksKept
  BY <1>2, StepRedeemBooks DEF OTokenHolders
<1> QED
  BY <1>1, <1>2, StepQuietBooks, StepDepositBooks, StepMintBooks, StepOrderBooks,
     StepTransferBooks, StepSettleBooks, StepWithdrawBooks DEF Step

-----------------------------------------------------------------------------
(* The inductive invariant of the books.  Supply and fills are tracked past *)
(* expiry, until the option is priced: that is when redemption may begin.   *)

PricedExpired == \A o \in OTokens : PriceIsSet(o) => Expired(o)

SupplyIsWritten == \A o \in OTokens : ~PriceIsSet(o) => Supply(o) = OpenShorts(o)

FillsAreHeld ==
    \A m \in MMs, o \in OTokens :
        ~PriceIsSet(o) => Fills(m, o) = mmOTokenBalance[m][o] + ClosedShorts(o, m)

LedgerIsHeld ==
    \A o \in OTokens :
        LedgerTotal(o) <= oTokenBalance[o][Settler] + ClosedShorts(o, NoMM)

LedgerInv ==
    /\ UnwrittenIsZero
    /\ PricedExpired
    /\ SupplyIsWritten
    /\ FillsAreHeld
    /\ LedgerIsHeld
    /\ SettlerKeepsNothing

LEMMA PricesStay ==
    ASSUME TypeOK, TypeOK', Step, NEW o \in OTokens
    PROVE  /\ PriceIsSet(o) => PriceOf(o)' = PriceOf(o)
           /\ PriceIsSet(o)' => PriceIsSet(o) \/ Expired(o)
           /\ Expired(o) => Expired(o)'
<1>1. \/ now' >= now /\ UNCHANGED expiryPrice
      \/ StepPrice
  <2>1. now \in Nat
    BY ControllerAssumption DEF TypeOK, ControllerTypeOK
  <2> QED
    BY <2>1 DEF Step, StepQuiet, StepDeposit, StepMint, StepOrder, StepTransfer,
                StepRedeem, StepSettle, StepWithdraw
<1>2. now \in Nat /\ now' \in Nat /\ Series[o].expiry \in Nat
  BY SeriesType, ControllerAssumption DEF TypeOK, ControllerTypeOK
<1>3. CASE now' >= now /\ UNCHANGED expiryPrice
  BY <1>2, <1>3 DEF PriceIsSet, PriceOf, Expired
<1>4. CASE StepPrice
  BY <1>2, <1>4 DEF StepPrice, PriceIsSet, Expired
<1> QED
  BY <1>1, <1>3, <1>4

LEMMA StepUnwritten ==
    ASSUME TypeOK, UnwrittenIsZero, Step
    PROVE  UnwrittenIsZero'
<1>0. NoOToken \notin OTokens
  BY ControllerAssumption
<1>1. CASE UNCHANGED vaults
  BY <1>1 DEF UnwrittenIsZero, VaultAt
<1>2. ASSUME NEW p \in AllVaults, NEW v, Writes(p, v),
             v.shortOtoken = NoOToken => v.shortAmount = 0
      PROVE  UnwrittenIsZero'
  BY <1>2 DEF Writes, UnwrittenIsZero
<1>3. ASSUME NEW p \in AllVaults, NEW a \in Assets, NEW d \in Nat, StepDeposit(p, a, d)
      PROVE  UnwrittenIsZero'
  BY <1>2, <1>3 DEF StepDeposit, Deposited, UnwrittenIsZero
<1>4. ASSUME NEW p \in AllVaults, NEW o \in OTokens, NEW n \in Nat, NEW h \in OTokenHolders,
             StepMint(p, o, n, h)
      PROVE  UnwrittenIsZero'
  BY <1>0, <1>2, <1>4 DEF StepMint, Minted
<1>5. ASSUME NEW p \in AllVaults, NEW q \in Quotes, NEW n \in Nat, NEW d \in Nat,
             StepOrder(p, q, n, d)
      PROVE  UnwrittenIsZero'
  <2>1. q.oToken \in OTokens
    BY SettlerAssumption DEF QuoteFields
  <2> QED
    BY <1>0, <1>2, <1>5, <2>1 DEF StepOrder, Minted
<1>6. \/ UNCHANGED vaults
      \/ \E p \in AllVaults, a \in Assets, d \in Nat : StepDeposit(p, a, d)
      \/ \E p \in AllVaults, o \in OTokens, n \in Nat, h \in OTokenHolders :
             StepMint(p, o, n, h)
      \/ \E p \in AllVaults, q \in Quotes, n \in Nat, d \in Nat : StepOrder(p, q, n, d)
  BY DEF Step, StepQuiet, StepPrice, StepTransfer, StepRedeem, StepSettle, StepWithdraw,
         Closes
<1> QED
  BY <1>1, <1>3, <1>4, <1>5, <1>6

LEMMA BookTypesNext ==
    TypeOK' => \A o \in OTokens :
        /\ Supply(o)' \in Nat /\ OpenShorts(o)' \in Nat /\ LedgerTotal(o)' \in Nat
        /\ oTokenBalance'[o][Settler] \in Nat
        /\ \A m : ClosedShorts(o, m)' \in Nat
        /\ \A m : Fills(m, o)' \in Nat
        /\ \A m \in MMs : mmOTokenBalance'[m][o] \in Nat
<1>1. (TypeOK => \A o \in OTokens :
        /\ Supply(o) \in Nat /\ OpenShorts(o) \in Nat /\ LedgerTotal(o) \in Nat
        /\ oTokenBalance[o][Settler] \in Nat
        /\ \A m : ClosedShorts(o, m) \in Nat
        /\ \A m : Fills(m, o) \in Nat
        /\ \A m \in MMs : mmOTokenBalance[m][o] \in Nat)'
  BY BookTypes, PTL
<1> QED
  BY <1>1

LEMMA StepLedgerInv ==
    ASSUME TypeOK, TypeOK', LedgerInv, Step, SettlerKept
    PROVE  LedgerInv'
<1>1. UnwrittenIsZero'
  BY StepUnwritten DEF LedgerInv
<1>2. \A o \in OTokens : BookKept(o)
  BY StepBooks DEF LedgerInv, BooksKept
<1>3. \A o \in OTokens : /\ PriceIsSet(o) => PriceIsSet(o)'
                         /\ PriceIsSet(o)' => Expired(o)'
  BY PricesStay DEF LedgerInv, PricedExpired, PriceIsSet
<1>4. ASSUME NEW o \in OTokens, ~PriceIsSet(o)'
      PROVE  Supply(o)' = OpenShorts(o)'
  <2>1. ~PriceIsSet(o)
    BY <1>3, <1>4
  <2>2. Supply(o)' - OpenShorts(o)' = Supply(o) - OpenShorts(o) /\ Supply(o) = OpenShorts(o)
    BY <1>2, <2>1 DEF BookKept, LedgerInv, SupplyIsWritten
  <2>3. Supply(o) \in Nat /\ Supply(o)' \in Nat /\ OpenShorts(o)' \in Nat
    BY BookTypes, BookTypesNext
  <2> QED
    BY <2>2, <2>3
<1>5. ASSUME NEW m \in MMs, NEW o \in OTokens, ~PriceIsSet(o)'
      PROVE  Fills(m, o)' = mmOTokenBalance'[m][o] + ClosedShorts(o, m)'
  <2>1. ~PriceIsSet(o)
    BY <1>3, <1>5
  <2>2. /\ Fills(m, o)' - (mmOTokenBalance'[m][o] + ClosedShorts(o, m)')
               = Fills(m, o) - (mmOTokenBalance[m][o] + ClosedShorts(o, m))
        /\ Fills(m, o) = mmOTokenBalance[m][o] + ClosedShorts(o, m)
    BY <1>2, <2>1 DEF BookKept, LedgerInv, FillsAreHeld
  <2>3. /\ Fills(m, o) \in Nat /\ Fills(m, o)' \in Nat
        /\ mmOTokenBalance'[m][o] \in Nat /\ ClosedShorts(o, m)' \in Nat
    BY BookTypes, BookTypesNext
  <2> QED
    BY <2>2, <2>3
<1>6. ASSUME NEW o \in OTokens
      PROVE  LedgerTotal(o)' <= oTokenBalance'[o][Settler] + ClosedShorts(o, NoMM)'
  <2>1. /\ LedgerTotal(o)' - (oTokenBalance'[o][Settler] + ClosedShorts(o, NoMM)')
               <= LedgerTotal(o) - (oTokenBalance[o][Settler] + ClosedShorts(o, NoMM))
        /\ LedgerTotal(o) <= oTokenBalance[o][Settler] + ClosedShorts(o, NoMM)
    BY <1>2 DEF BookKept, LedgerInv, LedgerIsHeld
  <2>2. /\ LedgerTotal(o) \in Nat /\ oTokenBalance[o][Settler] \in Nat
        /\ ClosedShorts(o, NoMM) \in Nat /\ LedgerTotal(o)' \in Nat
        /\ oTokenBalance'[o][Settler] \in Nat /\ ClosedShorts(o, NoMM)' \in Nat
    BY BookTypes, BookTypesNext
  <2> QED
    BY <2>1, <2>2
<1>7. SettlerKeepsNothing'
  BY DEF LedgerInv, SettlerKeepsNothing, SettlerKept
<1>8. PricedExpired' /\ SupplyIsWritten'
  BY <1>3, <1>4 DEF PricedExpired, SupplyIsWritten
<1>9. FillsAreHeld' /\ LedgerIsHeld'
  BY <1>5, <1>6 DEF FillsAreHeld, LedgerIsHeld
<1> QED
  BY <1>1, <1>7, <1>8, <1>9 DEF LedgerInv

LEMMA StutterIsStep ==
    ASSUME TypeOK, UNCHANGED vars
    PROVE  StepQuiet /\ SettlerKept
<1>1. now \in Nat /\ now' = now
  BY ControllerAssumption
  DEF TypeOK, ControllerTypeOK, vars, controllerVars
<1> QED
  BY <1>1 DEF StepQuiet, FillsKept, PoolKept, SettlerKept, vars, controllerVars, vaultVars,
              settlerVars, quoteVars, ledgerVars

LEMMA NextTakesStep == SettlerInv /\ [Next]_vars => Step /\ SettlerKept
<1> SUFFICES ASSUME SettlerInv, [Next]_vars PROVE Step /\ SettlerKept
  OBVIOUS
<1>1. TypeOK /\ \A u \in Users, id \in VaultIds : Covered(vaults[u][id])
  BY InvIsCovered DEF SettlerInv
<1> QED
  BY <1>1, NextIsStep, StutterIsStep DEF Step

LEMMA LedgerInvInductive == SettlerInv /\ LedgerInv /\ [Next]_vars => LedgerInv'
  BY InvInductive, NextTakesStep, StepLedgerInv DEF SettlerInv

LEMMA InitLedgerInv == Init => LedgerInv
<1> SUFFICES ASSUME Init PROVE LedgerInv
  OBVIOUS
<1>1. \A p \in AllVaults : /\ VaultAt(p) = EmptyVault
                           /\ IsSettled(p) = FALSE
  BY DEF Init, ControllerInit, AllVaults, VaultAt, IsSettled
<1>2. NoOToken \notin OTokens
  BY ControllerAssumption
<1>3. \A o \in OTokens : ~PriceIsSet(o)
  BY SeriesType DEF Init, ControllerInit, PriceIsSet, PriceOf
<1>4. ASSUME NEW o \in OTokens PROVE Supply(o) = 0
  <2>1. \A h \in OTokenHolders : oTokenBalance[o][h] = 0
    BY DEF Init, ControllerInit
  <2> QED
    BY <2>1, FiniteSets, SumOfZeros DEF Supply
<1>5. ASSUME NEW o \in OTokens PROVE OpenShorts(o) = 0
  <2> DEFINE f == [p \in AllVaults |-> OpenShort(p, o)]
  <2>1. \A p \in AllVaults : f[p] = 0
    BY <1>1, <1>2 DEF OpenShort, EmptyVault
  <2> HIDE DEF f
  <2>2. SumFunctionOnSet(f, AllVaults) = 0
    BY <2>1, FiniteSets, SumOfZeros
  <2> QED
    BY <2>2 DEF OpenShorts, f
<1>6. ASSUME NEW o \in OTokens, NEW m PROVE ClosedShorts(o, m) = 0
  <2> DEFINE f == [p \in AllVaults |-> ClosedShort(p, o, m)]
  <2>1. \A p \in AllVaults : f[p] = 0
    BY <1>1, <1>2 DEF ClosedShort, EmptyVault
  <2> HIDE DEF f
  <2>2. SumFunctionOnSet(f, AllVaults) = 0
    BY <2>1, FiniteSets, SumOfZeros
  <2> QED
    BY <2>2 DEF ClosedShorts, f
<1>7. ASSUME NEW o \in OTokens PROVE LedgerTotal(o) = 0
  <2> DEFINE f == [m \in MMs |-> mmOTokenBalance[m][o]]
  <2>1. \A m \in MMs : f[m] = 0
    BY DEF Init
  <2> HIDE DEF f
  <2>2. IsFiniteSet(MMs)
    BY FiniteSets
  <2>3. SumFunctionOnSet(f, MMs) = 0
    BY <2>1, <2>2, SumOfZeros
  <2> QED
    BY <2>3 DEF LedgerTotal, f
<1>8. ASSUME NEW m, NEW o PROVE Fills(m, o) = 0
  <2> DEFINE f == [q \in Quotes |-> quoteState[q].filled]
             R == {q \in Quotes : q.mm = m /\ q.oToken = o}
  <2>1. \A q \in R : f[q] = 0
    BY DEF Init
  <2>2. IsFiniteSet(R)
    BY FiniteSets
  <2> HIDE DEF f, R
  <2>3. SumFunctionOnSet(f, R) = 0
    BY <2>1, <2>2, SumOfZeros
  <2> QED
    BY <2>3 DEF Fills, f, R
<1>9. UnwrittenIsZero
  BY <1>1 DEF UnwrittenIsZero, EmptyVault
<1>10. PricedExpired
  BY <1>3 DEF PricedExpired
<1>11. SupplyIsWritten
  BY <1>4, <1>5 DEF SupplyIsWritten
<1>12. FillsAreHeld
  BY <1>6, <1>8 DEF FillsAreHeld, Init
<1>13. LedgerIsHeld
  <2>1. \A o \in OTokens : oTokenBalance[o][Settler] = 0
    BY DEF Init, ControllerInit, OTokenHolders
  <2>2. \A o \in OTokens : LedgerTotal(o) = 0 /\ ClosedShorts(o, NoMM) = 0
    BY <1>6, <1>7, Zenon
  <2>3. ASSUME NEW o \in OTokens
        PROVE  LedgerTotal(o) <= oTokenBalance[o][Settler] + ClosedShorts(o, NoMM)
    <3> DEFINE b == oTokenBalance[o][Settler]
               c == ClosedShorts(o, NoMM)
    <3>1. LedgerTotal(o) = 0 /\ b = 0 /\ c = 0
      BY <2>1, <2>2
    <3> HIDE DEF b, c
    <3>2. b + c = 0
      BY <3>1
    <3> QED
      BY <3>1, <3>2 DEF b, c
  <2> QED
    BY <2>3 DEF LedgerIsHeld
<1>14. SettlerKeepsNothing
  BY ControllerAssumption DEF SettlerKeepsNothing, Init, ControllerInit, Accounts
<1> QED
  BY <1>9, <1>10, <1>11, <1>12, <1>13, <1>14 DEF LedgerInv

(* The books agree in every reachable state, past expiry too: supply with   *)
(* open vaults, ledger with fills, custody with ledger (Controller,         *)
(* BatchSettler).                                                           *)
THEOREM LedgerInvariantHolds == Spec => [](SettlerInv /\ LedgerInv)
<1>1. Init => SettlerInv /\ LedgerInv
  BY InitInv, InitLedgerInv
<1>2. SettlerInv /\ LedgerInv /\ [Next]_vars => (SettlerInv /\ LedgerInv)'
  BY InvInductive, LedgerInvInductive
<1> QED
  BY <1>1, <1>2, PTL DEF Spec

(* In every reachable state, while an option has not expired the oTokens in *)
(* existence are exactly what the open vaults have written of it, whichever *)
(* accounts hold them (Controller.mintOtoken, BatchSettler.executeOrder and *)
(* the burn of emergencyWithdrawVault).                                     *)
THEOREM SupplyConserved == Spec => []SupplyMatchesVaults
<1>1. SettlerInv /\ LedgerInv => SupplyMatchesVaults
  <2> SUFFICES ASSUME SettlerInv, LedgerInv, NEW o \in OTokens, ~Expired(o)
               PROVE  Supply(o) = ShortTotal({p \in VaultsWriting(o) : ~IsSettled(p)})
    BY DEF SupplyMatchesVaults
  <2>1. Supply(o) = OpenShorts(o)
    BY DEF LedgerInv, PricedExpired, SupplyIsWritten
  <2>2. ShortTotal({p \in VaultsWriting(o) : ~IsSettled(p)}) = OpenShorts(o)
    BY ShortSums DEF SettlerInv
  <2> QED
    BY <2>1, <2>2
<1> QED
  BY <1>1, LedgerInvariantHolds, PTL

(* Until an option expires a market maker's ledger holds what its quotes    *)
(* filled, less exactly what was burned for its withdrawn vaults, for any   *)
(* number of market makers, quotes and withdrawals.                         *)
THEOREM LedgerConserved == Spec => []LedgerMatchesFills
<1>1. SettlerInv /\ LedgerInv => LedgerMatchesFills
  <2> SUFFICES ASSUME SettlerInv, LedgerInv, NEW m \in MMs, NEW o \in OTokens, ~Expired(o)
               PROVE  Fills(m, o) = mmOTokenBalance[m][o]
                          + ShortTotal({p \in VaultsWriting(o) : IsSettled(p) /\ MakerOf(p) = m})
    BY DEF LedgerMatchesFills
  <2>1. Fills(m, o) = mmOTokenBalance[m][o] + ClosedShorts(o, m)
    BY DEF LedgerInv, PricedExpired, FillsAreHeld
  <2>2. ShortTotal({p \in VaultsWriting(o) : IsSettled(p) /\ MakerOf(p) = m})
            = ClosedShorts(o, m)
    BY ShortSums DEF SettlerInv
  <2> QED
    BY <2>1, <2>2
<1> QED
  BY <1>1, LedgerInvariantHolds, PTL

(* The settler can always hand out what its ledger promises, up to what was *)
(* burned for vaults that no market maker is attributed to.                 *)
THEOREM CustodyHeld == Spec => []LedgerCustody
<1>1. SettlerInv /\ LedgerInv => LedgerCustody
  <2> SUFFICES ASSUME SettlerInv, LedgerInv, NEW o \in OTokens
               PROVE  LedgerTotal(o) <= oTokenBalance[o][Settler]
                          + ShortTotal({p \in VaultsWriting(o) :
                                            IsSettled(p) /\ MakerOf(p) = NoMM})
    BY DEF LedgerCustody
  <2>1. LedgerTotal(o) <= oTokenBalance[o][Settler] + ClosedShorts(o, NoMM)
    BY DEF LedgerInv, LedgerIsHeld
  <2>2. ShortTotal({p \in VaultsWriting(o) : IsSettled(p) /\ MakerOf(p) = NoMM})
            = ClosedShorts(o, NoMM)
    BY ShortSums DEF SettlerInv
  <2> QED
    BY <2>1, <2>2
<1> QED
  BY <1>1, LedgerInvariantHolds, PTL

(* No transaction leaves an ERC-20 token with the settler: what it is paid  *)
(* or lent leaves it in the same call, for any fee, swap cost and payout.   *)
THEOREM SettlerIsEmpty == Spec => []SettlerKeepsNothing
<1>1. SettlerInv /\ LedgerInv => SettlerKeepsNothing
  BY DEF LedgerInv
<1> QED
  BY <1>1, LedgerInvariantHolds, PTL

-----------------------------------------------------------------------------
(* What a pause forbids.                                                    *)

LEMMA PoolTypes ==
    ASSUME TypeOK
    PROVE  /\ \A a \in Assets : tokenBalance[a][Pool] \in Nat
           /\ \A o \in OTokens, n \in Nat : PayoutOf(o, n) \in Nat
           /\ \A p \in AllVaults : VaultAt(p).shortOtoken # NoOToken
                                       => CollateralToReturn(VaultAt(p)) \in Nat
<1>1. \A a \in Assets : tokenBalance[a][Pool] \in Nat
  BY DEF TypeOK, ControllerTypeOK, Accounts
<1>2. \A o \in OTokens, n \in Nat : PayoutOf(o, n) \in Nat
  BY PayoutType
<1>3. ASSUME NEW p \in AllVaults, VaultAt(p).shortOtoken # NoOToken
      PROVE  CollateralToReturn(VaultAt(p)) \in Nat
  <2>1. VaultAt(p).shortOtoken \in OTokens /\ VaultAt(p).shortAmount \in Nat
        /\ VaultAt(p).collateralAmount \in Nat
    BY <1>3, VaultTypes
  <2> QED
    BY <1>2, <2>1 DEF CollateralToReturn
<1> QED
  BY <1>1, <1>2, <1>3

LEMMA PartialPauseStep ==
    ASSUME TypeOK, TypeOK', Step, systemPartiallyPaused
    PROVE  /\ \A o \in OTokens : Supply(o)' <= Supply(o)
           /\ \A a \in Assets : tokenBalance'[a][Pool] <= tokenBalance[a][Pool]
           /\ \A q \in Quotes : quoteState'[q].filled = quoteState[q].filled
<1> DEFINE Goal == /\ \A o \in OTokens : Supply(o)' <= Supply(o)
                   /\ \A a \in Assets : tokenBalance'[a][Pool] <= tokenBalance[a][Pool]
                   /\ \A q \in Quotes : quoteState'[q].filled = quoteState[q].filled
<1>0. /\ \A o \in OTokens : Supply(o) \in Nat
      /\ \A a \in Assets : tokenBalance[a][Pool] \in Nat
  BY BookTypes, PoolTypes
<1>1. ASSUME FillsKept, PoolKept, \A o \in OTokens : Supply(o)' = Supply(o)
      PROVE  Goal
  BY <1>0, <1>1 DEF FillsKept, PoolKept
<1>2. ASSUME NEW a, NEW k \in Nat, PoolGains(a, 0 - k), FillsKept,
             \A o \in OTokens : Supply(o)' <= Supply(o)
      PROVE  Goal
  <2>1. \A b \in Assets : tokenBalance'[b][Pool] <= tokenBalance[b][Pool]
    BY <1>0, <1>2 DEF PoolGains, Only
  <2> QED
    BY <1>2, <2>1 DEF FillsKept
<1>3. ASSUME NEW o \in OTokens, NEW h \in OTokenHolders, NEW n \in Nat,
             HolderGains(o, h, 0 - n)
      PROVE  \A x \in OTokens : Supply(x)' <= Supply(x)
  <2>1. \A x \in OTokens : Supply(x)' = Supply(x) + Only(x = o, 0 - n)
    BY <1>3, SupplyGains
  <2> QED
    BY <1>0, <2>1 DEF Only
<1>4. UNCHANGED oTokenBalance => \A o \in OTokens : Supply(o)' = Supply(o) /\ Supply(o)' <= Supply(o)
  BY <1>0, HeldSame
<1>5. CASE StepQuiet \/ StepPrice
  BY <1>1, <1>4, <1>5 DEF StepQuiet, StepPrice
<1>6. ASSUME NEW o \in OTokens, NEW from \in Users, NEW to \in OTokenHolders, NEW n \in Nat,
             StepTransfer(o, from, to, n)
      PROVE  Goal
  <2>1. \A x \in OTokens : Supply(x)' = Supply(x)
    BY <1>6, SupplyTransferred DEF StepTransfer, OTokenHolders
  <2> QED
    BY <1>1, <1>6, <2>1 DEF StepTransfer
<1>7. ASSUME NEW o \in OTokens, NEW h \in OTokenHolders, NEW n \in Nat, StepRedeem(o, n, h)
      PROVE  Goal
  <2>1. PayoutOf(o, n) \in Nat
    BY PoolTypes
  <2>2. \A x \in OTokens : Supply(x)' <= Supply(x)
    BY <1>3, <1>7 DEF StepRedeem
  <2> QED
    BY <1>2, <1>7, <2>1, <2>2 DEF StepRedeem
<1>8. ASSUME NEW p \in AllVaults, StepSettle(p)
      PROVE  Goal
  <2>1. CollateralToReturn(VaultAt(p)) \in Nat
    BY <1>8, PoolTypes DEF StepSettle
  <2> QED
    BY <1>2, <1>4, <1>8, <2>1 DEF StepSettle
<1>9. ASSUME NEW p \in AllVaults, StepWithdraw(p)
      PROVE  Goal
  <2> DEFINE v == VaultAt(p)
  <2>1. /\ v.collateralAmount \in Nat /\ v.shortAmount \in Nat
        /\ v.shortOtoken \in OTokens \cup {NoOToken} /\ Settler \in OTokenHolders
    BY VaultTypes DEF OTokenHolders
  <2>2. \/ UNCHANGED oTokenBalance
        \/ v.shortOtoken # NoOToken /\ HolderGains(v.shortOtoken, Settler, 0 - v.shortAmount)
    BY <1>9 DEF StepWithdraw
  <2>3. PoolGains(v.collateralAsset, 0 - v.collateralAmount) /\ FillsKept
    BY <1>9 DEF StepWithdraw
  <2> HIDE DEF v
  <2>4. \A x \in OTokens : Supply(x)' <= Supply(x)
    BY <1>3, <1>4, <2>1, <2>2
  <2> QED
    BY <1>2, <2>1, <2>3, <2>4
<1>10. CASE \/ \E o \in OTokens, n \in Nat, h \in Users : StepRedeem(o, n, h)
            \/ \E o \in OTokens, n \in Nat : StepRedeem(o, n, Settler)
  BY <1>7, <1>10 DEF OTokenHolders
<1> QED
  BY <1>5, <1>6, <1>8, <1>9, <1>10
  DEF Step, StepDeposit, StepMint, StepOrder, NotPaused

LEMMA FullPauseStep ==
    ASSUME TypeOK, TypeOK', Step, systemFullyPaused, NEW a \in Assets
    PROVE  tokenBalance[a][Pool] - tokenBalance'[a][Pool] =
               SumFunctionOnSet([p \in AllVaults |-> VaultAt(p).collateralAmount],
                   {p \in AllVaults : /\ IsSettled(p)' /\ ~IsSettled(p)
                                      /\ VaultAt(p).collateralAsset = a})
<1> DEFINE f == [p \in AllVaults |-> VaultAt(p).collateralAmount]
           R == {p \in AllVaults : /\ IsSettled(p)' /\ ~IsSettled(p)
                                   /\ VaultAt(p).collateralAsset = a}
<1>0. tokenBalance[a][Pool] \in Nat
  BY PoolTypes
<1>1. ASSUME PoolKept, UNCHANGED vaultSettled
      PROVE  tokenBalance[a][Pool] - tokenBalance'[a][Pool] = SumFunctionOnSet(f, R)
  <2>1. R = {}
    BY <1>1 DEF IsSettled
  <2>2. SumFunctionOnSet(f, R) = 0
    BY <2>1, SumEmpty
  <2> QED
    BY <1>0, <1>1, <2>2 DEF PoolKept
<1>2. ASSUME NEW p \in AllVaults, StepWithdraw(p)
      PROVE  tokenBalance[a][Pool] - tokenBalance'[a][Pool] = SumFunctionOnSet(f, R)
  <2> DEFINE v == VaultAt(p)
  <2>1. /\ tokenBalance'[a][Pool] =
               tokenBalance[a][Pool] + Only(a = v.collateralAsset, 0 - v.collateralAmount)
        /\ Closes(p)
    BY <1>2 DEF StepWithdraw, PoolGains
  <2>2. v.collateralAmount \in Nat /\ f[p] = v.collateralAmount
    BY VaultTypes
  <2>3. R = IF v.collateralAsset = a THEN {p} ELSE {}
    BY <2>1 DEF Closes
  <2> HIDE DEF v, f, R
  <2>4. SumFunctionOnSet(f, {}) = 0
    BY SumEmpty
  <2>5. SumFunctionOnSet(f, {p}) = f[p] + SumFunctionOnSet(f, {})
    <3>1. {p} \ {p} = {} /\ IsFiniteSet({p}) /\ \A x \in {p} : f[x] \in Int
      BY <2>2, FS_Singleton
    <3> QED
      BY <3>1, SumTake
  <2> QED
    BY <1>0, <2>1, <2>2, <2>3, <2>4, <2>5 DEF Only
<1>3. (PoolKept /\ UNCHANGED vaultSettled) \/ \E p \in AllVaults : StepWithdraw(p)
  BY DEF Step, StepQuiet, StepPrice, StepDeposit, StepMint, StepOrder, StepTransfer,
         StepRedeem, StepSettle, NotPaused
<1> QED
  BY <1>1, <1>2, <1>3

(* While the system is partially paused no transaction, of any caller,      *)
(* creates oTokens, pays into the pool or fills a quote (notPartiallyPaused *)
(* in Controller).                                                          *)
THEOREM PartialPauseHolds == Spec => PartialPauseBlocksGrowth
<1>1. SettlerInv /\ [Next]_vars =>
          [systemPartiallyPaused =>
               /\ \A o \in OTokens : Supply(o)' <= Supply(o)
               /\ \A a \in Assets : tokenBalance'[a][Pool] <= tokenBalance[a][Pool]
               /\ \A q \in Quotes : quoteState'[q].filled = quoteState[q].filled]_vars
  BY InvInductive, NextTakesStep, PartialPauseStep DEF SettlerInv
<1> QED
  BY <1>1, InvariantHolds, PTL DEF Spec, PartialPauseBlocksGrowth

(* While the system is fully paused the pool pays exactly the collateral of *)
(* the vaults that are withdrawn, and nothing else moves it (notFullyPaused *)
(* and emergencyWithdrawVault in Controller).                               *)
THEOREM FullPauseHolds == Spec => FullPauseOnlyWithdraws
<1>1. SettlerInv /\ [Next]_vars =>
          [systemFullyPaused =>
              \A a \in Assets :
                 tokenBalance[a][Pool] - tokenBalance'[a][Pool] =
                   SumFunctionOnSet([p \in AllVaults |-> VaultAt(p).collateralAmount],
                       {p \in AllVaults : /\ IsSettled(p)' /\ ~IsSettled(p)
                                          /\ VaultAt(p).collateralAsset = a})]_vars
  BY InvInductive, NextTakesStep, FullPauseStep DEF SettlerInv
<1> QED
  BY <1>1, InvariantHolds, PTL DEF Spec, FullPauseOnlyWithdraws

-----------------------------------------------------------------------------
(* Solvency.  The liabilities of the pool in one asset, taken over every    *)
(* vault and every option; the allowance for rounding counts only options   *)
(* that are priced, since only then it is final.                            *)

VaultDebt(p, a) ==
    IF ~IsSettled(p) /\ VaultAt(p).collateralAsset = a THEN OwedToOwner(p) ELSE 0
VaultDebts(a) == SumFunctionOnSet([p \in AllVaults |-> VaultDebt(p, a)], AllVaults)

HolderDebt(o, a) == IF Series[o].collateralAsset = a THEN OwedToHolders(o) ELSE 0
HolderDebts(a) == SumFunctionOnSet([o \in OTokens |-> HolderDebt(o, a)], OTokens)

Loss(o, a) ==
    IF Series[o].collateralAsset = a /\ PriceIsSet(o) THEN RoundingLoss(o) ELSE 0
Losses(a) == SumFunctionOnSet([o \in OTokens |-> Loss(o, a)], OTokens)

DebtsBacked ==
    \A a \in Assets : VaultDebts(a) + HolderDebts(a) <= tokenBalance[a][Pool] + Losses(a)

(* The payout of an amount, at any price: nothing for nothing, and never    *)
(* more for the parts than for the whole.                                   *)
LEMMA PayoutParts ==
    ASSUME NEW o \in OTokens, NEW x \in Nat, NEW y \in Nat, NEW price \in Nat
    PROVE  /\ CalculatePayout(o, 0, price) = 0
           /\ CalculatePayout(o, x, price) + CalculatePayout(o, y, price)
                  <= CalculatePayout(o, x + y, price)
<1> DEFINE a == Series[o].collateralAsset
           k == Series[o].strikePrice
           d == PutDivisor[a]
           c == CallUnit[a]
<1>1. k \in Nat /\ d \in Nat \ {0} /\ c \in Nat
  BY SeriesType, UnitsAssumption
<1>2. /\ \A n : StrikeValue(o, n, a) = (n * k) \div d
      /\ \A n : FullAmount(o, n) = IF Series[o].isPut THEN (n * k) \div d ELSE n * c
  BY DEF StrikeValue, FullAmount
<1> HIDE DEF a, k, d, c
<1>3. 0 * k = 0 /\ 0 \div d = 0 /\ 0 * c = 0
  BY <1>1
<1>4. FullAmount(o, 0) = 0
  BY <1>2, <1>3
<1>5. FullAmount(o, x) + FullAmount(o, y) <= FullAmount(o, x + y)
  <2>1. CASE Series[o].isPut
    <3>1. x * k \in Nat /\ y * k \in Nat /\ x * k + y * k = (x + y) * k
      BY <1>1
    <3>2. ((x * k) \div d) + ((y * k) \div d) <= (x * k + y * k) \div d
      BY <1>1, <3>1, DivSuperadditive
    <3> QED
      BY <1>2, <2>1, <3>1, <3>2
  <2>2. CASE ~Series[o].isPut
    <3>1. x * c + y * c = (x + y) * c /\ (x + y) * c \in Nat
      BY <1>1
    <3> QED
      BY <1>2, <2>2, <3>1
  <2> QED
    BY <2>1, <2>2
<1> QED
  BY <1>4, <1>5 DEF CalculatePayout

LEMMA RoundingTypes ==
    TypeOK => \A o \in OTokens : RoundingLoss(o) \in Nat
<1> SUFFICES ASSUME TypeOK, NEW o \in OTokens PROVE RoundingLoss(o) \in Nat
  OBVIOUS
<1> DEFINE R == {p \in VaultsWriting(o) : Inexact(p)}
<1>1. IsFiniteSet(R)
  BY FiniteSets, FS_Subset DEF VaultsWriting
<1> HIDE DEF R
<1>2. Cardinality(R) \in Nat
  BY <1>1, FS_CardinalityType
<1> QED
  BY <1>2 DEF RoundingLoss, R

(* What the vaults pay together for an option, each floored, and what its   *)
(* whole supply would be paid, floored once.                                *)
LEMMA PayoutOfShorts ==
    ASSUME TypeOK, NEW o \in OTokens, NEW price \in Nat
    PROVE  CalculatePayout(o, OpenShorts(o), price) <=
               SumFunctionOnSet([p \in AllVaults |-> CalculatePayout(o, OpenShort(p, o), price)],
                                AllVaults)
               + RoundingLoss(o)
<1> DEFINE a == Series[o].collateralAsset
           k == Series[o].strikePrice
           d == PutDivisor[a]
           c == CallUnit[a]
           f == [p \in AllVaults |-> OpenShort(p, o)]
           q == [p \in AllVaults |-> CalculatePayout(o, OpenShort(p, o), price)]
<1>1. k \in Nat /\ d \in Nat \ {0} /\ c \in Nat
  BY SeriesType, UnitsAssumption
<1>2. \A n : FullAmount(o, n) = IF Series[o].isPut THEN (n * k) \div d ELSE n * c
  BY DEF StrikeValue, FullAmount
<1>3. \A p \in AllVaults : f[p] \in Nat /\ q[p] = CalculatePayout(o, f[p], price)
  BY ShortTypes
<1>4. OpenShorts(o) = SumFunctionOnSet(f, AllVaults) /\ OpenShorts(o) \in Nat
  BY ShortSums DEF OpenShorts
<1>5. IsFiniteSet(AllVaults) /\ RoundingLoss(o) \in Nat
  BY FiniteSets, RoundingTypes
<1>6. \A p \in AllVaults : f[p] # 0 => p \in VaultsWriting(o) /\ f[p] = VaultAt(p).shortAmount
  BY DEF OpenShort, VaultsWriting
<1> SUFFICES CalculatePayout(o, SumFunctionOnSet(f, AllVaults), price)
                 <= SumFunctionOnSet(q, AllVaults) + RoundingLoss(o)
  BY <1>4
<1> HIDE DEF f, q
<1>7. CASE ~InTheMoney(o, price)
  <2>1. \A p \in AllVaults : q[p] = 0
    BY <1>3, <1>7 DEF CalculatePayout
  <2>2. SumFunctionOnSet(q, AllVaults) = 0
    BY <1>5, <2>1, SumOfZeros
  <2>3. CalculatePayout(o, SumFunctionOnSet(f, AllVaults), price) = 0
    BY <1>7 DEF CalculatePayout
  <2> QED
    BY <1>5, <2>2, <2>3
<1>8. CASE InTheMoney(o, price) /\ Series[o].isPut
  <2> DEFINE R == {p \in AllVaults : (f[p] * k) % d # 0}
             n == Cardinality(R)
             W == {p \in VaultsWriting(o) : Inexact(p)}
  <2> HIDE DEF a, k, d, c
  <2>1. \A p \in AllVaults : f[p] \in Nat /\ q[p] = (f[p] * k) \div d
    BY <1>2, <1>3, <1>8 DEF CalculatePayout
  <2>2. (SumFunctionOnSet(f, AllVaults) * k) \div d
            <= SumFunctionOnSet(q, AllVaults) + (IF n = 0 THEN 0 ELSE n - 1)
    BY <1>1, <1>5, <2>1, FloorOfSum
  <2>3. R \subseteq W
    <3> SUFFICES ASSUME NEW p \in AllVaults, (f[p] * k) % d # 0 PROVE p \in W
      OBVIOUS
    <3>1. f[p] # 0
      <4>1. 0 * k = 0 /\ 0 % d = 0
        BY <1>1
      <4> QED
        BY <4>1
    <3>2. p \in VaultsWriting(o) /\ f[p] = VaultAt(p).shortAmount
          /\ VaultAt(p).shortOtoken = o
      BY <1>6, <3>1 DEF VaultsWriting
    <3> QED
      BY <1>8, <3>2 DEF Inexact, a, k, d
  <2>4. IsFiniteSet(W)
    BY <1>5, FS_Subset DEF VaultsWriting
  <2>5. n <= Cardinality(W) /\ n \in Nat /\ Cardinality(W) \in Nat
    <3> HIDE DEF R, W
    <3> QED
      BY <2>3, <2>4, FS_Subset, FS_CardinalityType DEF n
  <2>6. (IF n = 0 THEN 0 ELSE n - 1) <= RoundingLoss(o)
    <3> HIDE DEF n
    <3> QED
      BY <2>5 DEF RoundingLoss, W
  <2>7. SumFunctionOnSet(q, AllVaults) \in Nat
    <3>1. \A p \in AllVaults : q[p] \in Nat
      BY <1>3, PayoutWithinCollateral
    <3> QED
      BY <1>5, <3>1, SumNat
  <2>8. CalculatePayout(o, SumFunctionOnSet(f, AllVaults), price)
            = (SumFunctionOnSet(f, AllVaults) * k) \div d
    BY <1>2, <1>8 DEF CalculatePayout
  <2>9. CalculatePayout(o, SumFunctionOnSet(f, AllVaults), price) \in Nat
    BY <1>4, PayoutWithinCollateral
  <2> HIDE DEF n, R, W
  <2> QED
    BY <1>5, <2>2, <2>5, <2>6, <2>7, <2>8, <2>9
<1>9. CASE InTheMoney(o, price) /\ ~Series[o].isPut
  <2> HIDE DEF a, k, d, c
  <2>1. \A p \in AllVaults : f[p] \in Int /\ q[p] = c * f[p]
    <3>1. \A p \in AllVaults : f[p] \in Nat /\ q[p] = f[p] * c
      BY <1>2, <1>3, <1>9 DEF CalculatePayout
    <3> QED
      BY <1>1, <3>1
  <2>2. SumFunctionOnSet(q, AllVaults) = c * SumFunctionOnSet(f, AllVaults)
    BY <1>1, <1>5, <2>1, SumScaled
  <2>3. CalculatePayout(o, SumFunctionOnSet(f, AllVaults), price)
            = SumFunctionOnSet(f, AllVaults) * c
    BY <1>2, <1>9 DEF CalculatePayout
  <2>4. SumFunctionOnSet(f, AllVaults) * c = c * SumFunctionOnSet(f, AllVaults)
        /\ c * SumFunctionOnSet(f, AllVaults) \in Nat
    BY <1>1, <1>4
  <2> QED
    BY <1>5, <2>2, <2>3, <2>4
<1> QED
  BY <1>7, <1>8, <1>9

LEMMA DebtTypes ==
    TypeOK => /\ \A p \in AllVaults, a \in Assets : VaultDebt(p, a) \in Nat
              /\ \A o \in OTokens, a \in Assets : HolderDebt(o, a) \in Nat
              /\ \A o \in OTokens, a \in Assets : Loss(o, a) \in Nat
<1> SUFFICES ASSUME TypeOK
             PROVE  /\ \A p \in AllVaults, a \in Assets : VaultDebt(p, a) \in Nat
                    /\ \A o \in OTokens, a \in Assets : HolderDebt(o, a) \in Nat
                    /\ \A o \in OTokens, a \in Assets : Loss(o, a) \in Nat
  OBVIOUS
<1>1. ASSUME NEW p \in AllVaults, NEW a \in Assets PROVE VaultDebt(p, a) \in Nat
  BY VaultTypes, PoolTypes DEF VaultDebt, OwedToOwner
<1>2. ASSUME NEW o \in OTokens, NEW a \in Assets PROVE HolderDebt(o, a) \in Nat
  BY BookTypes, PoolTypes DEF HolderDebt, OwedToHolders
<1>3. ASSUME NEW o \in OTokens, NEW a \in Assets PROVE Loss(o, a) \in Nat
  BY RoundingTypes DEF Loss
<1> QED
  BY <1>1, <1>2, <1>3

LEMMA DebtTypesNext ==
    TypeOK' => /\ \A p \in AllVaults, a \in Assets : VaultDebt(p, a)' \in Nat
               /\ \A o \in OTokens, a \in Assets : HolderDebt(o, a)' \in Nat
               /\ \A o \in OTokens, a \in Assets : Loss(o, a)' \in Nat
<1>1. (TypeOK => /\ \A p \in AllVaults, a \in Assets : VaultDebt(p, a) \in Nat
                 /\ \A o \in OTokens, a \in Assets : HolderDebt(o, a) \in Nat
                 /\ \A o \in OTokens, a \in Assets : Loss(o, a) \in Nat)'
  BY DebtTypes, PTL
<1> QED
  BY <1>1

LEMMA DebtSums ==
    TypeOK => \A a \in Assets : /\ VaultDebts(a) \in Nat /\ HolderDebts(a) \in Nat
                                /\ Losses(a) \in Nat /\ tokenBalance[a][Pool] \in Nat
<1> SUFFICES ASSUME TypeOK, NEW a \in Assets
             PROVE  /\ VaultDebts(a) \in Nat /\ HolderDebts(a) \in Nat
                    /\ Losses(a) \in Nat /\ tokenBalance[a][Pool] \in Nat
  OBVIOUS
<1> DEFINE f == [p \in AllVaults |-> VaultDebt(p, a)]
           g == [o \in OTokens |-> HolderDebt(o, a)]
           h == [o \in OTokens |-> Loss(o, a)]
<1>1. /\ \A p \in AllVaults : f[p] \in Nat
      /\ \A o \in OTokens : g[o] \in Nat
      /\ \A o \in OTokens : h[o] \in Nat
  BY DebtTypes
<1> HIDE DEF f, g, h
<1>2. IsFiniteSet(AllVaults) /\ IsFiniteSet(OTokens)
  BY FiniteSets, FiniteAssumption
<1>3. /\ SumFunctionOnSet(f, AllVaults) \in Nat
      /\ SumFunctionOnSet(g, OTokens) \in Nat
      /\ SumFunctionOnSet(h, OTokens) \in Nat
  BY <1>1, <1>2, SumNat
<1> QED
  BY <1>3, PoolTypes DEF VaultDebts, HolderDebts, Losses, f, g, h

LEMMA DebtSumsNext ==
    TypeOK' => \A a \in Assets : /\ VaultDebts(a)' \in Nat /\ HolderDebts(a)' \in Nat
                                 /\ Losses(a)' \in Nat /\ tokenBalance'[a][Pool] \in Nat
<1>1. (TypeOK => \A a \in Assets : /\ VaultDebts(a) \in Nat /\ HolderDebts(a) \in Nat
                                   /\ Losses(a) \in Nat /\ tokenBalance[a][Pool] \in Nat)'
  BY DebtSums, PTL
<1> QED
  BY <1>1

LEMMA VaultDebtsChange ==
    ASSUME TypeOK, TypeOK', NEW a \in Assets, NEW p \in AllVaults,
           \A r \in AllVaults : r # p => VaultDebt(r, a)' = VaultDebt(r, a)
    PROVE  VaultDebts(a)' = VaultDebts(a) + (VaultDebt(p, a)' - VaultDebt(p, a))
<1> DEFINE f == [r \in AllVaults |-> VaultDebt(r, a)]
           g == [r \in AllVaults |-> VaultDebt(r, a)']
<1>1. \A r \in AllVaults : VaultDebt(r, a) \in Nat /\ VaultDebt(r, a)' \in Nat
  BY DebtTypes, DebtTypesNext
<1>2. \A r \in AllVaults : f[r] \in Int /\ g[r] \in Int
  BY <1>1
<1>3. f[p] = VaultDebt(p, a) /\ g[p] = VaultDebt(p, a)'
  OBVIOUS
<1>8. \A r \in AllVaults : r # p => g[r] = f[r]
  OBVIOUS
<1> HIDE DEF f, g
<1>4. SumFunctionOnSet(g, AllVaults) = SumFunctionOnSet(f, AllVaults) + (g[p] - f[p])
  BY <1>2, <1>8, FiniteSets, SumUpdate
<1>5. VaultDebts(a)' = SumFunctionOnSet(g, AllVaults)
  BY DEF VaultDebts, g
<1>6. VaultDebts(a) = SumFunctionOnSet(f, AllVaults)
  BY DEF VaultDebts, f
<1> QED
  BY <1>3, <1>4, <1>5, <1>6

LEMMA HolderDebtsChange ==
    ASSUME TypeOK, TypeOK', NEW a \in Assets, NEW o \in OTokens,
           \A x \in OTokens : x # o => HolderDebt(x, a)' = HolderDebt(x, a)
    PROVE  HolderDebts(a)' = HolderDebts(a) + (HolderDebt(o, a)' - HolderDebt(o, a))
<1> DEFINE f == [x \in OTokens |-> HolderDebt(x, a)]
           g == [x \in OTokens |-> HolderDebt(x, a)']
<1>1. \A x \in OTokens : HolderDebt(x, a) \in Nat /\ HolderDebt(x, a)' \in Nat
  BY DebtTypes, DebtTypesNext
<1>2. \A x \in OTokens : f[x] \in Int /\ g[x] \in Int
  BY <1>1
<1>3. f[o] = HolderDebt(o, a) /\ g[o] = HolderDebt(o, a)'
  OBVIOUS
<1>8. \A x \in OTokens : x # o => g[x] = f[x]
  OBVIOUS
<1>7. IsFiniteSet(OTokens)
  BY FiniteAssumption
<1> HIDE DEF f, g
<1>4. SumFunctionOnSet(g, OTokens) = SumFunctionOnSet(f, OTokens) + (g[o] - f[o])
  BY <1>2, <1>7, <1>8, SumUpdate
<1>5. HolderDebts(a)' = SumFunctionOnSet(g, OTokens)
  BY DEF HolderDebts, g
<1>6. HolderDebts(a) = SumFunctionOnSet(f, OTokens)
  BY DEF HolderDebts, f
<1> QED
  BY <1>3, <1>4, <1>5, <1>6

LEMMA DebtsSame ==
    ASSUME UNCHANGED expiryPrice
    PROVE  /\ UNCHANGED <<vaults, vaultSettled>> => \A a \in Assets : VaultDebts(a)' = VaultDebts(a)
           /\ UNCHANGED vaults => \A a \in Assets : Losses(a)' = Losses(a)
           /\ (\A o \in OTokens : PriceIsSet(o) => Supply(o)' = Supply(o))
                  => \A a \in Assets : HolderDebts(a)' = HolderDebts(a)
<1>0. \A o : PriceOf(o)' = PriceOf(o) /\ (PriceIsSet(o)' <=> PriceIsSet(o))
  BY DEF PriceOf, PriceIsSet
<1>1. ASSUME UNCHANGED <<vaults, vaultSettled>>, NEW a \in Assets
      PROVE  VaultDebts(a)' = VaultDebts(a)
  <2>1. \A p \in AllVaults : VaultAt(p)' = VaultAt(p) /\ IsSettled(p)' = IsSettled(p)
    BY <1>1 DEF VaultAt, IsSettled
  <2>2. \A p \in AllVaults : VaultDebt(p, a)' = VaultDebt(p, a)
    BY <1>0, <2>1 DEF VaultDebt, OwedToOwner, CollateralToReturn, PayoutOf
  <2> QED
    BY <2>2 DEF VaultDebts
<1>2. ASSUME UNCHANGED vaults, NEW a \in Assets
      PROVE  Losses(a)' = Losses(a)
  <2>1. \A o \in OTokens : RoundingLoss(o)' = RoundingLoss(o)
    BY <1>2 DEF RoundingLoss, VaultsWriting, Inexact, VaultAt
  <2>2. \A o \in OTokens : Loss(o, a)' = Loss(o, a)
    BY <1>0, <2>1 DEF Loss
  <2> QED
    BY <2>2 DEF Losses
<1>3. ASSUME \A o \in OTokens : PriceIsSet(o) => Supply(o)' = Supply(o), NEW a \in Assets
      PROVE  HolderDebts(a)' = HolderDebts(a)
  <2>1. \A o \in OTokens : HolderDebt(o, a)' = HolderDebt(o, a)
    BY <1>0, <1>3 DEF HolderDebt, OwedToHolders, PayoutOf
  <2> QED
    BY <2>1 DEF HolderDebts
<1> QED
  BY <1>1, <1>2, <1>3

(* A step that writes a vault keeps the rounding of the priced options: it  *)
(* can only write an option that has no price.                              *)
SameIfPriced(v, w) ==
    \A x \in OTokens : PriceIsSet(x) =>
        /\ w.shortOtoken = x <=> v.shortOtoken = x
        /\ v.shortOtoken = x => w.shortAmount = v.shortAmount

LEMMA LossesAfterWrite ==
    ASSUME NEW p \in AllVaults, NEW w, Writes(p, w), SameIfPriced(VaultAt(p), w),
           UNCHANGED expiryPrice, NEW a \in Assets
    PROVE  Losses(a)' = Losses(a)
<1>0. \A o : PriceOf(o)' = PriceOf(o) /\ (PriceIsSet(o)' <=> PriceIsSet(o))
  BY DEF PriceOf, PriceIsSet
<1>1. ASSUME NEW o \in OTokens, PriceIsSet(o)
      PROVE  RoundingLoss(o)' = RoundingLoss(o)
  <2>1. \A r \in AllVaults : /\ VaultAt(r)'.shortOtoken = o <=> VaultAt(r).shortOtoken = o
                             /\ VaultAt(r).shortOtoken = o =>
                                    VaultAt(r)'.shortAmount = VaultAt(r).shortAmount
    BY <1>1 DEF Writes, SameIfPriced
  <2>2. VaultsWriting(o)' = VaultsWriting(o)
    BY <2>1 DEF VaultsWriting
  <2>3. \A r \in VaultsWriting(o) : Inexact(r)' <=> Inexact(r)
    BY <2>1 DEF VaultsWriting, Inexact
  <2>4. {r \in VaultsWriting(o) : Inexact(r)}' = {r \in VaultsWriting(o) : Inexact(r)}
    BY <2>2, <2>3
  <2> QED
    BY <2>4 DEF RoundingLoss
<1>2. \A o \in OTokens : Loss(o, a)' = Loss(o, a)
  BY <1>0, <1>1 DEF Loss
<1> QED
  BY <1>2 DEF Losses

LEMMA VaultDebtAfterWrite ==
    ASSUME TypeOK, TypeOK', NEW p \in AllVaults, NEW w, Writes(p, w),
           UNCHANGED expiryPrice, NEW a \in Assets
    PROVE  VaultDebts(a)' = VaultDebts(a) + (VaultDebt(p, a)' - VaultDebt(p, a))
<1>0. \A o : PriceOf(o)' = PriceOf(o) /\ (PriceIsSet(o)' <=> PriceIsSet(o))
  BY DEF PriceOf, PriceIsSet
<1>1. \A r \in AllVaults : r # p => VaultAt(r)' = VaultAt(r) /\ IsSettled(r)' = IsSettled(r)
  BY DEF Writes, IsSettled
<1>2. \A r \in AllVaults : r # p => VaultDebt(r, a)' = VaultDebt(r, a)
  BY <1>0, <1>1 DEF VaultDebt, OwedToOwner, CollateralToReturn, PayoutOf
<1> QED
  BY <1>2, VaultDebtsChange

LEMMA VaultDebtAfterClose ==
    ASSUME TypeOK, TypeOK', NEW p \in AllVaults, Closes(p), UNCHANGED expiryPrice,
           NEW a \in Assets
    PROVE  VaultDebts(a)' =
               VaultDebts(a) - Only(a = VaultAt(p).collateralAsset, OwedToOwner(p))
<1>0. \A o : PriceOf(o)' = PriceOf(o) /\ (PriceIsSet(o)' <=> PriceIsSet(o))
  BY DEF PriceOf, PriceIsSet
<1>1. \A r \in AllVaults : /\ VaultAt(r)' = VaultAt(r)
                           /\ r # p => (IsSettled(r)' <=> IsSettled(r))
  BY DEF Closes, VaultAt
<1>2. \A r \in AllVaults : r # p => VaultDebt(r, a)' = VaultDebt(r, a)
  BY <1>0, <1>1 DEF VaultDebt, OwedToOwner, CollateralToReturn, PayoutOf
<1>3. VaultDebts(a)' = VaultDebts(a) + (VaultDebt(p, a)' - VaultDebt(p, a))
  BY <1>2, VaultDebtsChange
<1>4. /\ VaultDebt(p, a)' = 0
      /\ VaultDebt(p, a) = Only(a = VaultAt(p).collateralAsset, OwedToOwner(p))
  BY DEF Closes, VaultDebt, Only
<1>5. VaultDebt(p, a) \in Nat /\ VaultDebts(a) \in Nat
  BY DebtTypes, DebtSums
<1> QED
  BY <1>3, <1>4, <1>5

DebtKept(a) ==
    (VaultDebts(a)' + HolderDebts(a)') - (tokenBalance'[a][Pool] + Losses(a)')
        <= (VaultDebts(a) + HolderDebts(a)) - (tokenBalance[a][Pool] + Losses(a))

LEMMA StepQuietDebt ==
    ASSUME TypeOK, TypeOK', NEW a \in Assets,
           StepQuiet \/ \E o \in OTokens, from \in Users, to \in OTokenHolders, n \in Nat :
                            StepTransfer(o, from, to, n)
    PROVE  DebtKept(a)
<1>1. UNCHANGED <<vaults, vaultSettled>> /\ UNCHANGED vaults /\ UNCHANGED expiryPrice /\ PoolKept
  BY DEF StepQuiet, StepTransfer
<1>2. \A o \in OTokens : Supply(o)' = Supply(o)
  <2>1. CASE StepQuiet
    BY <2>1, HeldSame DEF StepQuiet
  <2>2. ASSUME NEW o \in OTokens, NEW from \in Users, NEW to \in OTokenHolders, NEW n \in Nat,
               StepTransfer(o, from, to, n)
        PROVE  \A x \in OTokens : Supply(x)' = Supply(x)
    BY <2>2, SupplyTransferred DEF StepTransfer, OTokenHolders
  <2> QED
    BY <2>1, <2>2
<1>3. /\ VaultDebts(a)' = VaultDebts(a) /\ HolderDebts(a)' = HolderDebts(a)
      /\ Losses(a)' = Losses(a) /\ tokenBalance'[a][Pool] = tokenBalance[a][Pool]
  BY <1>1, <1>2, DebtsSame DEF PoolKept
<1>4. /\ VaultDebts(a) \in Nat /\ HolderDebts(a) \in Nat
      /\ Losses(a) \in Nat /\ tokenBalance[a][Pool] \in Nat
  BY DebtSums
<1> QED
  BY <1>3, <1>4 DEF DebtKept

(* Depositing raises what the owner is owed by no more than is deposited.   *)
LEMMA DepositedDebt ==
    ASSUME TypeOK, FundedVaults, NEW p \in AllVaults, NEW a \in Assets, NEW d \in Nat,
           DepositAllowed(VaultAt(p), a), NEW v,
           v.collateralAsset = a, v.collateralAmount = VaultAt(p).collateralAmount + d,
           UNCHANGED expiryPrice, ~IsSettled(p), ~IsSettled(p)', VaultAt(p)' = v,
           \/ v.shortOtoken = VaultAt(p).shortOtoken /\ v.shortAmount = VaultAt(p).shortAmount
           \/ v.shortOtoken # NoOToken /\ ~PriceIsSet(v.shortOtoken)
              /\ VaultAt(p).shortOtoken \in {NoOToken, v.shortOtoken},
           VaultsCovered, NEW b \in Assets, VaultDebt(p, b)' \in Nat
    PROVE  VaultDebt(p, b)' <= VaultDebt(p, b) + Only(b = a, d)
<1> DEFINE u == VaultAt(p)
           o == u.shortOtoken
<1>0. \A x : PriceOf(x)' = PriceOf(x) /\ (PriceIsSet(x)' <=> PriceIsSet(x))
  BY DEF PriceOf, PriceIsSet
<1>1. /\ u.collateralAmount \in Nat /\ u.shortAmount \in Nat /\ o \in OTokens \cup {NoOToken}
      /\ u.collateralAsset \in {NoAsset, a} /\ NoAsset \notin Assets
      /\ u.collateralAsset = NoAsset => u.collateralAmount = 0 /\ o = NoOToken
  <2>1. NoAsset \notin Assets
    BY ControllerAssumption
  <2>2. u.collateralAmount \in Nat /\ u.shortAmount \in Nat /\ o \in OTokens \cup {NoOToken}
    BY VaultTypes
  <2>3. u.collateralAsset = NoAsset => u.collateralAmount = 0 /\ o = NoOToken
    BY <2>1, <2>2, SeriesType DEF FundedVaults, VaultsCovered
  <2> QED
    BY <2>1, <2>2, <2>3 DEF DepositAllowed
<1>2. CASE b # a
  <2>1. VaultDebt(p, b)' = 0 /\ VaultDebt(p, b) = 0
    BY <1>1, <1>2 DEF VaultDebt
  <2> QED
    BY <1>2, <2>1 DEF Only
<1>3. CASE b = a /\ u.collateralAsset = a
  <2>1. VaultDebt(p, b)' = OwedToOwner(p)' /\ VaultDebt(p, b) = OwedToOwner(p)
    BY <1>3 DEF VaultDebt
  <2>2. CASE o # NoOToken /\ PriceIsSet(o)
    <3>1. v.shortOtoken = o /\ v.shortAmount = u.shortAmount
      BY <2>2
    <3>2. PayoutOf(o, u.shortAmount) \in Nat /\ PayoutOf(o, u.shortAmount)' = PayoutOf(o, u.shortAmount)
      BY <1>0, <1>1, <2>2, PoolTypes DEF PayoutOf
    <3>3. OwedToOwner(p) = CollateralToReturn(u)
      BY <2>2 DEF OwedToOwner
    <3>4. OwedToOwner(p)' = IF PayoutOf(o, u.shortAmount) >= v.collateralAmount THEN 0
                            ELSE v.collateralAmount - PayoutOf(o, u.shortAmount)
      BY <1>0, <2>2, <3>1 DEF OwedToOwner, CollateralToReturn, PayoutOf
    <3> QED
      BY <1>1, <1>3, <2>1, <3>2, <3>3, <3>4 DEF CollateralToReturn, Only
  <2>3. CASE o = NoOToken \/ ~PriceIsSet(o)
    <3>1. OwedToOwner(p) = u.collateralAmount
      BY <2>3 DEF OwedToOwner
    <3>2. OwedToOwner(p)' = v.collateralAmount
      BY <1>0, <2>3 DEF OwedToOwner
    <3> QED
      BY <1>1, <1>3, <2>1, <3>1, <3>2 DEF Only
  <2> QED
    BY <2>2, <2>3
<1>4. CASE b = a /\ u.collateralAsset = NoAsset
  <2>1. VaultDebt(p, b) = 0
    BY <1>1, <1>4 DEF VaultDebt
  <2>2. VaultDebt(p, b)' = OwedToOwner(p)'
    BY <1>4 DEF VaultDebt
  <2>3. OwedToOwner(p)' = v.collateralAmount
    BY <1>0, <1>1, <1>4 DEF OwedToOwner
  <2> QED
    BY <1>1, <1>4, <2>1, <2>2, <2>3 DEF Only
<1> QED
  BY <1>1, <1>2, <1>3, <1>4

LEMMA StepDepositDebt ==
    ASSUME TypeOK, TypeOK', FundedVaults, VaultsCovered, NEW a \in Assets,
           NEW p \in AllVaults, NEW c \in Assets, NEW d \in Nat, StepDeposit(p, c, d)
    PROVE  DebtKept(a)
<1> DEFINE u == VaultAt(p)
           v == Deposited(u, c, d)
<1>1. /\ Writes(p, v) /\ DepositAllowed(u, c) /\ PoolGains(c, d)
      /\ UNCHANGED oTokenBalance /\ UNCHANGED expiryPrice
  BY DEF StepDeposit
<1>2. /\ v.collateralAsset = c /\ v.collateralAmount = u.collateralAmount + d
      /\ v.shortOtoken = u.shortOtoken /\ v.shortAmount = u.shortAmount
  BY DEF Deposited
<1>3. ~IsSettled(p) /\ ~IsSettled(p)' /\ VaultAt(p)' = v
  BY <1>1 DEF Writes, IsSettled
<1> HIDE DEF u, v
<1>4. VaultDebt(p, a)' <= VaultDebt(p, a) + Only(a = c, d)
  <2>1. VaultDebt(p, a)' \in Nat
    BY DebtTypesNext
  <2> QED
    BY <1>1, <1>2, <1>3, <2>1, DepositedDebt DEF u
<1>5. VaultDebts(a)' = VaultDebts(a) + (VaultDebt(p, a)' - VaultDebt(p, a))
  BY <1>1, VaultDebtAfterWrite
<1>6. Losses(a)' = Losses(a)
  <2>1. SameIfPriced(u, v)
    BY <1>2 DEF SameIfPriced
  <2> QED
    BY <1>1, <2>1, LossesAfterWrite DEF u
<1>7. HolderDebts(a)' = HolderDebts(a)
  BY <1>1, HeldSame, DebtsSame
<1>8. tokenBalance'[a][Pool] = tokenBalance[a][Pool] + Only(a = c, d)
  BY <1>1 DEF PoolGains
<1>9. /\ VaultDebts(a) \in Nat /\ HolderDebts(a) \in Nat
      /\ Losses(a) \in Nat /\ tokenBalance[a][Pool] \in Nat
      /\ VaultDebt(p, a) \in Nat /\ VaultDebt(p, a)' \in Nat /\ Only(a = c, d) \in Nat
  BY DebtSums, DebtTypes, DebtTypesNext DEF Only
<1> QED
  BY <1>4, <1>5, <1>6, <1>7, <1>8, <1>9 DEF DebtKept

(* oTokens of an option without a price change nothing for its holders.     *)
LEMMA HolderDebtsUnpriced ==
    ASSUME TypeOK, TypeOK', NEW o \in OTokens, NEW h \in OTokenHolders, NEW n \in Nat,
           HolderGains(o, h, n), ~PriceIsSet(o), UNCHANGED expiryPrice, NEW a \in Assets
    PROVE  HolderDebts(a)' = HolderDebts(a)
<1>1. \A x \in OTokens : Supply(x)' = Supply(x) + Only(x = o, n)
  BY SupplyGains
<1>2. \A x \in OTokens : PriceIsSet(x) => Supply(x)' = Supply(x)
  BY <1>1, BookTypes DEF Only
<1> QED
  BY <1>2, DebtsSame

LEMMA StepMintDebt ==
    ASSUME TypeOK, TypeOK', PricedExpired, NEW a \in Assets, NEW p \in AllVaults,
           NEW o \in OTokens, NEW n \in Nat, NEW h \in OTokenHolders, StepMint(p, o, n, h)
    PROVE  DebtKept(a)
<1> DEFINE u == VaultAt(p)
           v == Minted(u, o, n)
<1>1. /\ Writes(p, v) /\ HolderGains(o, h, n) /\ PoolKept
      /\ UNCHANGED expiryPrice /\ u.shortOtoken \in {NoOToken, o} /\ ~Expired(o)
  BY DEF StepMint
<1>2. /\ v.collateralAsset = u.collateralAsset /\ v.collateralAmount = u.collateralAmount
      /\ v.shortOtoken = o
  BY DEF Minted
<1>3. ~IsSettled(p) /\ ~IsSettled(p)' /\ VaultAt(p)' = v /\ ~PriceIsSet(o)
  BY <1>1 DEF Writes, IsSettled, PricedExpired
<1>4. PriceIsSet(o)' <=> PriceIsSet(o)
  BY <1>1 DEF PriceIsSet, PriceOf
<1>0. NoOToken \notin OTokens
  BY ControllerAssumption
<1> HIDE DEF v
<1>5. VaultDebt(p, a)' = VaultDebt(p, a)
  BY <1>1, <1>2, <1>3, <1>4 DEF VaultDebt, OwedToOwner
<1>6. VaultDebts(a)' = VaultDebts(a) + (VaultDebt(p, a)' - VaultDebt(p, a))
  BY <1>1, VaultDebtAfterWrite
<1>7. Losses(a)' = Losses(a)
  <2>1. SameIfPriced(u, v)
    BY <1>0, <1>1, <1>2, <1>3 DEF SameIfPriced
  <2> QED
    BY <1>1, <2>1, LossesAfterWrite
<1>8. HolderDebts(a)' = HolderDebts(a)
  BY <1>1, <1>3, HolderDebtsUnpriced
<1>9. /\ VaultDebts(a) \in Nat /\ HolderDebts(a) \in Nat
      /\ Losses(a) \in Nat /\ tokenBalance[a][Pool] \in Nat
      /\ VaultDebt(p, a) \in Nat
  BY DebtSums, DebtTypes
<1>10. tokenBalance'[a][Pool] = tokenBalance[a][Pool]
  BY <1>1 DEF PoolKept
<1> QED
  BY <1>5, <1>6, <1>7, <1>8, <1>9, <1>10 DEF DebtKept

LEMMA StepOrderDebt ==
    ASSUME TypeOK, TypeOK', FundedVaults, VaultsCovered, PricedExpired, NEW a \in Assets,
           NEW p \in AllVaults, NEW q \in Quotes, NEW n \in Nat, NEW d \in Nat,
           StepOrder(p, q, n, d)
    PROVE  DebtKept(a)
<1> DEFINE o == q.oToken
           c == Series[o].collateralAsset
           u == VaultAt(p)
           v == Minted(Deposited(u, c, d), o, n)
<1>0. o \in OTokens /\ c \in Assets /\ NoOToken \notin OTokens /\ Settler \in OTokenHolders
  BY SettlerAssumption, SeriesType, ControllerAssumption DEF QuoteFields, OTokenHolders
<1>1. /\ Writes(p, v) /\ HolderGains(o, Settler, n) /\ PoolGains(c, d) /\ DepositAllowed(u, c)
      /\ UNCHANGED expiryPrice /\ u.shortOtoken \in {NoOToken, o} /\ ~Expired(o)
  BY DEF StepOrder
<1>2. /\ v.collateralAsset = c /\ v.collateralAmount = u.collateralAmount + d
      /\ v.shortOtoken = o
  BY DEF Minted, Deposited
<1> HIDE DEF u, v, c, o
<1>3. ~IsSettled(p) /\ ~IsSettled(p)' /\ VaultAt(p)' = v /\ ~PriceIsSet(o)
  BY <1>0, <1>1 DEF Writes, IsSettled, PricedExpired
<1>4. VaultDebt(p, a)' <= VaultDebt(p, a) + Only(a = c, d)
  <2>1. VaultDebt(p, a)' \in Nat
    BY DebtTypesNext
  <2>2. v.shortOtoken # NoOToken /\ ~PriceIsSet(v.shortOtoken)
        /\ u.shortOtoken \in {NoOToken, v.shortOtoken}
    BY <1>0, <1>1, <1>2, <1>3
  <2> QED
    BY <1>0, <1>1, <1>2, <1>3, <2>1, <2>2, DepositedDebt DEF u
<1>5. VaultDebts(a)' = VaultDebts(a) + (VaultDebt(p, a)' - VaultDebt(p, a))
  BY <1>1, VaultDebtAfterWrite
<1>6. Losses(a)' = Losses(a)
  <2>1. SameIfPriced(u, v)
    BY <1>0, <1>1, <1>2, <1>3 DEF SameIfPriced
  <2> QED
    BY <1>1, <2>1, LossesAfterWrite DEF u
<1>7. HolderDebts(a)' = HolderDebts(a)
  BY <1>0, <1>1, <1>3, HolderDebtsUnpriced
<1>8. tokenBalance'[a][Pool] = tokenBalance[a][Pool] + Only(a = c, d)
  BY <1>1 DEF PoolGains
<1>9. /\ VaultDebts(a) \in Nat /\ HolderDebts(a) \in Nat
      /\ Losses(a) \in Nat /\ tokenBalance[a][Pool] \in Nat
      /\ VaultDebt(p, a) \in Nat /\ VaultDebt(p, a)' \in Nat /\ Only(a = c, d) \in Nat
  BY DebtSums, DebtTypes, DebtTypesNext DEF Only
<1> QED
  BY <1>4, <1>5, <1>6, <1>7, <1>8, <1>9 DEF DebtKept

LEMMA PayoutOfParts ==
    ASSUME TypeOK, NEW o \in OTokens, NEW x \in Nat, NEW y \in Nat
    PROVE  /\ PayoutOf(o, 0) = 0
           /\ PayoutOf(o, x) + PayoutOf(o, y) <= PayoutOf(o, x + y)
  BY PriceType, PayoutParts DEF PayoutOf

(* What burning oTokens of o takes off what their holders are owed.         *)
LEMMA BurnedDebt ==
    ASSUME TypeOK, TypeOK', NEW o \in OTokens, NEW h \in OTokenHolders, NEW n \in Nat,
           HolderGains(o, h, 0 - n), UNCHANGED expiryPrice, NEW a \in Assets
    PROVE  HolderDebts(a)' <= HolderDebts(a)
               - Only(a = Series[o].collateralAsset /\ PriceIsSet(o), PayoutOf(o, n))
<1>0. \A x : PriceOf(x)' = PriceOf(x) /\ (PriceIsSet(x)' <=> PriceIsSet(x))
  BY DEF PriceOf, PriceIsSet
<1>1. \A x \in OTokens : Supply(x)' = Supply(x) + Only(x = o, 0 - n)
  BY SupplyGains
<1>2. Supply(o) \in Nat /\ Supply(o)' \in Nat /\ Supply(o) = Supply(o)' + n
  BY <1>1, BookTypes, BookTypesNext DEF Only
<1>3. \A x \in OTokens : x # o => Supply(x)' = Supply(x)
  BY <1>1, BookTypes DEF Only
<1>4. \A x \in OTokens : x # o => HolderDebt(x, a)' = HolderDebt(x, a)
  BY <1>0, <1>3 DEF HolderDebt, OwedToHolders, PayoutOf
<1>5. HolderDebts(a)' = HolderDebts(a) + (HolderDebt(o, a)' - HolderDebt(o, a))
  BY <1>4, HolderDebtsChange
<1>6. /\ HolderDebts(a) \in Nat /\ HolderDebt(o, a) \in Nat /\ HolderDebt(o, a)' \in Nat
      /\ PayoutOf(o, n) \in Nat
  BY DebtTypes, DebtTypesNext, DebtSums, PoolTypes
<1>7. HolderDebt(o, a)' <= HolderDebt(o, a)
          - Only(a = Series[o].collateralAsset /\ PriceIsSet(o), PayoutOf(o, n))
  <2>1. CASE a = Series[o].collateralAsset /\ PriceIsSet(o)
    <3> DEFINE s == Supply(o)'
    <3>1. HolderDebt(o, a) = PayoutOf(o, Supply(o)) /\ HolderDebt(o, a)' = PayoutOf(o, s)
      BY <1>0, <2>1 DEF HolderDebt, OwedToHolders, PayoutOf
    <3>2. s \in Nat /\ Supply(o) = s + n
      BY <1>2
    <3> HIDE DEF s
    <3>3. PayoutOf(o, s) + PayoutOf(o, n) <= PayoutOf(o, s + n)
      BY <3>2, PayoutOfParts
    <3> QED
      BY <1>6, <2>1, <3>1, <3>2, <3>3 DEF Only
  <2>2. CASE ~(a = Series[o].collateralAsset /\ PriceIsSet(o))
    <3>1. HolderDebt(o, a)' = 0 /\ HolderDebt(o, a) = 0
      BY <1>0, <2>2 DEF HolderDebt, OwedToHolders
    <3> QED
      BY <2>2, <3>1 DEF Only
  <2> QED
    BY <2>1, <2>2
<1>8. Only(a = Series[o].collateralAsset /\ PriceIsSet(o), PayoutOf(o, n)) \in Nat
  BY <1>6 DEF Only
<1> QED
  BY <1>5, <1>6, <1>7, <1>8

LEMMA StepRedeemDebt ==
    ASSUME TypeOK, TypeOK', NEW a \in Assets, NEW o \in OTokens, NEW n \in Nat,
           NEW h \in OTokenHolders, StepRedeem(o, n, h)
    PROVE  DebtKept(a)
<1>1. /\ PriceIsSet(o) /\ HolderGains(o, h, 0 - n)
      /\ PoolGains(Series[o].collateralAsset, 0 - PayoutOf(o, n))
      /\ UNCHANGED expiryPrice /\ UNCHANGED <<vaults, vaultSettled>> /\ UNCHANGED vaults
  BY DEF StepRedeem
<1>2. VaultDebts(a)' = VaultDebts(a) /\ Losses(a)' = Losses(a)
  BY <1>1, DebtsSame
<1>3. HolderDebts(a)' <= HolderDebts(a)
          - Only(a = Series[o].collateralAsset /\ PriceIsSet(o), PayoutOf(o, n))
  BY <1>1, BurnedDebt
<1>4. tokenBalance'[a][Pool] =
          tokenBalance[a][Pool] + Only(a = Series[o].collateralAsset, 0 - PayoutOf(o, n))
  BY <1>1 DEF PoolGains
<1>5. /\ VaultDebts(a) \in Nat /\ HolderDebts(a) \in Nat /\ HolderDebts(a)' \in Nat
      /\ Losses(a) \in Nat /\ tokenBalance[a][Pool] \in Nat /\ PayoutOf(o, n) \in Nat
  BY DebtSums, DebtSumsNext, PoolTypes
<1> QED
  BY <1>1, <1>2, <1>3, <1>4, <1>5 DEF DebtKept, Only

LEMMA StepSettleDebt ==
    ASSUME TypeOK, TypeOK', NEW a \in Assets, NEW p \in AllVaults, StepSettle(p)
    PROVE  DebtKept(a)
<1> DEFINE v == VaultAt(p)
<1>1. /\ Closes(p) /\ UNCHANGED expiryPrice /\ UNCHANGED oTokenBalance /\ UNCHANGED vaults
      /\ v.shortOtoken # NoOToken /\ PriceIsSet(v.shortOtoken)
      /\ PoolGains(v.collateralAsset, 0 - CollateralToReturn(v))
  BY DEF StepSettle, Closes
<1>2. OwedToOwner(p) = CollateralToReturn(v) /\ CollateralToReturn(v) \in Nat
  BY <1>1, PoolTypes DEF OwedToOwner
<1>3. VaultDebts(a)' = VaultDebts(a) - Only(a = v.collateralAsset, OwedToOwner(p))
  BY <1>1, VaultDebtAfterClose
<1>4. HolderDebts(a)' = HolderDebts(a) /\ Losses(a)' = Losses(a)
  BY <1>1, HeldSame, DebtsSame
<1>5. tokenBalance'[a][Pool] =
          tokenBalance[a][Pool] + Only(a = v.collateralAsset, 0 - CollateralToReturn(v))
  BY <1>1 DEF PoolGains
<1>6. /\ VaultDebts(a) \in Nat /\ HolderDebts(a) \in Nat
      /\ Losses(a) \in Nat /\ tokenBalance[a][Pool] \in Nat
  BY DebtSums
<1> QED
  BY <1>2, <1>3, <1>4, <1>5, <1>6 DEF DebtKept, Only

\* The vault had to keep its payout; the holders it goes to lose at least as much.
LEMMA StepWithdrawDebt ==
    ASSUME TypeOK, TypeOK', VaultsCovered, NEW a \in Assets, NEW p \in AllVaults,
           StepWithdraw(p)
    PROVE  DebtKept(a)
<1> DEFINE v == VaultAt(p)
           o == v.shortOtoken
           k == v.shortAmount
           c == v.collateralAmount
           R == IF o # NoOToken /\ PriceIsSet(o) THEN PayoutOf(o, k) ELSE 0
<1>1. /\ Closes(p) /\ UNCHANGED expiryPrice /\ UNCHANGED vaults
      /\ PoolGains(v.collateralAsset, 0 - c)
      /\ \/ (o = NoOToken \/ k = 0) /\ UNCHANGED oTokenBalance
         \/ o # NoOToken /\ HolderGains(o, Settler, 0 - k)
  BY DEF StepWithdraw, Closes
<1>2. /\ k \in Nat /\ c \in Nat /\ o \in OTokens \cup {NoOToken}
      /\ Settler \in OTokenHolders
      /\ o # NoOToken => v.collateralAsset = Series[o].collateralAsset
  BY VaultTypes DEF VaultsCovered, OTokenHolders
<1>3. R \in Nat
  BY <1>2, PoolTypes
<1>4. OwedToOwner(p) >= c - R /\ OwedToOwner(p) \in Nat
  <2>1. CASE o # NoOToken /\ PriceIsSet(o)
    <3>1. OwedToOwner(p) = IF PayoutOf(o, k) >= c THEN 0 ELSE c - PayoutOf(o, k)
      BY <2>1 DEF OwedToOwner, CollateralToReturn
    <3> QED
      BY <1>2, <1>3, <2>1, <3>1
  <2>2. CASE ~(o # NoOToken /\ PriceIsSet(o))
    <3>1. OwedToOwner(p) = c
      BY <2>2 DEF OwedToOwner
    <3> QED
      BY <1>2, <2>2, <3>1
  <2> QED
    BY <2>1, <2>2
<1>5. VaultDebts(a)' = VaultDebts(a) - Only(a = v.collateralAsset, OwedToOwner(p))
  BY <1>1, VaultDebtAfterClose
<1>6. Losses(a)' = Losses(a)
  BY <1>1, DebtsSame
<1>7. HolderDebts(a)' <= HolderDebts(a) - Only(a = v.collateralAsset, R)
  <2>1. CASE (o = NoOToken \/ k = 0) /\ UNCHANGED oTokenBalance
    <3>1. HolderDebts(a)' = HolderDebts(a) /\ HolderDebts(a) \in Nat
      BY <1>1, <2>1, HeldSame, DebtsSame, DebtSums
    <3>2. R = 0
      BY <1>2, <2>1, PayoutOfParts
    <3> QED
      BY <3>1, <3>2 DEF Only
  <2>2. CASE o # NoOToken /\ HolderGains(o, Settler, 0 - k)
    <3>1. HolderDebts(a)' <= HolderDebts(a)
              - Only(a = Series[o].collateralAsset /\ PriceIsSet(o), PayoutOf(o, k))
      BY <1>1, <1>2, <2>2, BurnedDebt
    <3>2. Only(a = Series[o].collateralAsset /\ PriceIsSet(o), PayoutOf(o, k))
              = Only(a = v.collateralAsset, R)
      BY <1>2, <2>2 DEF Only
    <3> QED
      BY <3>1, <3>2
  <2> QED
    BY <1>1, <2>1, <2>2
<1>8. tokenBalance'[a][Pool] = tokenBalance[a][Pool] + Only(a = v.collateralAsset, 0 - c)
  BY <1>1 DEF PoolGains
<1>9. /\ VaultDebts(a) \in Nat /\ HolderDebts(a) \in Nat /\ HolderDebts(a)' \in Nat
      /\ Losses(a) \in Nat /\ tokenBalance[a][Pool] \in Nat
  BY DebtSums, DebtSumsNext
<1> HIDE DEF v, o, k, c, R
<1> QED
  BY <1>2, <1>3, <1>4, <1>5, <1>6, <1>7, <1>8, <1>9 DEF DebtKept, Only

(* When options are priced the vaults that wrote them owe their owners less *)
(* by the payout of each, and the holders are owed the payout of the whole  *)
(* supply: what was floored on the way is the rounding allowed for.         *)
NewlyPriced(o) == ~PriceIsSet(o) /\ PriceIsSet(o)'
Relief(p, a) ==
    LET v == VaultAt(p)
    IN  IF ~IsSettled(p) /\ v.collateralAsset = a
               /\ v.shortOtoken \in OTokens /\ NewlyPriced(v.shortOtoken)
        THEN PayoutOf(v.shortOtoken, v.shortAmount)' ELSE 0

LEMMA ReliefOfVault ==
    ASSUME TypeOK, TypeOK', VaultsCovered, StepPrice, NEW p \in AllVaults, NEW a \in Assets
    PROVE  VaultDebt(p, a)' = VaultDebt(p, a) - Relief(p, a) /\ Relief(p, a) \in Nat
<1>0. PICK v, o, k, c : /\ v = VaultAt(p) /\ o = v.shortOtoken /\ k = v.shortAmount
                        /\ c = v.collateralAmount
  OBVIOUS
<1>1. VaultAt(p) = v /\ VaultAt(p)' = v /\ (IsSettled(p)' <=> IsSettled(p))
      /\ o = v.shortOtoken /\ k = v.shortAmount /\ c = v.collateralAmount
  BY <1>0 DEF StepPrice, VaultAt, IsSettled
<1>2. /\ k \in Nat /\ c \in Nat /\ o \in OTokens \cup {NoOToken} /\ NoOToken \notin OTokens
      /\ o # NoOToken => c >= RequiredCollateral(o, k)
  BY <1>1, VaultTypes, ControllerAssumption DEF VaultsCovered
<1>3. ASSUME o \in OTokens
      PROVE  /\ PriceOf(o) \in Nat /\ PriceOf(o)' \in Nat
             /\ PayoutOf(o, k)' = CalculatePayout(o, k, PriceOf(o)')
             /\ PayoutOf(o, k)' \in Nat /\ PayoutOf(o, k)' <= c
             /\ PriceIsSet(o) => PriceIsSet(o)' /\ PayoutOf(o, k)' = PayoutOf(o, k)
  <2>1. PriceOf(o) \in Nat /\ PriceOf(o)' \in Nat
    BY <1>3, SeriesType DEF PriceOf, TypeOK, ControllerTypeOK
  <2>2. PayoutOf(o, k)' = CalculatePayout(o, k, PriceOf(o)')
    BY <1>1 DEF PayoutOf, CalculatePayout
  <2>3. PriceIsSet(o) => PriceOf(o)' = PriceOf(o)
    BY <1>3 DEF StepPrice
  <2>4. /\ CalculatePayout(o, k, PriceOf(o)') \in Nat
        /\ CalculatePayout(o, k, PriceOf(o)') <= RequiredCollateral(o, k)
    BY <1>2, <1>3, <2>1, PayoutWithinCollateral
  <2>5. RequiredCollateral(o, k) \in Nat
    BY <1>2, <1>3, FullAmountType DEF RequiredCollateral
  <2>6. PriceIsSet(o) => PriceIsSet(o)' /\ PayoutOf(o, k)' = PayoutOf(o, k)
    BY <2>2, <2>3 DEF PriceIsSet, PayoutOf
  <2>7. c >= RequiredCollateral(o, k)
    BY <1>2, <1>3
  <2> QED
    BY <1>2, <2>1, <2>2, <2>4, <2>5, <2>6, <2>7
<1>4. CASE IsSettled(p) \/ v.collateralAsset # a
  <2>1. VaultDebt(p, a)' = 0 /\ VaultDebt(p, a) = 0 /\ Relief(p, a) = 0
    BY <1>1, <1>4 DEF VaultDebt, Relief
  <2> QED
    BY <2>1
<1>5. CASE ~IsSettled(p) /\ v.collateralAsset = a
  <2>1. VaultDebt(p, a)' = OwedToOwner(p)' /\ VaultDebt(p, a) = OwedToOwner(p)
    BY <1>1, <1>5 DEF VaultDebt
  <2>2. CASE o = NoOToken
    <3>1. OwedToOwner(p)' = c /\ OwedToOwner(p) = c /\ Relief(p, a) = 0
      BY <1>1, <1>2, <2>2 DEF OwedToOwner, Relief
    <3> QED
      BY <1>2, <2>1, <3>1
  <2>3. CASE o \in OTokens /\ PriceIsSet(o)
    <3>1. OwedToOwner(p)' = OwedToOwner(p)
      BY <1>1, <1>2, <1>3, <2>3 DEF OwedToOwner, CollateralToReturn, PayoutOf, PriceIsSet, PriceOf
    <3>2. Relief(p, a) = 0
      BY <1>1, <2>3 DEF Relief, NewlyPriced
    <3>3. VaultDebt(p, a) \in Nat
      BY DebtTypes
    <3> QED
      BY <2>1, <3>1, <3>2, <3>3
  <2>4. CASE o \in OTokens /\ ~PriceIsSet(o) /\ ~PriceIsSet(o)'
    <3>1. OwedToOwner(p)' = c /\ OwedToOwner(p) = c /\ Relief(p, a) = 0
      BY <1>1, <1>2, <2>4 DEF OwedToOwner, Relief, NewlyPriced, PriceIsSet, PriceOf
    <3> QED
      BY <1>2, <2>1, <3>1
  <2>5. CASE o \in OTokens /\ ~PriceIsSet(o) /\ PriceIsSet(o)'
    <3> DEFINE w == PayoutOf(o, k)'
    <3>1. OwedToOwner(p)' = (IF w >= c THEN 0 ELSE c - w)
      BY <1>1, <1>2, <2>5 DEF OwedToOwner, CollateralToReturn, PayoutOf, PriceIsSet, PriceOf
    <3>2. OwedToOwner(p) = c /\ Relief(p, a) = w
      BY <1>1, <1>5, <2>5 DEF OwedToOwner, Relief, NewlyPriced, PayoutOf, PriceIsSet, PriceOf
    <3>3. w \in Nat /\ w <= c
      BY <1>3, <2>5
    <3> HIDE DEF w
    <3> QED
      BY <1>2, <2>1, <3>1, <3>2, <3>3
  <2> QED
    BY <1>2, <2>2, <2>3, <2>4, <2>5
<1> QED
  BY <1>4, <1>5

\* The relief the vaults that wrote o get when it is priced.
Reliefs(a) == [p \in AllVaults |-> Relief(p, a)]
Shorted == [p \in AllVaults |-> VaultAt(p).shortOtoken]
ReliefOf(o, a) == SumFunctionOnSet(ClassPart(Reliefs(a), Shorted, o, AllVaults), AllVaults)

LEMMA VaultDebtsRelieved ==
    ASSUME TypeOK, TypeOK', VaultsCovered, StepPrice, NEW a \in Assets
    PROVE  /\ VaultDebts(a)' = VaultDebts(a)
                  - SumFunctionOnSet([o \in OTokens |-> ReliefOf(o, a)], OTokens)
           /\ \A o \in OTokens : ReliefOf(o, a) \in Nat
<1> DEFINE f == [p \in AllVaults |-> VaultDebt(p, a)]
           g == [p \in AllVaults |-> VaultDebt(p, a)']
           r == Reliefs(a)
<1>1. \A p \in AllVaults : /\ VaultDebt(p, a) \in Nat /\ VaultDebt(p, a)' \in Nat
                           /\ Relief(p, a) \in Nat
                           /\ VaultDebt(p, a)' = VaultDebt(p, a) - Relief(p, a)
  BY ReliefOfVault, DebtTypes, DebtTypesNext
<1>2. \A p \in AllVaults : /\ r[p] \in Nat /\ g[p] \in Nat /\ f[p] \in Nat
                           /\ f[p] = r[p] + g[p]
  BY <1>1 DEF Reliefs
<1>3. \A p \in AllVaults : r[p] \in Nat /\ (Shorted[p] \in OTokens \/ r[p] = 0)
  BY <1>2 DEF Reliefs, Shorted, Relief
<1>4. IsFiniteSet(AllVaults) /\ IsFiniteSet(OTokens)
  BY FiniteSets, FiniteAssumption
<1>5. VaultDebts(a)' = SumFunctionOnSet(g, AllVaults)
  BY DEF VaultDebts
<1>6. VaultDebts(a) = SumFunctionOnSet(f, AllVaults)
  BY DEF VaultDebts
<1> HIDE DEF f, g, r
<1>7. SumFunctionOnSet(f, AllVaults) = SumFunctionOnSet(r, AllVaults)
                                         + SumFunctionOnSet(g, AllVaults)
  BY <1>2, <1>4, SumPlus
<1>8. SumFunctionOnSet(r, AllVaults)
          = SumFunctionOnSet([o \in OTokens |->
                SumFunctionOnSet(ClassPart(r, Shorted, o, AllVaults), AllVaults)], OTokens)
  BY <1>3, <1>4, SumByClass
<1>9. SumFunctionOnSet(r, AllVaults)
          = SumFunctionOnSet([o \in OTokens |-> ReliefOf(o, a)], OTokens)
  BY <1>8 DEF ReliefOf, r
<1>10. SumFunctionOnSet(r, AllVaults) \in Nat /\ SumFunctionOnSet(g, AllVaults) \in Nat
  BY <1>2, <1>4, SumNat
<1>11. ASSUME NEW o \in OTokens PROVE ReliefOf(o, a) \in Nat
  <2> DEFINE q == ClassPart(r, Shorted, o, AllVaults)
  <2>1. \A p \in AllVaults : q[p] \in Nat
    BY <1>3 DEF ClassPart
  <2> HIDE DEF q
  <2>2. SumFunctionOnSet(q, AllVaults) \in Nat
    BY <2>1, <1>4, SumNat
  <2> QED
    BY <2>2 DEF q, r, ReliefOf
<1> QED
  BY <1>5, <1>6, <1>7, <1>9, <1>10, <1>11

(* What the holders of an option come to be owed when it is priced is what  *)
(* its vaults are relieved of and the rounding of its payouts.              *)
LEMMA PricedDebt ==
    ASSUME TypeOK, TypeOK', VaultsCovered, SupplyIsWritten, StepPrice,
           NEW o \in OTokens, NEW a \in Assets
    PROVE  HolderDebt(o, a)' + Loss(o, a) <= HolderDebt(o, a) + Loss(o, a)' + ReliefOf(o, a)
<1>1. /\ HolderDebt(o, a) \in Nat /\ HolderDebt(o, a)' \in Nat
      /\ Loss(o, a) \in Nat /\ Loss(o, a)' \in Nat /\ ReliefOf(o, a) \in Nat
  BY DebtTypes, DebtTypesNext, VaultDebtsRelieved
<1>2. /\ UNCHANGED <<vaults, vaultSettled>> /\ UNCHANGED vaults /\ UNCHANGED oTokenBalance
      /\ PriceIsSet(o) => PriceOf(o)' = PriceOf(o)
  BY DEF StepPrice
<1>3. Supply(o)' = Supply(o) /\ RoundingLoss(o)' = RoundingLoss(o)
  BY <1>2, HeldSame DEF RoundingLoss, VaultsWriting, Inexact, VaultAt
<1>4. CASE Series[o].collateralAsset # a
  <2>1. HolderDebt(o, a)' = 0 /\ Loss(o, a)' = 0 /\ Loss(o, a) = 0
    BY <1>4 DEF HolderDebt, Loss
  <2> QED
    BY <1>1, <2>1
<1>5. CASE Series[o].collateralAsset = a /\ ~PriceIsSet(o)'
  <2>1. ~PriceIsSet(o)
    BY <1>2, <1>5 DEF PriceIsSet
  <2>2. HolderDebt(o, a)' = 0 /\ Loss(o, a)' = 0 /\ Loss(o, a) = 0
    BY <1>5, <2>1 DEF HolderDebt, OwedToHolders, Loss
  <2> QED
    BY <1>1, <2>2
<1>6. CASE Series[o].collateralAsset = a /\ PriceIsSet(o) /\ PriceIsSet(o)'
  <2>1. HolderDebt(o, a)' = HolderDebt(o, a)
    BY <1>2, <1>3, <1>6 DEF HolderDebt, OwedToHolders, PayoutOf
  <2>2. Loss(o, a)' = Loss(o, a)
    BY <1>3, <1>6 DEF Loss
  <2> QED
    BY <1>1, <2>1, <2>2
<1>7. CASE Series[o].collateralAsset = a /\ ~PriceIsSet(o) /\ PriceIsSet(o)'
  <2>0. PICK price : price = PriceOf(o)'
    OBVIOUS
  <2>1. price \in Nat
    BY <2>0, SeriesType DEF PriceOf, TypeOK, ControllerTypeOK
  <2>2. Supply(o) = OpenShorts(o) /\ OpenShorts(o) \in Nat
    BY <1>7, ShortSums DEF SupplyIsWritten
  <2>3. HolderDebt(o, a)' = CalculatePayout(o, OpenShorts(o), price)
    BY <1>3, <1>7, <2>0, <2>2 DEF HolderDebt, OwedToHolders, PayoutOf, CalculatePayout
  <2>4. HolderDebt(o, a) = 0 /\ Loss(o, a) = 0 /\ Loss(o, a)' = RoundingLoss(o)
    BY <1>3, <1>7 DEF HolderDebt, OwedToHolders, Loss
  <2> DEFINE q == [p \in AllVaults |-> CalculatePayout(o, OpenShort(p, o), price)]
             c == ClassPart(Reliefs(a), Shorted, o, AllVaults)
  <2>5. CalculatePayout(o, OpenShorts(o), price)
            <= SumFunctionOnSet(q, AllVaults) + RoundingLoss(o)
    BY <2>1, PayoutOfShorts
  <2>6. ASSUME NEW p \in AllVaults
        PROVE  c[p] = q[p] /\ q[p] \in Int
    <3>1. c[p] = IF VaultAt(p).shortOtoken = o THEN Relief(p, a) ELSE 0
      BY DEF ClassPart, Reliefs, Shorted
    <3>2. NewlyPriced(o)
      BY <1>7 DEF NewlyPriced
    <3>3. CASE VaultAt(p).shortOtoken = o /\ ~IsSettled(p)
      <4>0. PICK k : k = VaultAt(p).shortAmount
        OBVIOUS
      <4>1. VaultAt(p).collateralAsset = a
        BY <1>7, <3>3, ControllerAssumption DEF VaultsCovered
      <4>2. VaultAt(p)' = VaultAt(p)
        BY <1>2 DEF VaultAt
      <4>3. PayoutOf(o, VaultAt(p).shortAmount)' = CalculatePayout(o, k, price)
        BY <2>0, <4>0, <4>2 DEF PayoutOf, CalculatePayout
      <4>4. Relief(p, a) = PayoutOf(o, VaultAt(p).shortAmount)'
        BY <3>2, <3>3, <4>1, <4>2, <4>3 DEF Relief, PayoutOf, CalculatePayout
      <4>5. OpenShort(p, o) = k
        BY <3>3, <4>0 DEF OpenShort
      <4>6. Relief(p, a) \in Nat
        BY ReliefOfVault
      <4> QED
        BY <3>1, <3>3, <4>3, <4>4, <4>5, <4>6
    <3>4. CASE ~(VaultAt(p).shortOtoken = o /\ ~IsSettled(p))
      <4>1. OpenShort(p, o) = 0
        BY <3>4 DEF OpenShort
      <4>2. q[p] = 0
        BY <2>1, <4>1, PayoutParts
      <4>3. c[p] = 0
        BY <3>1, <3>4 DEF Relief
      <4> QED
        BY <4>2, <4>3
    <3> QED
      BY <3>3, <3>4
  <2>7. IsFiniteSet(AllVaults) /\ RoundingLoss(o) \in Nat
    BY FiniteSets, RoundingTypes
  <2>8. ReliefOf(o, a) = SumFunctionOnSet(c, AllVaults)
    BY DEF ReliefOf
  <2> HIDE DEF q, c
  <2>9. SumFunctionOnSet(c, AllVaults) = SumFunctionOnSet(q, AllVaults)
    BY <2>6, <2>7, SumSame
  <2> QED
    BY <1>1, <2>3, <2>4, <2>5, <2>7, <2>8, <2>9
<1> QED
  BY <1>4, <1>5, <1>6, <1>7

LEMMA StepPriceDebt ==
    ASSUME TypeOK, TypeOK', VaultsCovered, SupplyIsWritten, StepPrice, NEW a \in Assets
    PROVE  DebtKept(a)
<1> DEFINE H == [o \in OTokens |-> HolderDebt(o, a)]
           HN == [o \in OTokens |-> HolderDebt(o, a)']
           L == [o \in OTokens |-> Loss(o, a)]
           LN == [o \in OTokens |-> Loss(o, a)']
           R == [o \in OTokens |-> ReliefOf(o, a)]
           M == [o \in OTokens |-> HN[o] + L[o]]
           N == [o \in OTokens |-> LN[o] + R[o]]
           K == [o \in OTokens |-> H[o] + N[o]]
<1>1. \A o \in OTokens :
          /\ H[o] \in Nat /\ HN[o] \in Nat /\ L[o] \in Nat /\ LN[o] \in Nat /\ R[o] \in Nat
          /\ HN[o] + L[o] <= H[o] + LN[o] + R[o]
  BY DebtTypes, DebtTypesNext, VaultDebtsRelieved, PricedDebt
<1>2. IsFiniteSet(OTokens)
  BY FiniteAssumption
<1>3. VaultDebts(a)' = VaultDebts(a) - SumFunctionOnSet(R, OTokens)
  BY VaultDebtsRelieved
<1>4. HolderDebts(a)' = SumFunctionOnSet(HN, OTokens) /\ Losses(a)' = SumFunctionOnSet(LN, OTokens)
  BY DEF HolderDebts, Losses
<1>5. HolderDebts(a) = SumFunctionOnSet(H, OTokens) /\ Losses(a) = SumFunctionOnSet(L, OTokens)
  BY DEF HolderDebts, Losses
<1>6. tokenBalance'[a][Pool] = tokenBalance[a][Pool]
  BY DEF StepPrice, PoolKept
<1> HIDE DEF H, HN, L, LN, R
<1>7. \A o \in OTokens : /\ HN[o] \in Int /\ L[o] \in Int /\ M[o] = HN[o] + L[o]
                         /\ LN[o] \in Int /\ R[o] \in Int /\ N[o] = LN[o] + R[o]
                         /\ H[o] \in Int /\ N[o] \in Int /\ K[o] = H[o] + N[o]
                         /\ M[o] \in Int /\ K[o] \in Int /\ M[o] <= K[o]
  BY <1>1
<1> HIDE DEF M, N, K
<1>8. SumFunctionOnSet(M, OTokens) = SumFunctionOnSet(HN, OTokens) + SumFunctionOnSet(L, OTokens)
  BY <1>2, <1>7, SumPlus
<1>9. SumFunctionOnSet(N, OTokens) = SumFunctionOnSet(LN, OTokens) + SumFunctionOnSet(R, OTokens)
  BY <1>2, <1>7, SumPlus
<1>10. SumFunctionOnSet(K, OTokens) = SumFunctionOnSet(H, OTokens) + SumFunctionOnSet(N, OTokens)
  BY <1>2, <1>7, SumPlus
<1>11. SumFunctionOnSet(M, OTokens) <= SumFunctionOnSet(K, OTokens)
  BY <1>2, <1>7, SumMonotonic
<1>12. SumFunctionOnSet(R, OTokens) \in Nat
  BY <1>1, <1>2, SumNat
<1>13. /\ VaultDebts(a) \in Nat /\ HolderDebts(a) \in Nat
       /\ Losses(a) \in Nat /\ tokenBalance[a][Pool] \in Nat
       /\ HolderDebts(a)' \in Nat /\ Losses(a)' \in Nat
  BY DebtSums, DebtSumsNext
<1> QED
  BY <1>3, <1>4, <1>5, <1>6, <1>8, <1>9, <1>10, <1>11, <1>12, <1>13 DEF DebtKept

(* No operation of the contracts turns a solvent pool into an insolvent     *)
(* one.                                                                     *)
LEMMA StepDebt ==
    ASSUME SettlerInv, TypeOK', LedgerInv, Step, NEW a \in Assets
    PROVE  DebtKept(a)
<1>0. /\ TypeOK /\ FundedVaults /\ VaultsCovered
      /\ UnwrittenIsZero /\ PricedExpired /\ SupplyIsWritten
  BY DEF SettlerInv, LedgerInv
<1>1. ASSUME NEW p \in AllVaults, NEW b \in Assets, NEW d \in Nat, StepDeposit(p, b, d)
      PROVE  DebtKept(a)
  BY <1>0, <1>1, StepDepositDebt
<1>2. ASSUME NEW p \in AllVaults, NEW o \in OTokens, NEW n \in Nat, NEW h \in OTokenHolders,
             StepMint(p, o, n, h)
      PROVE  DebtKept(a)
  BY <1>0, <1>2, StepMintDebt
<1>3. ASSUME NEW p \in AllVaults, NEW q \in Quotes, NEW n \in Nat, NEW d \in Nat,
             StepOrder(p, q, n, d)
      PROVE  DebtKept(a)
  BY <1>0, <1>3, StepOrderDebt
<1>4. ASSUME NEW o \in OTokens, NEW n \in Nat, NEW h \in Users, StepRedeem(o, n, h)
      PROVE  DebtKept(a)
  BY <1>0, <1>4, StepRedeemDebt DEF OTokenHolders
<1>5. ASSUME NEW o \in OTokens, NEW n \in Nat, StepRedeem(o, n, Settler)
      PROVE  DebtKept(a)
  BY <1>0, <1>5, StepRedeemDebt DEF OTokenHolders
<1>6. ASSUME NEW p \in AllVaults, StepSettle(p)
      PROVE  DebtKept(a)
  BY <1>0, <1>6, StepSettleDebt
<1>7. ASSUME NEW p \in AllVaults, StepWithdraw(p)
      PROVE  DebtKept(a)
  BY <1>0, <1>7, StepWithdrawDebt
<1> QED
  BY <1>0, <1>1, <1>2, <1>3, <1>4, <1>5, <1>6, <1>7, StepQuietDebt, StepPriceDebt DEF Step

LEMMA DebtsBackedInductive ==
    SettlerInv /\ LedgerInv /\ DebtsBacked /\ [Next]_vars => DebtsBacked'
<1> SUFFICES ASSUME SettlerInv, LedgerInv, DebtsBacked, [Next]_vars, NEW a \in Assets
             PROVE  VaultDebts(a)' + HolderDebts(a)' <= tokenBalance'[a][Pool] + Losses(a)'
  BY DEF DebtsBacked
<1>1. Step /\ SettlerInv'
  BY NextTakesStep, InvInductive
<1>2. DebtKept(a)
  BY <1>1, StepDebt DEF SettlerInv
<1>3. VaultDebts(a) + HolderDebts(a) <= tokenBalance[a][Pool] + Losses(a)
  BY DEF DebtsBacked
<1>4. /\ VaultDebts(a) \in Nat /\ HolderDebts(a) \in Nat
      /\ Losses(a) \in Nat /\ tokenBalance[a][Pool] \in Nat
      /\ VaultDebts(a)' \in Nat /\ HolderDebts(a)' \in Nat
      /\ Losses(a)' \in Nat /\ tokenBalance'[a][Pool] \in Nat
  BY <1>1, DebtSums, DebtSumsNext DEF SettlerInv
<1> QED
  BY <1>2, <1>3, <1>4 DEF DebtKept

LEMMA InitDebtsBacked == Init => DebtsBacked
<1> SUFFICES ASSUME Init, NEW a \in Assets
             PROVE  VaultDebts(a) + HolderDebts(a) <= tokenBalance[a][Pool] + Losses(a)
  BY DEF DebtsBacked
<1>1. TypeOK
  BY InitInv DEF SettlerInv
<1>2. \A p \in AllVaults : VaultDebt(p, a) = 0
  BY ControllerAssumption DEF Init, ControllerInit, AllVaults, VaultAt, IsSettled, VaultDebt, OwedToOwner, EmptyVault
<1>3. \A o \in OTokens : HolderDebt(o, a) = 0
  BY SeriesType DEF Init, ControllerInit, HolderDebt, OwedToHolders, PriceIsSet, PriceOf
<1> DEFINE f == [p \in AllVaults |-> VaultDebt(p, a)]
           g == [o \in OTokens |-> HolderDebt(o, a)]
<1>4. (\A p \in AllVaults : f[p] = 0) /\ (\A o \in OTokens : g[o] = 0)
  BY <1>2, <1>3
<1>5. IsFiniteSet(AllVaults) /\ IsFiniteSet(OTokens)
  BY FiniteSets, FiniteAssumption
<1> HIDE DEF f, g
<1>6. SumFunctionOnSet(f, AllVaults) = 0 /\ SumFunctionOnSet(g, OTokens) = 0
  BY <1>4, <1>5, SumOfZeros
<1>7. VaultDebts(a) = 0 /\ HolderDebts(a) = 0
  BY <1>6 DEF f, g, VaultDebts, HolderDebts
<1>8. Losses(a) \in Nat /\ tokenBalance[a][Pool] \in Nat
  BY <1>1, DebtSums
<1> QED
  BY <1>7, <1>8

LEMMA BackedIsSolvent == TypeOK /\ DebtsBacked => PoolSolvent
<1> SUFFICES ASSUME TypeOK, DebtsBacked, NEW a \in Assets
             PROVE  Liabilities(a) <=
                        tokenBalance[a][Pool]
                        + SumFunctionOnSet([o \in OTokens |-> RoundingLoss(o)],
                                           {o \in OTokens : Series[o].collateralAsset = a})
  BY DEF PoolSolvent
<1> DEFINE V == {p \in AllVaults : ~IsSettled(p) /\ VaultAt(p).collateralAsset = a}
           O == {o \in OTokens : Series[o].collateralAsset = a}
           f == [p \in AllVaults |-> VaultDebt(p, a)]
           g == [o \in OTokens |-> HolderDebt(o, a)]
           h == [o \in OTokens |-> Loss(o, a)]
           l == [o \in OTokens |-> IF o \in O THEN RoundingLoss(o) ELSE 0]
           ff == [p \in AllVaults |-> OwedToOwner(p)]
           gg == [o \in OTokens |-> OwedToHolders(o)]
           ll == [o \in OTokens |-> RoundingLoss(o)]
<1>1. IsFiniteSet(AllVaults) /\ IsFiniteSet(OTokens)
  BY FiniteSets, FiniteAssumption
<1>2. V \in SUBSET AllVaults /\ O \in SUBSET OTokens
  OBVIOUS
<1>3. \A p \in AllVaults : VaultDebt(p, a) \in Nat
  BY DebtTypes
<1>4. \A o \in OTokens : HolderDebt(o, a) \in Nat /\ Loss(o, a) \in Nat /\ RoundingLoss(o) \in Nat
  BY DebtTypes, RoundingTypes
<1>5. \A p \in AllVaults : f[p] = IF p \in V THEN ff[p] ELSE 0
  BY DEF VaultDebt
<1>6. \A p \in V : ff[p] \in Int
  BY <1>3 DEF VaultDebt
<1>7. \A o \in OTokens : g[o] = IF o \in O THEN gg[o] ELSE 0
  BY DEF HolderDebt
<1>8. \A o \in O : gg[o] \in Int
  <2> SUFFICES ASSUME NEW o \in O PROVE gg[o] \in Int
    OBVIOUS
  <2>1. o \in OTokens /\ g[o] = gg[o] /\ g[o] = HolderDebt(o, a)
    BY <1>7
  <2>2. HolderDebt(o, a) \in Nat
    BY <1>4, <2>1
  <2> HIDE DEF g, gg
  <2> QED
    BY <2>1, <2>2
<1>9. \A o \in OTokens : l[o] = IF o \in O THEN ll[o] ELSE 0
  OBVIOUS
<1>10. \A o \in O : ll[o] \in Int
  <2> SUFFICES ASSUME NEW o \in O PROVE ll[o] \in Int
    OBVIOUS
  <2>1. o \in OTokens /\ ll[o] = RoundingLoss(o)
    OBVIOUS
  <2>2. RoundingLoss(o) \in Nat
    BY <1>4, <2>1
  <2> HIDE DEF ll
  <2> QED
    BY <2>1, <2>2
<1>11. \A o \in OTokens : h[o] \in Int /\ l[o] \in Int /\ h[o] <= l[o]
  <2> SUFFICES ASSUME NEW o \in OTokens PROVE h[o] \in Int /\ l[o] \in Int /\ h[o] <= l[o]
    OBVIOUS
  <2>1. Loss(o, a) = 0 \/ (o \in O /\ Loss(o, a) = RoundingLoss(o))
    BY DEF Loss
  <2>2. h[o] = Loss(o, a) /\ l[o] = IF o \in O THEN RoundingLoss(o) ELSE 0
    OBVIOUS
  <2>3. RoundingLoss(o) \in Nat
    BY <1>4
  <2> HIDE DEF h, l, O
  <2> QED
    BY <2>1, <2>2, <2>3
<1>12. Liabilities(a) = SumFunctionOnSet(ff, V) + SumFunctionOnSet(gg, O)
  BY DEF Liabilities
<1>13. /\ VaultDebts(a) = SumFunctionOnSet(f, AllVaults)
       /\ HolderDebts(a) = SumFunctionOnSet(g, OTokens)
       /\ Losses(a) = SumFunctionOnSet(h, OTokens)
  BY DEF VaultDebts, HolderDebts, Losses
<1>14. SUFFICES Liabilities(a) <= tokenBalance[a][Pool] + SumFunctionOnSet(ll, O)
  OBVIOUS
<1>15. /\ VaultDebts(a) \in Nat /\ HolderDebts(a) \in Nat
       /\ Losses(a) \in Nat /\ tokenBalance[a][Pool] \in Nat
       /\ VaultDebts(a) + HolderDebts(a) <= tokenBalance[a][Pool] + Losses(a)
  BY DebtSums DEF DebtsBacked
<1>16. \A o \in OTokens : l[o] \in Nat
  BY <1>4
<1> HIDE DEF V, O, f, g, h, l, ff, gg, ll
<1>17. SumFunctionOnSet(ff, V) = SumFunctionOnSet(f, AllVaults)
  BY <1>1, <1>2, <1>5, <1>6, SumOnSubset
<1>18. SumFunctionOnSet(gg, O) = SumFunctionOnSet(g, OTokens)
  BY <1>1, <1>2, <1>7, <1>8, SumOnSubset
<1>19. SumFunctionOnSet(ll, O) = SumFunctionOnSet(l, OTokens)
  BY <1>1, <1>2, <1>9, <1>10, SumOnSubset
<1>20. SumFunctionOnSet(h, OTokens) <= SumFunctionOnSet(l, OTokens)
  BY <1>1, <1>11, SumMonotonic
<1>21. SumFunctionOnSet(l, OTokens) \in Nat
  BY <1>1, <1>16, SumNat
<1> QED
  BY <1>12, <1>13, <1>15, <1>17, <1>18, <1>19, <1>20, <1>21

(* The MarginPool can always pay what it owes: every owner of an open vault *)
(* what settleVault would return and every holder of a priced option what   *)
(* redeem would pay, but for the rounding of the vaults of one series.  The *)
(* premium, the fee, the loan and the surplus of a physical redemption never *)
(* come out of collateral (Controller, MarginPool, BatchSettler).           *)
THEOREM AlwaysSolvent == Spec => []PoolSolvent
<1>1. Init => SettlerInv /\ LedgerInv /\ DebtsBacked
  BY InitInv, InitLedgerInv, InitDebtsBacked
<1>2. SettlerInv /\ LedgerInv /\ DebtsBacked /\ [Next]_vars
          => (SettlerInv /\ LedgerInv /\ DebtsBacked)'
  BY InvInductive, LedgerInvInductive, DebtsBackedInductive
<1>3. SettlerInv /\ LedgerInv /\ DebtsBacked => PoolSolvent
  BY BackedIsSolvent DEF SettlerInv
<1> QED
  BY <1>1, <1>2, <1>3, PTL DEF Spec
=============================================================================
