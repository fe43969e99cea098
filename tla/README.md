# b1nary in TLA+

A verification project for the b1nary options protocol: the contracts that hold
the collateral, the bot that settles expired positions, the market maker that
hedges what it sold, and the web app through which users pick prices, sign orders
and follow their positions. TLC checks small instances of every module; TLAPS
proves the theorems listed below for all values of the constants.

To check one run: `tlc -config <run>.cfg <module>` (the table of runs names both).
To check the proofs: `tlapm <module>.tla` for the `*Proofs` modules.

## 1. The system

A user writes a fully collateralised put or call against a quote a market maker
signed off chain. `BatchSettler.executeOrder` opens a vault, deposits the
collateral, mints oTokens into the settler's custody for the market maker and
pays the premium. After expiry a price is set on the `Oracle`; bots settle the
vaults, and if the option is in the money deliver the contra asset to the user
through a flash loan paid for with the market maker's oTokens. The user does all
of this in the browser: a menu of prices, a dialog that sends the order, a dialog
that moves funds, and a page of positions.

| component | state it keeps | operations | talks to |
|---|---|---|---|
| Controller (`contracts/src/core/Controller.sol`) | vaults, `vaultSettled`, `vaultCount`, pauses | open, deposit, mint, settle, redeem, emergency withdrawal, pauses | MarginPool, OToken, Oracle, Whitelist; called by users and BatchSettler |
| BatchSettler | `quoteState`, `makerNonce`, `whitelistedMMs`, `mmOTokenBalance`, `vaultMM` | execute, cancel, settle and redeem in batches, physical delivery, self redemption | Controller, flash lender, DEX; called by users, market makers, operator |
| MarginPool | collateral, `totalDeposited`, Aave configuration | take in, pay out with aToken fallback, harvest, migrate, drain | Aave; called by the Controller and the owner |
| OToken, OTokenFactory, Whitelist | balances; series created | mint, burn, transfer; create | Controller |
| Oracle | `expiryPrice` | set once per asset and expiry | settler bot, owner |
| Expiry settler bot (`backend/src/bots/xlayer_expiry_settler.py`) | local variables of `settle_once`; `order_events` rows | a cycle of fetch, reconcile, price, settle, mark, deliver, record | contracts through operator transactions, database |
| Operator transactions (`backend/src/contracts/web3_client.py`) | local nonce | send, wait for the receipt | every bot that sends |
| Event indexer (`backend/src/bots/xlayer_event_indexer.py`) | cursor, `order_events` | poll, rescan, subscription | chain, database, WebSocket clients |
| Quote book (`backend/src/api/mm_routes.py`, `mm_ws.py`) | `mm_quotes`, connected clients | submit, cancel, list, push fills | market makers, price API |
| Circuit breaker | reference price and pause per asset | trip: nonce, quotes, reference | contracts, quote book |
| Yield accounting | positions' yield, allocations | index, harvest, allocate, distribute | MarginPool, database |
| Market maker bot (`market-maker/src`) | positions, `_seen_tx_hashes`, oToken cache, trade log; hedge at the exchange | listen, poll, add position, rebalance, expire, recover | backend, Hyperliquid |
| Order execution (`frontend/src/lib/execution.ts`, `useWallet.ts`) | the race between the wallet's answer and a balance poll | send a batch, poll, give up | wallet, chain; called by the two accept dialogs |
| Accept dialog (`AcceptModal.tsx`) | step, hash, error, deposit request; runs of `handleAccept` | accept, go on after each await, close, remount | order execution, session storage, price menu |
| Range dialog (`v2/RangeAcceptModal.tsx`) | step, hashes, error, `didSwap`; runs of its `handleAccept` | swap, wrap, lower side, upper side, group | order execution, backend, session storage |
| Funds dialog (`DepositModal.tsx`, `ConnectButton.tsx`) | tab, chosen wallet, amount, status; transfers under way | deposit, withdraw, switch, disconnect | wallets; opened by the header and the accept dialogs |
| Price menu (`v2/PriceMenuV2.tsx`, `v2/RangeEarn.tsx`, `usePrices`, `useCapacity`, `useSpot`) | polled list, side, date, picks, dialogs | poll, pick, switch, accept | price API, accept and range dialogs |
| Positions page (`app/positions/page.tsx`, `usePositions`, `useOptimisticPositions`, its cards, log and chart) | rows, pending entries, items | poll, drop what is indexed, group, sum up | session storage, backend |
| Account data, faucet button, notification banner | a hook's data per wallet; the banner's form | poll, mint, subscribe, verify, cancel | backend, wallet |
| Pricing, public API, faucet service, landing page and other pages, deployment | - | - | see section 8 |

What is hard in each, and what makes it right:

* **Contracts.** Transactions interleave freely, a vault can be reached through
  the settler or directly, the emergency exit burns oTokens of several owners'
  custody, and the same sum of money appears as vault collateral, oToken supply,
  ledger entries and pool balance. They must agree: supply with open vaults,
  ledger with custody and with fills, pool with all it owes; closed vaults and
  dead quotes must stay so; pauses must stop what they promise and no more.
* **MarginPool.** Principal, yield and losses sit in one Aave balance, while the
  owner moves between Aave pools and a payout may fall back to aTokens. The
  Controller relies on one thing only: the books fall by what the user receives.
* **Expiry settler.** A cycle is a long sequence of reads, transactions, waits and
  database updates. Any can fail, others act in between, a transaction whose
  receipt timed out may still land, the process may restart. Nobody may be
  delivered to twice, rows must not lie about what happened, every position must
  finish.
* **Market maker.** Two threads and a restart bring up the same fills. A fill must
  be tracked once, and the hedge must follow the open positions although one
  thread rebalances without the lock and reads and orders fail.
* **The dialogs that send orders.** One click is a dozen awaits. Each may fail, the
  wallet's prompt may be answered minutes later or never, a poll of the balance
  races the wallet, transactions revert, and meanwhile the dialog can be unmounted,
  clicked again or closed. A retry must not send a second order; "accepted" must
  mean an order; the upper side of a range must not be sent before its lower side, and
  a range that stopped half way must be told; only the user may keep a dialog waiting.
* **The funds dialog.** Wallets connect, switch and leave while a transfer waits for
  its signature or receipt, and its late answer finds another dialog. One transfer
  at a time, to the wallet the dialog names, and what it calls confirmed is that one.
* **Pages.** Lists are polled under the user's picks, answers overtake each other,
  wallets change while requests are under way, an order is first a pending entry and
  then a row. What is picked must be on offer, every position must be shown once,
  and the same number must be the same everywhere it is drawn.
* **Event indexer, operator nonces, quote book, breaker, yield.** Cursor jumps,
  conflicting keys, nonce gaps, writes in several requests: listed as hazards, not
  modelled (section 8).

## 2. Modules

| module | models |
|---|---|
| `OptionMath` | collateral, payout, contra amount, premium and fee, with floor division |
| `Controller` | Controller, oTokens, factory, whitelist, expiry prices; the pool is one balance |
| `BatchSettler` | EXTENDS Controller: quotes, orders, ledger, settlement, delivery, emergency withdrawal; `Spec` of all the contracts |
| `SettlerProperties` | EXTENDS BatchSettler: the properties of the contracts |
| `MarginPool` | the pool with Aave under it |
| `CollateralPool` | the abstract pool: deposits and payouts |
| `ExpirySettler` | the settler bot, its transactions, and the part of the chain it sees |
| `MarketMaker` | the market maker's two threads, tracker, hedge and restart |
| `Execution` | the account on chain, the wallet's batch and the race of `fireAndPoll` |
| `OrderFlow` | EXTENDS Execution: the accept dialog |
| `RangeFlow` | EXTENDS Execution: the range dialog |
| `Funds` | the funds dialog and its transfers |
| `PriceMenu` | the page of prices, for one side and for ranges |
| `Portfolio` | the positions page, with the backend and the session behind it |
| `Account` | what hooks fetch for the connected wallet, the faucet button, the banner |
| `App` | EXTENDS these six: a session with one part of the web app, and its fairness |
| `MC*` | instances for TLC |
| `SumProofs` | lemmas about sums over finite sets |
| `SettlerProofs`, `LedgerProofs` | theorems of the contracts: vaults and quotes; supply, ledger, pauses, solvency |
| `MarginPoolProofs`, `ExpirySettlerProofs`, `MarketMakerProofs` | theorems of these modules |
| `AcceptProofs`, `AppProofs` | theorems of the two accept dialogs; of the funds dialog, the pages and `App` |

**Contracts.** Each external function is one action, because a transaction is
atomic; each `require` or `revert` is a guard, because a reverted transaction
changes nothing. Calls the BatchSettler makes to the Controller in the same
transaction are composed from shared guards and effects (`DepositAllowed`,
`Minted`, `PaidOut`, ...). An iteration of a batch runs in its own `try`, so it
is an action. Variables keep the Solidity names. Quotes are records of the signed
fields, so equal digests are equal records. Ownership and operator rights are not
distinguished where they do not change the effect of a call. Widths of integers
are not modelled: amounts in Solidity 0.8 revert on overflow, far above what
the tokens' supply allows.

**MarginPool.** The Controller's promise is the guard: it never asks for more than
was deposited and not yet paid (`owed`). Aave is external: supply and withdrawal
may revert, yield accrues, losses happen. `aToken[a]` names the pool whose aToken
is registered. `setAToken` takes any address at any time, so a registration can be stale
after a migration or early before one; a pool with nothing in it stands for a token the
MarginPool has none of, and tokens that it has and that are no aTokens (the asset itself)
are left out. `misread` is a history variable: what harvests took from the configured pool
while the balance they looked at was another pool's.

**ExpirySettler.** The bot's local variables are variables; `pc` says which step is
next. Sends append to `mempool`, `Land` includes the oldest (the operator's
nonces are consecutive), and the bot reads the receipt's `status`. Between two
steps an owner may settle, the oracle's owner may set the price, the market
maker may redeem, or the process may restart. All positions share one expiry and
write one unit each; `ledger` is the market maker's custodied balance, so that a
second delivery for one position takes a unit another position wrote. The
constant `Allowed` names which hazards can happen in an instance.

**MarketMaker.** `pc[Main]` and `pc[Listener]` are the two threads. A fill passes
"lock" (`_handle_fill`'s checks), "add" (`add_position`) and three steps of
`rebalance_hedge`: net delta, exchange position, order. Only the steps up to the
order of a fill hold `_fill_lock`; the main loop's own rebalances do not. A
position's delta is the fill's size times the market's level, so that a move
changes what the hedge must be; sizes are whole, and differences below
`HEDGE_REBALANCE_THRESHOLD` or the exchange's rounding are not represented. `executed` is what the indexer stored; `Execute`
also announces the fill, and `Renotify` repeats it, as the rescan does. A restart
recovers from the trade log or from the newest fill, and seeds
`_seen_tx_hashes`. The failure of `get_positions` reads as no position: the
function swallows the error, and the guard meant for it looks at
`_simulated_hedge`, which live mode never writes.

**Execution, OrderFlow, RangeFlow.** Each `await` of `handleAccept` ends an action, so
that anything may happen between two of them; a run is a record with the place it
is at, and several runs may be under way because the button is disabled only after
the first reads. React state is a variable, `Set` and `Shown` are `setState` of a
dialog that may be gone. `sent` is the account's transactions in nonce order; `Mine`
lands or reverts the oldest pending one. The prompts of the wallet (`race.asks`)
outlive the run that opened them. `fireAndPoll` is a race with two sides, `fire` and
`poll`; how many attempts a poll makes and how long it waits is left out: it sees
less than before, or gives up. What a dialog shows and enables are operators
(`Controls`, `Notices`, `Stepper`, ...), and the user's actions are guarded by them, so
that a disabled button cannot be clicked. Calldata, addresses and error texts are
left out; errors are told apart where the code says different things of them.

**Funds.** A transfer is a job that goes from the prompt over sent and mined to done.
The dialog is numbered, so that the answer to a job of an earlier dialog can be told
from one of its own, and so that what the former does to the latter (a deposit that
an order dialog asked for closes whichever dialog is open) is seen. `slipped`
remembers that a dialog let go of a transfer, which the code allows in three ways:
an asset chosen from a menu that was left open resets it to idle, a disconnect that
is under way when the transfer starts ends the dialog, and the wallet itself goes
away.

**PriceMenu.** The list has one strike: a type and date have its price, none, or one
that is not shown (on the wrong side of spot or below the least APR). `Kept` is the effect
that follows a pick through the polls and from side to side: the pick stays what it was if
the strike has the same premium and date. The dialogs are drawn from the picks, so a
poll can close them while an order in one of them goes on (`ordering`); `accepted` are the
screens that follow, of which the page may owe both. The dialog for one order is
drawn whatever the side: a pick left on the side for ranges is looked for among the calls.

**Portfolio.** `filed` is where an order is, from the chain over the indexer's row to
settlement: a row is first marked as settled and only later, or never, as in the money.
`tagged` are the rows that have the tag of their group, `closedTags` the groups nobody asks
for again: the route tags what rows it finds before it counts them, so one leg may have
the tag alone, for a while or for good. `stored` is the session's pending entries; `answers`
are polls the page has not got yet, which may arrive in any order. Grouping, cards, totals, log and
chart are operators on the page's state, so that they can be compared in every
state it reaches. The order of a list is a relation (`Before`, `Sooner`, `Earlier`) and
the n-th of a list is the one with n - 1 before it, so that no list is written as a
sequence; an item of the page is the set of its positions.

**Account.** The parts share the wallet and nothing else, so a behaviour follows one
of them (`followed`). Requests carry the wallet they are for and whether the banner
that made them is still mounted.

**App.** The user has one tab with one part of the app in use: `part` says
which, a behaviour takes its steps only and the other five modules stay in their initial
states. What one
part sees of another is in its own module, as the price menu's `ordering` and
`accepted` for the dialogs.

The modules meet where the code does: `BatchSettler` extends `Controller`;
`MarginPool` refines `CollateralPool`, which states what the single pool balance of
`Controller` assumes; `ExpirySettler` keeps from the contracts what
`batchSettleVaults`, `setExpiryPrice` and `physicalRedeem` do to settled vaults,
price and ledger.

## 3. Runs

| run | instance | shows |
|---|---|---|
| `contracts_positions` | a put whose payout rounds and a call, writer with two vaults, one market maker, prices on both sides of the strike, paid premium and fee, time past the escape delay | the pool can pay everything up to rounding, the settler keeps no token, a full pause lets only collateral out |
| `contracts_direct` | the writer also calls the Controller itself, transfers and redeems oTokens | vaults stay covered and closed, supply equals what open vaults wrote, the settler holds what the ledgers say, also with unattributed vaults |
| `contracts_makers` | two market makers, three quotes, nonces, removal and readmission, emergency exits | ledgers equal fills, dead quotes stay dead, a partial pause stops growth |
| `pool_books` (`MCMarginPool`) | two assets, two Aave pools, yield and loss, any aToken registered at any time | principal stays at Aave, payouts are full but for the cases named, books follow `CollateralPool` |
| `bot_rows` | every hazard | rows tell the truth about deliveries and moneyness |
| `bot_recovers` | two restarts, failed updates, owners and market maker acting first | nobody is delivered to twice, every position ends settled, the queue drains |
| `bot_settled_rows` | failing calls | finding 1 |
| `bot_restart` | one restart | finding 2 |
| `mm_hedge` | every hazard of the market maker once | a fill is tracked once, the hedge follows open positions |
| `mm_lost_fill` | nothing fails | finding 3 |
| `app_parts` | two orders or ranges with failures, retries and remounts; two transfers and two wallets; a menu of three quotes that come and go; three positions, two of them with crossed strikes, from order to settlement; an account's feeds and banner | the safety of the web app: orders and retries, ranges, transfers, picks, positions and their numbers, notifications |
| `app_ends` | one of each, fair | no dialog waits for anything but the user, indexed positions are shown, balances become the wallet's |

**Bounds.** Two vaults of one writer are the least where one vault's money can pay
for another, and where floors of payouts do not add up; a second market maker is
the least where a ledger can be charged for another's position. Amounts 1 and 2
with a put divisor of 2 give exact and floored payouts, and deposits both below
and at the required collateral. Two Aave pools are what a migration and a wrong aToken need; `MaxYield` bounds the yield of
all assets at all pools together, and assets and pools are symmetric. Two
positions in one batch give a batch that fails in part; one batch per vault
gives two batches of which one fails. Two retries distinguish first, repeated and
last attempt. Two fills, one poll of two, one failure and one restart are what a
race of the two threads, a wrong read and a recovery need; a failure that comes
back again and again is left to the reader. `PutDivisor` and `PriceUnit` are small
stand-ins for powers of ten: only that division floors matters.

In the web app two runs of a dialog are the least where one retries after, or beside,
another; `MaxSent` of 3 lets an approval and two orders, or a swap and two legs, be
signed; `MaxOutside` is one spending in another app, beside the accept dialog only and in behaviours where runs do not
overlap (`OrderNext` says so): either alone is what deceives the poll. Runs of the
range dialog do not overlap in the instance (`MayOverlap`): what comes of that is the
same as in the accept dialog. Two mounts, two dialogs and two wallets are the least
where a late answer finds the wrong one. `MaySlip` ends a behaviour of the funds dialog
once it has let go of a transfer, as its properties say nothing from there on.
`MCRangeAndPut` has the two sides of a range and a third order near both, which
guessing by time may take for a leg; it is an order to buy above the strike of the upper
side, so that with it the strikes of a pair are crossed. Spot prices lie on strikes and
between them. `MCQuotes` has two dates to buy at, so that a pick can be replaced by one of
another date and premium, and a date at which both sides of a range can be picked. The
price menu has one order of each dialog under way. One answer of the positions API is
under way at a time in `app_parts`, two in `app_ends`, where their order matters.
`MaxRequests` lets two different requests of the banner be under way. `part` keeps a
session to one part of the app; `StartingWith`, `BareAccount` and `FirstBalances` say that
balances vary where orders are sent, and the wallets' emails where the banner is followed.
The wallets are symmetric in `app_parts`; `app_ends` has liveness and no symmetry.

The contracts' runs stop when the time bound and all balances are used up; TLC
finds no deadlock because pauses can always be toggled. The bot's runs set
`CHECK_DEADLOCK FALSE`: once every row is settled the bot has nothing to fetch and
the model stops. So do the web app's: a session ends when its runs, dialogs and
requests are used up.

## 4. Fairness

* Contracts and pool: none. Anybody may call at any time, and nobody must.
* `ExpirySettler`: weak fairness of the bot's steps (its loop catches every
  exception) and of `Land` (the chain goes on). Strong fairness of the steps that
  may fail and are retried each cycle: a price, a batch, a reconciliation and a
  mark that are tried for ever succeed once. `[]<>(pc = "idle" /\ mempool = <<>>)`
  says the pause between cycles (`settlement_sweep_interval`, 300 s by default) is
  long enough for what was sent to land now and then.
* `MarketMaker`: weak fairness of each thread, whose loops never end, and strong
  fairness of taking the lock: every holder gives it back, and a thread that waits
  is not passed over for ever. Failures, moves and restarts are bounded, so
  liveness speaks of what happens after the last.
* `App` (`AppFairness`): weak fairness of `Mine` (the chain goes on), of each run of a
  dialog and of each transfer (reads are answered or fail, timers fire and promises
  settle, so that every continuation is called in the end) and of the polls, whose
  intervals run as long as the page is there. Strong fairness of the answers: a hook
  that asks again and again is answered in the end, though an answer can be made moot
  by the wallet leaving or fail any number of times. Nothing is assumed of the user:
  nobody must click, sign or refuse, and the liveness properties make an exception of
  an open prompt.

## 5. Properties worth a comment

* `PoolSolvent` is stated up to one unit per further vault whose payout was
  floored: `settleVault` floors per vault, `redeem` once per redemption, and the
  owners together can be returned a unit more than the holders leave.
* `LedgerCustody` and `LedgerMatchesFills` carry the term for closed vaults with
  no market maker, or of this one: without it they fail. The audit map says of its
  pair P11 that it is in sync, but an emergency withdrawal of a vault without a market
  maker burns the settler's oTokens after checking only the aggregate balance, and
  clears no ledger.
* `DeliveredAtMostOnce` is checked without receipt timeouts. With them the code
  does deliver twice if the ledger holds another position's oTokens: the retry
  after a timeout does not ask whether the first transaction landed.
* `HedgeFollowsPositions` speaks of open positions only. After the last expiry the
  hedge is closed once, in the cycle that sees it; if that order fails nothing
  tries again.
* `RetryNeverDoubles` and `RowsHaveOrders` make an exception of runs that overlap: two
  clicks before the first reads are answered do send two orders, and the poll of one
  run takes the other's order, or another app's spending, for its own.
  `AcceptedMeansSent` holds with overlap too.
* `Backed` is about where the principal is. It is at Aave up to Aave's losses, and at the
  configured pool up to `misread`: with another pool's aToken registered, `harvestYield` takes
  that pool's balance for yield and withdraws it from the configured one, principal
  included. What it takes is no more than the other pool holds, so that the sum is still
  backed. `PaidInFull` names the same case: the next payout may then come short.
* `RangesAreWhole` is about what is sent: no more upper sides than lower sides before them, over
  the whole account and not per run, as the poll of a retry may take the lower side of an earlier
  run for its own and go on to the upper side. What is sent need not land. The dialog goes on
  with a hash and no receipt, so the lower side may revert after the upper side was started,
  which then lands alone. `PartialIsTrue` says "sent" too: a lower side that is told as completed
  may be one that reverted.
* `PicksAreListed` compares premium and date, and the type on the sides that have one. On
  the side for ranges a pick of an earlier side may be left: it is followed among the calls,
  and kept as it is when these have its premium.
* `RangeEnds` makes an exception of a receipt that comes too late: the catch leaves the
  step as it is, and the dialog, busy, can be neither closed nor retried.
* `OneTransferAtATime`, `ConfirmedIsTheNewest` and `NamedWalletReceives` speak of the
  time before a dialog lets go of a transfer (`slipped`); afterwards they are false.
* `OnOnlyIfConfirmed` asks for a confirmed address of some wallet of the session: that it
  is the connected one's is false, as the banner keeps its state when the wallet changes.
* `EachPositionOnce`, `RangesStayTogether`: positions without a tag are paired by time,
  so a third order may sit in a leg's place until both rows have the tag. `RangesStayTogether`
  speaks of such rows only. If the dialog asks while one row is indexed, that row has the tag
  alone, the next answer is 404 and nobody asks again: this pair is drawn as two
  positions, or one of its legs with a third order, for good.
* `PageAgrees` joins what compares two places of the page: totals and cards
  (`SummaryIsOnCards`), chart and totals (`ChartEndsAtTotal`), cards and
  settlement (`NowIsOutcome`), log, chart and settlement (`LogIsOutcome`). A card never names
  a side that would not be exercised. If the strikes of a pair are crossed it may name one of
  two, as `NowIsOutcome` allows for. The log is only held to what it calls assigned: a
  settled row that does not say whether it was in the money is shown as one that was not.
* `IndexedIsShown` allows an older answer to hide a row again for a while: nothing in
  `usePositions` orders the answers.

## 6. Proofs

| theorem | property | argument |
|---|---|---|
| `SettlerProofs!TypeCorrect`, `AlwaysCovered` | `TypeOK`, `VaultsCovered` | `SettlerInv` below |
| `SettlerProofs!ClosedForGood` | `ClosedVaultsFrozen` | each write of a vault is guarded by `IsOpen`, or goes to an identifier above `vaultCount` that was never settled |
| `SettlerProofs!DeadForGood` | `DeadQuotesStayDead` | `filled` grows only under `QuoteLive`; nonces never fall |
| `SettlerProofs!PayoutWithinCollateral` | - | at any price a payout is at most the required collateral |
| `LedgerProofs!SupplyConserved`, `LedgerConserved`, `CustodyHeld`, `SettlerIsEmpty` | `SupplyMatchesVaults`, `LedgerMatchesFills`, `LedgerCustody`, `SettlerKeepsNothing` | `LedgerInv` below |
| `LedgerProofs!AlwaysSolvent` | `PoolSolvent` | `DebtsBacked` below |
| `LedgerProofs!PartialPauseHolds`, `FullPauseHolds` | `PartialPauseBlocksGrowth`, `FullPauseOnlyWithdraws` | the kinds of step (`Step*`) and what each does to the sums |
| `SumProofs!SumByClass`, `FloorOfSum` | - | induction over the set |
| `MarginPoolProofs!TypeCorrect`, `PrincipalBacked` | `TypeOK`, `Backed` | `PoolInv` below |
| `MarginPoolProofs!PayoutsInFull` | `PaidInFull` | a fallback is capped by the registered aToken's balance, which `AtPool` bounds from below |
| `MarginPoolProofs!Refinement` | `ImplementsPool` | every step is a deposit, a payout or a stutter of `CollateralPool` |
| `ExpirySettlerProofs!TypeCorrect` | `TypeOK` | every step |
| `ExpirySettlerProofs!PhysicalIsDelivered`, `MoneynessIsTold` | `PhysicalMeansDelivered`, `RowsTellMoneyness` | `RowsInv` below |
| `ExpirySettlerProofs!NeverDeliveredTwice` | `DeliveredAtMostOnce` | `OnceInv` below, if receipts arrive and calls do not fail (`Sure`) |
| `MarketMakerProofs!NeverTwice` | `TrackedOnce` | `TrackInv` below |
| `AcceptProofs!OrderTypeCorrect`, `RetryIsSafe`, `AcceptedIsSent`, `RowsAreOrdered` | `OrderTypeOK`, `RetryNeverDoubles`, `AcceptedMeansSent`, `RowsHaveOrders` | `OrderInv` below |
| `AcceptProofs!RangeTypeCorrect`, `WholeRanges`, `PartialTold` | `RangeTypeOK`, `RangesAreWhole`, `PartialIsTrue` | `RangeInv` below |
| `AppProofs!FundsTypeCorrect`, `OneTransfer`, `NewestConfirmed`, `NamedReceives` | `FundsTypeOK`, `OneTransferAtATime`, `ConfirmedIsTheNewest`, `NamedWalletReceives` | `FundsInv` below |
| `AppProofs!MenuTypeCorrect`, `PicksListed` | `MenuTypeOK`, `PicksAreListed` | `MenuInv` below |
| `AppProofs!AccountTypeCorrect`, `StatusCurrent`, `OnOnlyConfirmed`, `DisabledAwaits` | `AccountTypeOK`, `StatusIsCurrent`, `OnOnlyIfConfirmed`, `SubmittingAwaits` | `AccountInv` below |
| `AppProofs!PositionsShownOnce`, `RangesTogether` | `EachPositionOnce`, `RangesStayTogether` | the items divide the list |
| `AppProofs!PageTells` | `PageAgrees` | sums item by item, below |
| `AppProofs!AppTypeCorrect`, `DialogsKeepTheirPromises`, `PagesKeepTheirPromises` | `AppTypeOK` and the above, of `AppSpec` | `AppInv` below |
| `AppProofs!PartsOfSession` | - | a step of `App` is a step or a stutter of each part |

* `SettlerInv == TypeOK /\ FundedVaults /\ VaultsCovered`. Types alone are not
  inductive: settlement subtracts a payout from the vault's collateral and pays in
  its collateral asset, so that the result is a natural number of a real asset
  needs the vault to be covered, and a vault that only holds collateral needs
  `FundedVaults`. That covering survives a step is `VaultWrites`: the only writes
  deposit, or mint under `MintAllowed`.
* `LedgerInv` is about sums over vaults, holders, market makers and quotes. What moves one
  of them moves at most one summand of each, so every action of `Next` is first shown to be
  one of nine kinds of step (`StepOrder`, `StepRedeem`, ...), each stated by its effect on
  balances, ledger, fills and one vault; then each kind is shown to keep the books
  (`BooksKept`): before the price supply less open shorts, and fills less ledger and closed
  shorts, stay what they are; custody against the ledger never falls. The properties speak of
  options that have not expired, which is not inductive, as redemption starts with the price:
  hence `SupplyIsWritten` and `FillsAreHeld` say the same of options without a price, and
  `PricedExpired` closes the gap. `UnwrittenIsZero` says that a vault that is yet to write
  its first option has no short amount to carry over.
* `DebtsBacked`: in each asset what all vaults would return and all holders would redeem is at
  most the pool and the rounding of the options that are priced. Deposit, mint and
  withdrawal move both sides alike; when an option is priced, the collateral of its vaults,
  until then owed in full to their owners, is split anew, which is where `SumByClass`
  (debts by the option written) and `FloorOfSum` (payouts floored one by one against the
  payout of the whole) are needed, and `PayoutWithinCollateral`: a vault covers the payout
  of what it wrote.
* `PoolInv` is `TypeOK` and, per asset: an asset never enabled has nothing at any Aave pool
  (`Untracked`), so the drain check of `setAavePool`, which looks at
  assets that were ever enabled, misses no principal on the books; no configured pool means nothing
  was enabled (`Configured`); principal on the books is at the configured pool up to losses and
  what was misread (`AtPool`), and at all pools together up to losses alone (`Somewhere`). The
  last is where a wrong aToken is harmless: a harvest by it takes from the configured pool
  what another pool holds (`AtTwoPools`), and a fallback takes off the books what it pays.
* `RowsInv`: rows get a moneyness and a delivery in phase 2 only, and there the bot's two
  lists are the sides of the price (`SidesAreRight`), it works on the list it should
  (`WorksOnSides`), and the receipt it reads is that of the delivery it sent, because
  nothing of the operator's is sent after it (`AwaitsDelivery`). Prices and deliveries
  only go forward.
* `OnceInv`: a vault a delivery was sent or given up for is settled (`Once`), so that
  reconciliation keeps it out of every later phase 2, and what phase 1 settles is fresh
  (`SettlesFresh`). A batch that is confirmed did settle its vaults, as a price was set
  before it was sent: this is what fails with `rpc` (finding 1). Within phase 2 a retry
  follows a receipt that says the last try did nothing (`DeliversFresh`): this is what
  fails with `receipt`.
* `TrackInv` is `TrackedOnce` and: a thread in `add_position` holds `_fill_lock`
  and its fill is not known (`Adding`). That is what the check of `_handle_fill`
  leaves, and what no step of the other thread or the main loop undoes; an expiry
  moves positions from open to closed and keeps their number.
* `OrderInv`: while runs do not overlap there is at most one order, sent or still to
  come (`OneOrder`). A run may send one while it reads and while the wallet has a
  prompt of it open (`MaySend`), and as long as there is such a run or an order, the
  dialog is away or a run keeps its button disabled (`Holding`): so a click that starts
  a run finds no order, and no retry adds to one. The wallet asks for the order last
  (`AsksInOrder`), so that the prompts left open after a confirmation can send nothing.
  `NothingMoved` carries `AcceptedMeansSent`, with overlap too: without orders and
  other apps every poll compares the balance with itself. `OwnOrders` carries
  `RowsHaveOrders`: while a run is under way, or can be, every order is its own, so what its
  poll sees is its own order. `Untouched` says that nothing happens before the dialog is
  first opened.
* `RangeInv`, while runs do not overlap: there is at most one upper side, sent or still to
  come, and nothing follows it (`OneUpperSide`), and a lower side is sent before it
  (`PutGoesFirst`), because until then no poll of the lower side's race can see less than
  there was (`PollsSeePuts`). For that nothing else may move USDC or be mined late: a swap
  that is on its way holds up its run, or, when its receipt came too late, the dialog, which
  stays busy for good (`SwapHoldsUp`): the flaw that `RangeEnds` makes an exception of is
  what keeps a retry from mistaking a swap for a lower side. `StepTold` says that the stepper shows
  where the run is, hence that what was said of a partial range is true.
  `GroupsHaveOrders` counts on hashes being those of their leg (`HashesAreOrders`).
* `FundsInv` says of the time before a dialog lets go of a transfer: a transfer under
  way belongs to the dialog that is shown, which is pending and still has the tab and
  the wallet it was started with (`Attended`); a pending dialog has such a transfer, and
  one that is done shows the newest (`Told`).
* `MenuInv` keeps `PicksAreListed` on every screen, not only on the menu's, because a pick
  survives an outage behind the error and an accepted range behind its screen (`PicksKept`);
  RangeEarn's picks are none while its side is not chosen (`RangeMounted`). After the effect
  a pick has the premium and date of a card on any side (`KeptLooks`), and is that card when it
  was of its type (`KeptListed`).
* `AccountInv` adds to the properties that a request exists only for the part that is
  followed (`OthersIdle`), that a status that is asked for has a wallet and that
  whatever is on, in the backend, a status or the banner, has been confirmed
  (`OnIsConfirmed`).
* `PortfolioInv` is the types, what the tags need (they are on rows, and 0 is no group), and
  that what the page and any answer on its way call assigned was in the money
  (`GoodAnswer`, `BackendIsRight`). A pending entry has no row the page knows: the step that
  brings the row drops it, as a row matches its own entry (`RowsMatch`). All else is about
  one state: the groups, the guessed pairs and the single legs divide a list
  (`ItemsDivide`), because each turn of the pairing takes a position and its partner out of
  what is left; the recursion is shown to be defined by the same. A row's group is whole,
  as its legs are the only ones with the tag, so no pair can have a leg of it. A sum over the list
  is the sum over the items of their sums (`SumOfItems`), which gives the totals from the
  cards; the last point of the chart is the one no position comes after, hence the total.
* `FlowInv`, in `AppInv`: a session uses one of the dialogs that move funds, and the others are
  as at the start; in a session with neither of the two that send orders nothing was sent
  (`FreshAccount`). With the other parts untouched, each step of the session is one of the
  part in use.

The dialogs' and pages' invariants are proved of each module's own specification
(`OrderSpec`, `RangeSpec`, `FundsSpec`, `MenuSpec`, `PortfolioSpec`, `AccountSpec`), the
first two from any balances, and then of `AppSpec`.

The assumptions are the named `ASSUME`s of the modules, evaluated by every run: constants
have their types; the contracts' addresses differ; users, oTokens and quotes are finitely many
(`FiniteAssumption`, without which a total supply means nothing); no wallet is called
"none"; there are finitely many Aave pools (`MarginPoolAssumption`); a quote may be missing; rows have distinct identifiers, natural numbers for amounts,
and a tag is put on one order of each side, as `group_positions` and the range dialog do
(`PlaceableAssumption`); a session starts with natural balances (`AppAssumption`).

Sums and pairings are recursive functions over sets. Their lemmas are proved by
`StrictSubsetInduction` and `SetInduction` (`SumProofs`), which state induction with
the set of those the claim holds of, and so take no operator as a parameter.

**Only model-checked.** Liveness, which needs `ENABLED` and fairness: `ExecutingEnds`,
`RangeEnds`, `TransferEnds`, `IndexedIsShown`, `BalancesCatchUp`, `EveryPositionFinishes`,
`QueueDrains`, `HedgeFollowsPositions`. Every other property of a passing run is a theorem,
for all values of the constants, so for any number of users, vaults, fills, orders and dialogs.
The bounds of the runs are in the theorems too (`MaxTime`, `MaxCrashes`, `MaxAnswers`, ...),
as constants of any value. The three findings are counterexamples and there is nothing to prove.

## 7. Findings

1. `bot_settled_rows`: `batchSettleVaults` succeeds although vaults in it fail, so
   after a failed price transaction a confirmed batch is marked as settled with no
   vault settled.
2. `bot_restart`: a restart between the phases leaves positions in the money
   undelivered: the rows are settled, and only rows not settled are fetched.
3. `mm_lost_fill`: a fill handled after the market data arrived and before the
   oTokens are cached is not tracked, yet marked as seen, so no poll retries it.

Met while modelling, visible in the modules, without a run of their own:

* An emergency withdrawal clears no ledger (section 5, on `LedgerCustody`).
* Two clicks on Accept before the first reads are answered send two orders. "No funds
  were moved. Please try again." is also said while a prompt is open or an order is on
  its way whose poll gave up; what saves the retry is that the button was disabled.
* A range dialog whose swap or wrap is not mined within the wait for its receipt stays
  busy for good. After a swap of the same run a failure of the lower side says that no
  funds were moved, because `didSwap` is that of the click. A browser may word the failure
  of both sides of a race so that the dialog says "Transaction cancelled." with the lower
  side done.
* A lower side may revert after its upper side was started on its hash: the range ends
  as a lone upper side, and the dialog says that both were accepted.
* `setAToken` does not compare the aToken with the configured pool, nor does the drain check. With
  another pool's aToken registered, a migration may leave aTokens behind and a harvest may take
  principal from the configured pool (section 5, on `Backed`).
* A pick left on the side for ranges opens the dialog for one order there, with the side "range",
  which the dialog treats as a sale.
* A partial tag is kept although the route answers 409, and the dialog's next attempt gets 404 and
  gives up. A settled row whose moneyness was never written is shown as expired.
* The accept button remembers a click made before anything was picked, and the dialog
  opens once something is.
* A pending position is hidden by any older row of the same oToken.
* "Notifications on" is what Cancel shows after an email was changed and not confirmed.
  "Turn off" always fails: the route wants other parameters than the page sends.

## 8. Not modelled, and why

* **Formulas in floating point and price feeds** (pricing, quoting, capacity, yields and
  APRs of the pages), for which TLA+ has no numbers. Whether what they give is shown,
  missing or stale is modelled.
* **Pages that keep no state another part reads**: landing page, try page, leaderboard,
  the guided tour, yield cards, drawers, and all drawing, text and animation. Of the
  chart the points are modelled, its scale, labels, tooltip and curve are not; nor are the cards
  for settled positions, which the page draws nowhere: it has the log for them.
* **The event indexer, operator nonces, quote book, circuit breaker and yield
  accounting.** Their hazards are listed; `MarketMaker` has of the indexer what reaches
  the market maker, and `ExpirySettler` assumes of the nonces that transactions land in the
  order they were sent.
* **Routes that only read and format, e-mail, rate limits, the faucet service, deployment
  and upgrade scripts, the bot runner, the AddressBook and ownership transfer**: pure input
  and output, or done once before the system starts.
* In the contracts: `Oracle`'s deviation and staleness checks (the set `Prices` is what
  passes them), ERC-20 allowances (assumed to be given, as without them a call reverts),
  slippage of the swap (`SwapCosts` is what it may ask for).
* In the web app: calldata, the switch of the wallet's chain, which token a transfer moves,
  how long anything takes, the amount field of the accept dialog (the menu always passes
  `confirmOnly`), the identifiers and signatures behind an unchanged premium, and two parts
  of the app at the same time except where one opens the other.

## 9. What could be added next

1. `EventIndexer`: cursor, confirmation depth, block range, rescan and subscription
   against a growing chain. Wanted: every order ends in a row; redelivered events change
   nothing; a row says delivered only for its own vault.
2. `OperatorNonce`: local and pending nonce, forced replacement, dropped transactions, two
   bots sending. Wanted: two transactions share a nonce only if one replaces the other.
   `ExpirySettler` assumes the order it gives.
3. `QuoteBook` with the circuit breaker. Wanted: at most one active quote per oToken and
   market maker, a trip is completed.
4. `YieldAirdrop`. Wanted: allocations add up to what was harvested, nobody is paid twice.
5. Composition: `ExpirySettler` over `BatchSettler`'s actions for one series; the session's
   pending positions of `Portfolio` written by `OrderFlow` and `RangeFlow`.
6. Proofs: that fills that were seen and are not yet tracked, and the trade log, agree
   with the market maker's positions; that `Controller`'s pool balance is the sum that
   `CollateralPool` keeps.
