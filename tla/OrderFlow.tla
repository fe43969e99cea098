------------------------------ MODULE OrderFlow ------------------------------
(***************************************************************************)
(* AcceptModal: the dialog in which a user accepts one quote.  handleAccept  *)
(* is asynchronous: it reads the chain before it disables the button, hands  *)
(* an approval and the order to the wallet, and ends when the wallet or the  *)
(* balance says so.  A price outage unmounts the dialog and mounts a new one *)
(* while the old handler is still running.                                   *)
(***************************************************************************)
EXTENDS Execution

CONSTANTS Runs,        \* runs of handleAccept, 1..n
          Amounts,     \* amounts the menu may pass
          MinAmount,   \* minBuyAmountUsd or minSellAmount
          MaxAmount,   \* maxAmount: what the quote and the market allow
          MaxMounts    \* bound: dialogs mounted one after the other

ASSUME OrderAssumption == Runs \subseteq Nat /\ Amounts \subseteq Nat /\ MaxMounts \in Nat \ {0}

VARIABLES props,      \* what the menu passes: side, amount and whether the quote is complete
          screen,     \* the parent: "menu", "modal", "accepted"
          mount,      \* which dialog is mounted, 0 before the first
          step, txHash, error, deposit,   \* its state
          connected,
          runs,       \* each run of handleAccept
          rows,       \* runs whose optimistic position is in sessionStorage
          overlapped  \* history: a run started while another was under way

modalVars == <<mount, step, txHash, error, deposit>>
orderVars == <<props, screen, modalVars, connected, runs, rows, overlapped>>

FreshRun == [pc |-> "none", mount |-> 0, approves |-> FALSE, race |-> NoRace]

\* The collateral asset of computeCollateral.
Token == IF props.side = "buy" THEN "usdc" ELSE "okb"

OrderInit ==
    /\ props = [side |-> "buy", amount |-> 0, complete |-> FALSE]
    /\ screen = "menu" /\ mount = 0 /\ connected = FALSE
    /\ step = "idle" /\ txHash = FALSE /\ error = "none" /\ deposit = "none"
    /\ runs = [r \in Runs |-> FreshRun]
    /\ rows = {} /\ overlapped = FALSE

----------------------------------------------------------------------------
(* What the dialog shows and enables.                                       *)

Loading == step # "idle"
Under(r) == runs[r].pc \notin {"none", "ended"}

\* Back and the backdrop, Accept, the link.  The menu always passes confirmOnly:
\* the amount is the menu's, and the dialog has no field for it.
Controls ==
    (IF Loading THEN {} ELSE {"back"})
    \cup (IF Loading \/ props.amount \notin MinAmount..MaxAmount THEN {} ELSE {"accept"})
    \cup (IF step = "confirmed" /\ txHash THEN {"view transaction"} ELSE {})

\* The lines it adds for an amount out of bounds, an error, or an executed order.
Notices ==
    (IF props.amount > 0 THEN {"commitment"} ELSE {})
    \cup (IF props.amount > 0 /\ props.amount < MinAmount THEN {"below minimum"} ELSE {})
    \cup (IF props.amount > MaxAmount THEN {"above maximum"} ELSE {})
    \cup (IF error # "none" THEN {error} ELSE {})
    \cup (IF step = "confirmed" THEN {"executed on X Layer"} ELSE {})

----------------------------------------------------------------------------
(* The user at the dialog.                                                  *)

\* The menu opens the dialog with its quote and amount, once in a behaviour.
OpenOrder ==
    /\ screen = "menu" /\ mount = 0
    /\ screen' = "modal" /\ mount' = 1 /\ connected' \in BOOLEAN
    /\ props' \in [side : {"buy", "sell"}, amount : Amounts, complete : BOOLEAN]
    /\ UNCHANGED <<chainVars, step, txHash, error, deposit, runs, rows, overlapped>>

\* Accept without a wallet or with a quote that is not on chain starts nothing.
AcceptRefused ==
    /\ screen = "modal" /\ "accept" \in Controls
    /\ \/ ~connected /\ deposit' = Token /\ UNCHANGED error
       \/ connected /\ ~props.complete /\ error' = "not available" /\ UNCHANGED deposit
    /\ UNCHANGED <<chainVars, props, screen, mount, step, txHash, connected,
                   runs, rows, overlapped>>

HandleAccept(r) ==
    /\ screen = "modal" /\ "accept" \in Controls /\ connected /\ props.complete
    /\ runs[r].pc = "none" /\ \A q \in Runs : q < r => runs[q].pc # "none"
    /\ runs' = [runs EXCEPT ![r] = [FreshRun EXCEPT !.pc = "read balance", !.mount = mount]]
    /\ error' = "none"
    /\ overlapped' = (overlapped \/ \E q \in Runs : Under(q))
    /\ UNCHANGED <<chainVars, props, screen, mount, step, txHash, deposit,
                   connected, rows>>

Close ==
    /\ screen = "modal" /\ "back" \in Controls /\ screen' = "menu"
    /\ UNCHANGED <<chainVars, props, modalVars, connected, runs, rows, overlapped>>

\* The deposit dialog closes when it is done or dismissed; a wallet may connect.
CloseDeposit ==
    /\ deposit # "none" /\ deposit' = "none" /\ connected' \in {connected, TRUE}
    /\ UNCHANGED <<chainVars, props, screen, mount, step, txHash, error,
                   runs, rows, overlapped>>

\* The parent shows an error instead of the dialog while prices cannot be
\* loaded, and afterwards mounts the dialog anew with the amount of the menu.
Remount ==
    /\ screen = "modal" /\ mount \in 1..MaxMounts-1
    /\ mount' = mount + 1 /\ step' = "idle" /\ txHash' = FALSE /\ error' = "none"
    /\ deposit' = "none"
    /\ UNCHANGED <<chainVars, props, screen, connected, runs, rows, overlapped>>

----------------------------------------------------------------------------
(* handleAccept, one step for each await.                                   *)

\* setState of a run whose dialog is gone does nothing.
Set(r, now, then) == IF runs[r].mount = mount /\ screen = "modal" THEN then ELSE now

Goes(r, pc) == runs' = [runs EXCEPT ![r].pc = pc]

\* A run that ends leaves the wallet's prompts behind.
Ends(r) == runs' = [runs EXCEPT ![r] =
    [FreshRun EXCEPT !.pc = "ended", !.race.asks = runs[r].race.asks]]

CatchErrorStillExecuting(r, what) ==
    /\ Ends(r) /\ error' = Set(r, error, what)
    /\ UNCHANGED <<chainVars, props, screen, mount, step, txHash, deposit, connected,
                   rows, overlapped>>

\* catch: what is said depends on how far the run had come.
CatchError(r, what) ==
    /\ Ends(r)
    /\ error' = Set(r, error, what) /\ step' = Set(r, step, "idle")
    /\ UNCHANGED <<chainVars, props, screen, mount, txHash, deposit, connected,
                   rows, overlapped>>

ReadFails(r) ==
    \/ runs[r].pc \in {"read balance", "read allowance"} /\ CatchError(r, "could not read")
    \/ runs[r].pc = "read before" /\ CatchError(r, "no funds were moved")

\* Only a sale compares the balance with the collateral.
ReadBalance(r) ==
    /\ runs[r].pc = "read balance"
    /\ IF props.side = "sell" /\ held["okb"] < props.amount
       THEN Ends(r) /\ deposit' = Set(r, deposit, "okb")
       ELSE Goes(r, "read allowance") /\ UNCHANGED deposit
    /\ UNCHANGED <<chainVars, props, screen, mount, step, txHash, error, connected,
                   rows, overlapped>>

ReadAllowance(r) ==
    /\ runs[r].pc = "read allowance"
    /\ runs' = [runs EXCEPT ![r].pc = "read before", ![r].approves = Token \notin approved]
    /\ step' = Set(r, step, "executing")
    /\ UNCHANGED <<chainVars, props, screen, mount, txHash, error, deposit, connected,
                   rows, overlapped>>

Batch(r) ==
    (IF runs[r].approves THEN <<Call("approve", Token, 0)>> ELSE <<>>)
    \o <<Call("order", Token, props.amount)>>

ReadBefore(r) ==
    /\ runs[r].pc = "read before"
    /\ runs' = [runs EXCEPT ![r].pc = "racing", ![r].race = StartRace(Batch(r), held[Token])]
    /\ UNCHANGED <<chainVars, props, screen, modalVars, connected, rows, overlapped>>

\* The wallet's prompts outlive the run they were opened by.
Sign(r) ==
    /\ runs[r].race.asks # <<>>
    /\ Submit(r, Head(runs[r].race.asks))
    /\ runs' = [runs EXCEPT ![r].race = SignedRace(@)]
    /\ UNCHANGED <<held, approved, outside, props, screen, modalVars, connected, rows, overlapped>>

Refuse(r) ==
    /\ runs[r].race.asks # <<>>
    /\ runs' = [runs EXCEPT ![r].race = RefusedRace(@)]
    /\ UNCHANGED <<chainVars, props, screen, modalVars, connected, rows, overlapped>>

Poll(r) ==
    /\ runs[r].pc = "racing" /\ runs[r].race.poll = "on"
    /\ \E race \in PolledRaces(runs[r].race, held[Token]) : runs' = [runs EXCEPT ![r].race = race]
    /\ UNCHANGED <<chainVars, props, screen, modalVars, connected, rows, overlapped>>

\* Saving the position can fail (sessionStorage full) and is not needed to go on.
\* onAccepted makes the parent show the accepted screen instead of the dialog.
Confirm(r) ==
    /\ runs[r].pc = "racing" /\ Won(runs[r].race)
    /\ Ends(r)
    /\ txHash' = Set(r, txHash, runs[r].race.fire = "hash")
    /\ step' = Set(r, step, "confirmed")
    /\ screen' = "accepted"
    /\ rows' \in {rows, rows \cup {r}}
    /\ UNCHANGED <<chainVars, props, mount, error, deposit, connected, overlapped>>

\* Promise.any rejects with an AggregateError, whose message is none of those
\* the catch looks for, whatever the two failures were.
BothFail(r) ==
    /\ runs[r].pc = "racing" /\ Lost(runs[r].race)
    /\ CatchError(r, "no funds were moved")

\* What a run does once its reads are answered, its timers fire and its promises
\* settle.
OrderProgress(r) ==
    \/ ReadFails(r) \/ ReadBalance(r) \/ ReadAllowance(r) \/ ReadBefore(r)
    \/ Poll(r) \/ Confirm(r) \/ BothFail(r)

OrderStep ==
    \/ OpenOrder \/ AcceptRefused \/ Close \/ CloseDeposit \/ Remount
    \/ \E r \in Runs : HandleAccept(r) \/ Sign(r) \/ Refuse(r) \/ OrderProgress(r)
    \/ mount > 0 /\ (Mine \/ SpendElsewhere(Token)) /\ UNCHANGED orderVars

\* Bound: in one behaviour runs overlap or another app spends, not both.
OrderNext == OrderStep /\ ~(overlapped' /\ outside' > 0)

\* The dialog by itself.
OrderSpec == AnyAccount /\ OrderInit /\ [][OrderNext]_<<chainVars, orderVars>>

----------------------------------------------------------------------------
\* Types; no balance ever falls below zero.
OrderTypeOK ==
    /\ screen \in {"modal", "menu", "accepted"} /\ mount \in 0..MaxMounts
    /\ step \in {"idle", "executing", "confirmed"} /\ txHash \in BOOLEAN
    /\ error \in {"none", "not available", "could not read", "no funds were moved"}
    /\ deposit \in {"none", "usdc", "okb"}
    /\ rows \subseteq Runs /\ held \in [Tokens -> Nat]

\* handleAccept's "No funds were moved. Please try again." invites a retry, and
\* a retry never sends a second order: two orders are sent only by runs under
\* way together, which the reads before the button is disabled make possible.
RetryNeverDoubles ==
    \A i, j \in DOMAIN sent :
        mount > 0 /\ i # j /\ sent[i].call = "order" /\ sent[j].call = "order" => overlapped

\* A position is shown before the indexer knows it only for an order that was
\* sent, unless the decrease the poll saw came from another run or another app.
RowsHaveOrders ==
    overlapped \/ outside > 0 \/ \A r \in rows : OrdersSent(r) # {}

\* The accepted screen never appears without an order on its way, however many
\* runs there are, unless another app moved the collateral.
AcceptedMeansSent ==
    screen = "accepted" /\ outside = 0 => \E i \in DOMAIN sent : sent[i].call = "order"

\* Only an unanswered prompt of the wallet keeps the dialog, which cannot be
\* closed meanwhile, executing: polls give up and failures reset it.
ExecutingEnds ==
    (screen = "modal" /\ step = "executing")
        ~> (screen # "modal" \/ step # "executing" \/ \E r \in Runs : runs[r].race.asks # <<>>)
=============================================================================
