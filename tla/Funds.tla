-------------------------------- MODULE Funds --------------------------------
(***************************************************************************)
(* DepositModal: moving tokens between the trading account, which is the     *)
(* first connected wallet, and the wallet chosen in the dialog.  Which token *)
(* is data.  The wallet can be switched while the dialog is open, the     *)
(* dialog goes away when the wallet is disconnected, and a transfer is two   *)
(* awaits: the user's signature and the receipt.                             *)
(***************************************************************************)
EXTENDS Naturals, FiniteSets

CONSTANTS External,    \* wallets the user may connect
          Jobs,        \* runs of handleDeposit and handleWithdraw, 1..n
          MaxDialogs,  \* bound: dialogs mounted one after the other
          MaySlip      \* bound: whether to go on once a dialog let go of a transfer

ASSUME FundsAssumption == "none" \notin External /\ Jobs \subseteq Nat /\ MaxDialogs \in Nat

VARIABLES wallet,      \* the connected wallet, or "none"
          opened,      \* the parent's showDeposit: "no", "header", "flow"
          dialog,      \* which dialog is mounted
          tab, chosen, amount, status, fundsError, assetMenu,  \* its state
          leaving,     \* dialogs whose disconnect is under way
          jobs,        \* each run
          slipped      \* history: the dialog let go of a transfer under way

dialogState == <<tab, chosen, amount, status, fundsError, assetMenu>>
fundsVars == <<wallet, opened, dialog, dialogState, leaving, jobs, slipped>>

FreshJob == [pc |-> "none", kind |-> "deposit", to |-> "none", dialog |-> 0, flow |-> FALSE]

FundsInit ==
    /\ wallet = "none" /\ opened = "no" /\ dialog = 0
    /\ tab = "deposit" /\ chosen = "none" /\ amount = ""
    /\ status = "idle" /\ fundsError = "none" /\ assetMenu = FALSE
    /\ leaving = {} /\ jobs = [j \in Jobs |-> FreshJob] /\ slipped = FALSE

----------------------------------------------------------------------------
(* What is shown and enabled.                                               *)

\* The header's dialog is only rendered while a wallet is connected.
Showing == opened = "flow" \/ (opened = "header" /\ wallet # "none")

Connected == wallet # "none"

Pending == status = "pending"

\* Everything that is for the chosen wallet only is shown once there is one, and
\* an asset menu that was opened before a transfer keeps its items enabled.
FundsControls ==
    IF ~Showing THEN {}
    ELSE (IF Pending THEN {} ELSE {"close", "tabs", "disconnect"})
         \cup (IF Connected /\ ~Pending THEN {"wallet"} ELSE {})
         \cup (IF ~Connected \/ ~Pending THEN {"connect another"} ELSE {})
         \cup IF chosen = "none" THEN {}
              ELSE (IF status = "idle" THEN {"amount", "menu", "max"} ELSE {})
                   \cup (IF status = "idle" /\ amount # "" THEN {"submit"} ELSE {})
                   \cup (IF status = "done" THEN {"done: close"} ELSE {})
                   \cup (IF assetMenu THEN {"asset"} ELSE {})

\* What the panel says of a transfer that is done.
Panel == IF Showing /\ chosen # "none" /\ status = "done"
         THEN {IF tab = "deposit" THEN "Deposit confirmed." ELSE "Withdrawal confirmed."}
         ELSE {}

UnderWay == {j \in Jobs : jobs[j].pc \in {"prompt", "sent", "mined"}}

----------------------------------------------------------------------------
(* The wallet.                                                              *)

Cleared ==
    /\ tab' = "deposit" /\ amount' = "" /\ status' = "idle" /\ fundsError' = "none"
    /\ assetMenu' = FALSE

\* A new dialog starts from its defaults; the effect chooses the first wallet.
Mounted(w) == dialog < MaxDialogs /\ dialog' = dialog + 1 /\ Cleared /\ chosen' = w

\* A dialog that goes away loses its state, not what it has started.
Unmounted ==
    /\ Cleared /\ chosen' = "none" /\ UNCHANGED dialog
    /\ slipped' = (slipped \/ UnderWay # {})

\* Connecting, switching accounts and disconnecting happen in the wallet too.  A
\* chosen wallet stays chosen; the header's dialog is unmounted or mounted anew.
SwitchWallet(w) ==
    /\ w # wallet /\ wallet' = w
    /\ CASE opened = "header" /\ wallet = "none" -> Mounted(w) /\ UNCHANGED slipped
         [] opened = "header" /\ w = "none" -> Unmounted
         [] OTHER -> /\ chosen' = IF opened = "flow" /\ chosen = "none" THEN w ELSE chosen
                     /\ UNCHANGED <<dialog, tab, amount, status, fundsError, assetMenu, slipped>>
    /\ UNCHANGED <<opened, leaving, jobs>>

\* The header opens the dialog from its balances, an accept dialog when it lacks
\* collateral or a wallet.
OpenFunds(by) ==
    /\ opened = "no" /\ (by = "header" => Connected)
    /\ opened' = by /\ Mounted(wallet)
    /\ UNCHANGED <<wallet, leaving, jobs, slipped>>

----------------------------------------------------------------------------
(* The user at the dialog.                                                  *)

CloseFunds ==
    /\ FundsControls \cap {"close", "done: close"} # {}
    /\ opened' = "no" /\ Unmounted
    /\ UNCHANGED <<wallet, leaving, jobs>>

\* Disconnect revokes the permissions and logs out, which can fail, and then
\* closes the dialog, whatever was started in it meanwhile.
Disconnect ==
    /\ "disconnect" \in FundsControls /\ dialog \notin leaving
    /\ leaving' = leaving \cup {dialog}
    /\ UNCHANGED <<wallet, opened, dialog, dialogState, jobs, slipped>>

Disconnected(d) ==
    /\ d \in leaving /\ leaving' = leaving \ {d}
    /\ wallet' \in {wallet, "none"} /\ opened' = "no" /\ Unmounted
    /\ UNCHANGED jobs

ResetAmount == amount' = "" /\ fundsError' = "none" /\ UNCHANGED status
Reset == amount' = "" /\ fundsError' = "none" /\ status' = "idle"

ChooseTab(t) ==
    /\ "tabs" \in FundsControls /\ tab' = t /\ Reset
    /\ UNCHANGED <<wallet, opened, dialog, chosen, assetMenu, leaving, jobs, slipped>>

\* Only the connected wallet is listed.
ChooseWallet ==
    /\ "wallet" \in FundsControls /\ chosen' = wallet /\ Reset
    /\ UNCHANGED <<wallet, opened, dialog, tab, assetMenu, leaving, jobs, slipped>>

ToggleAssetMenu ==
    /\ "menu" \in FundsControls /\ assetMenu' = ~assetMenu
    /\ UNCHANGED <<wallet, opened, dialog, tab, chosen, amount, status, fundsError, leaving,
                   jobs, slipped>>

ChooseToken ==
    /\ "asset" \in FundsControls /\ Reset /\ assetMenu' = FALSE
    /\ slipped' = (slipped \/ UnderWay # {})
    /\ UNCHANGED <<wallet, opened, dialog, tab, chosen, leaving, jobs>>

\* Max fills in the balance when there is one.
TypeAmount(a) ==
    /\ "amount" \in FundsControls \/ ("max" \in FundsControls /\ a = "some")
    /\ amount' = a
    /\ UNCHANGED <<wallet, opened, dialog, tab, chosen, status, fundsError, assetMenu,
                   leaving, jobs, slipped>>

----------------------------------------------------------------------------
(* handleDeposit and handleWithdraw.                                        *)

\* parseAmount compares with the balance last read, which can be out of date or
\* another wallet's: an amount that is there may be refused and the reverse.
SubmitRefused ==
    /\ "submit" \in FundsControls
    /\ fundsError' = IF Connected THEN "not this amount" ELSE "not ready"
    /\ UNCHANGED <<wallet, opened, dialog, tab, chosen, amount, status, assetMenu, leaving,
                   jobs, slipped>>

StartedStillIdle(j, kind, to) ==
    /\ "submit" \in FundsControls /\ Connected
    /\ jobs[j].pc = "none" /\ \A i \in Jobs : i < j => jobs[i].pc # "none"
    /\ jobs' = [jobs EXCEPT ![j] = [pc |-> "prompt", kind |-> kind, to |-> to, dialog |-> dialog,
                                    flow |-> opened = "flow"]]
    /\ fundsError' = "none"
    /\ UNCHANGED <<wallet, opened, dialog, tab, chosen, amount, status, assetMenu, leaving, slipped>>

Started(j, kind, to) ==
    /\ "submit" \in FundsControls /\ Connected
    /\ jobs[j].pc = "none" /\ \A i \in Jobs : i < j => jobs[i].pc # "none"
    /\ jobs' = [jobs EXCEPT ![j] = [pc |-> "prompt", kind |-> kind, to |-> to, dialog |-> dialog,
                                    flow |-> opened = "flow"]]
    /\ status' = "pending" /\ fundsError' = "none"
    /\ UNCHANGED <<wallet, opened, dialog, tab, chosen, amount, assetMenu, leaving, slipped>>

\* A deposit is sent by the connected wallet, to the connected wallet.
HandleDeposit(j) == tab = "deposit" /\ Started(j, "deposit", wallet)

HandleWithdrawToConnected(j) == tab = "withdraw" /\ Started(j, "withdraw", wallet)

\* A withdrawal goes to the chosen wallet, which need not be connected any more.
HandleWithdraw(j) == tab = "withdraw" /\ Started(j, "withdraw", chosen)

TransferEnded(j, pc) == jobs' = [jobs EXCEPT ![j] = [FreshJob EXCEPT !.pc = pc, !.kind = jobs[j].kind,
                                                            !.dialog = jobs[j].dialog]]

HereInFlow(j) == jobs[j].dialog = dialog /\ Showing /\ jobs[j].flow

\* setState of a dialog that is gone does nothing.
Here(j) == jobs[j].dialog = dialog /\ Showing

SignTransfer(j) ==
    /\ jobs[j].pc = "prompt" /\ jobs' = [jobs EXCEPT ![j].pc = "sent"]
    /\ UNCHANGED <<wallet, opened, dialog, dialogState, leaving, slipped>>

\* The user refuses, or the wait for the receipt times out: the dialog is idle
\* again with its amount, the transaction may still be on its way.
TransferFails(j) ==
    /\ jobs[j].pc \in {"prompt", "sent"} /\ TransferEnded(j, "failed")
    /\ status' = IF Here(j) THEN "idle" ELSE status
    /\ fundsError' = IF Here(j) THEN "failed" ELSE fundsError
    /\ UNCHANGED <<wallet, opened, dialog, tab, chosen, amount, assetMenu, leaving, slipped>>

MineTransfer(j) ==
    /\ jobs[j].pc = "sent" /\ jobs' = [jobs EXCEPT ![j].pc = "mined"]
    /\ UNCHANGED <<wallet, opened, dialog, dialogState, leaving, slipped>>

\* A receipt of either status confirms.  An accept dialog closes its deposit, and
\* whichever it has opened since.
ReceiptSeen(j) ==
    /\ jobs[j].pc = "mined" /\ TransferEnded(j, "done")
    /\ IF jobs[j].kind = "deposit" /\ jobs[j].flow /\ opened = "flow"
       THEN /\ opened' = "no" /\ Cleared /\ chosen' = "none"
            /\ slipped' = (slipped \/ UnderWay # {j})
       ELSE /\ status' = IF Here(j) THEN "done" ELSE status
            /\ UNCHANGED <<opened, tab, chosen, amount, fundsError, assetMenu, slipped>>
    /\ UNCHANGED <<wallet, dialog, leaving>>

Transfer(j) == MineTransfer(j) \/ ReceiptSeen(j)

FundsStep ==
    \/ \E w \in External \cup {"none"} : SwitchWallet(w)
    \/ \E by \in {"header", "flow"} : OpenFunds(by)
    \/ CloseFunds \/ Disconnect \/ \E d \in leaving : Disconnected(d)
    \/ \E t \in {"deposit", "withdraw"} : ChooseTab(t)
    \/ ChooseWallet \/ ToggleAssetMenu \/ ChooseToken
    \/ \E a \in {"", "some"} : TypeAmount(a)
    \/ SubmitRefused
    \/ \E j \in Jobs : \/ HandleDeposit(j) \/ HandleWithdraw(j)
                       \/ SignTransfer(j) \/ TransferFails(j) \/ Transfer(j)

FundsNext == (MaySlip \/ ~slipped) /\ FundsStep

FundsSpec == FundsInit /\ [][FundsNext]_fundsVars

----------------------------------------------------------------------------
\* Types; a transfer under way has a wallet to go to.
FundsTypeOK ==
    /\ wallet \in External \cup {"none"} /\ chosen \in External \cup {"none"}
    /\ opened \in {"no", "header", "flow"} /\ dialog \in 0..MaxDialogs
    /\ tab \in {"deposit", "withdraw"} /\ amount \in {"", "some"}
    /\ status \in {"idle", "pending", "done"} /\ assetMenu \in BOOLEAN
    /\ leaving \subseteq 1..MaxDialogs
    /\ \A j \in UnderWay : jobs[j].to \in External

\* The dialog is pending exactly while a transfer of its own is under way, and
\* then it is the only one, across tabs, wallets and dialogs closed and opened,
\* unless the dialog let go of one: an asset chosen from a menu left open, a
\* disconnect while it ran, a wallet that went away.
OneTransferAtATime ==
    ~slipped =>
        /\ Cardinality(UnderWay) <= 1
        /\ Showing /\ Pending <=> UnderWay # {}

\* "Deposit confirmed." is said of a deposit and "Withdrawal confirmed." of a
\* withdrawal, the newest transfer, and only once it is mined.
ConfirmedIsTheNewest ==
    ~slipped /\ Panel # {} =>
        \E j \in Jobs : /\ jobs[j].kind = tab /\ jobs[j].pc = "done" /\ jobs[j].dialog = dialog
                        /\ \A i \in Jobs : i > j => jobs[i].pc = "none"

\* Whatever the user switched and chose, what leaves the trading account arrives
\* at the wallet the dialog names, while it waits.
NamedWalletReceives ==
    \A j \in UnderWay : ~slipped /\ jobs[j].kind = "withdraw" => jobs[j].to = chosen

\* A signed transfer never leaves the dialog pending for good.
TransferEnds ==
    (Showing /\ Pending) ~> (~Showing \/ ~Pending \/ \E j \in Jobs : jobs[j].pc = "prompt")
=============================================================================
