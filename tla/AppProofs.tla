------------------------------ MODULE AppProofs ------------------------------
(***************************************************************************)
(* Theorems about the parts of the web app: the dialogs that move funds, the *)
(* price menu, the account's data, faucet button and notification banner,    *)
(* and the positions page; and about the app that is composed of these and   *)
(* of the two dialogs of AcceptProofs.                                       *)
(***************************************************************************)
EXTENDS App, AcceptProofs, SumProofs

-----------------------------------------------------------------------------
(* The funds dialogs, for any number of wallets, transfers and dialogs.     *)

JobType == [pc : {"none", "prompt", "sent", "mined", "done", "failed"},
            kind : {"deposit", "withdraw"}, to : External \cup {"none"}, dialog : Nat,
            flow : BOOLEAN]

DialogTypes ==
    /\ wallet \in External \cup {"none"} /\ chosen \in External \cup {"none"}
    /\ opened \in {"no", "header", "flow"} /\ dialog \in 0..MaxDialogs
    /\ tab \in {"deposit", "withdraw"} /\ amount \in {"", "some"}
    /\ status \in {"idle", "pending", "done"} /\ assetMenu \in BOOLEAN
    /\ leaving \subseteq 1..MaxDialogs
    /\ opened # "no" => dialog # 0

JobTypes ==
    /\ jobs \in [Jobs -> JobType]
    /\ \A j \in UnderWay : jobs[j].to \in External
    /\ \A i, j \in Jobs : i < j /\ jobs[i].pc = "none" => jobs[j].pc = "none"

Newest(j) == \A i \in Jobs : i > j => jobs[i].pc = "none"

\* A transfer under way belongs to the dialog that is shown, which waits for it and
\* still shows what it was started from.
Attended ==
    \A j \in UnderWay :
        /\ Here(j) /\ Pending /\ chosen # "none" /\ Newest(j)
        /\ jobs[j].kind = tab /\ (tab = "withdraw" => jobs[j].to = chosen)

\* What the dialog says is about the newest transfer.
Told ==
    /\ Showing /\ Pending => UnderWay # {}
    /\ Showing /\ status = "done" =>
           \E j \in Jobs : /\ jobs[j].kind = tab /\ jobs[j].pc = "done" /\ jobs[j].dialog = dialog
                           /\ Newest(j)

FundsInv == DialogTypes /\ JobTypes /\ (~slipped => Attended /\ Told)

LEMMA InvFunds ==
    ASSUME FundsInv
    PROVE  FundsTypeOK /\ OneTransferAtATime /\ ConfirmedIsTheNewest /\ NamedWalletReceives
<1>1. FundsTypeOK
  BY DEF FundsInv, DialogTypes, JobTypes, FundsTypeOK
<1>2. ASSUME ~slipped PROVE Cardinality(UnderWay) <= 1 /\ (Showing /\ Pending <=> UnderWay # {})
  <2>1. \A i, j \in UnderWay : i = j
    <3>1. ASSUME NEW i \in UnderWay, NEW j \in UnderWay, i < j PROVE FALSE
      BY <1>2, <3>1, FundsAssumption DEF FundsInv, Attended, Newest, UnderWay
    <3>2. \A i \in UnderWay : i \in Nat
      BY FundsAssumption DEF UnderWay
    <3>3. QED
      BY <3>1, <3>2
  <2>2. UnderWay = {} \/ \E j : UnderWay = {j}
    BY <2>1
  <2>3. Cardinality(UnderWay) <= 1
    <3>1. CASE UnderWay = {}
      BY <3>1, FS_EmptySet
    <3>2. ASSUME NEW j, UnderWay = {j} PROVE Cardinality(UnderWay) = 1
      BY <3>2, FS_Singleton
    <3>3. QED
      BY <2>2, <3>1, <3>2
  <2>4. QED
    BY <1>2, <2>3 DEF FundsInv, Attended, Told, Here
<1>3. ConfirmedIsTheNewest
  BY DEF FundsInv, Told, Panel, Newest, ConfirmedIsTheNewest
<1>4. NamedWalletReceives
  BY DEF FundsInv, Attended, NamedWalletReceives
<1>5. QED
  BY <1>1, <1>2, <1>3, <1>4 DEF OneTransferAtATime

LEMMA InitFunds == ASSUME FundsInit PROVE FundsInv
<1>1. DialogTypes
  <2>1. 0 \in 0..MaxDialogs /\ FALSE \in BOOLEAN
    BY FundsAssumption
  <2>2. QED
    BY <2>1, Zenon DEF FundsInit, DialogTypes
<1>2. JobTypes
  BY DEF FundsInit, JobTypes, JobType, FreshJob, UnderWay
<1>3. Attended /\ Told
  BY DEF FundsInit, Attended, Told, UnderWay, FreshJob, Showing
<1>4. QED
  BY <1>1, <1>2, <1>3 DEF FundsInv

-----------------------------------------------------------------------------
(* Steps that start or end no transfer.                                      *)

LEMMA JobsStay == ASSUME JobTypes, UNCHANGED jobs PROVE JobTypes' /\ UnderWay' = UnderWay
  BY DEF JobTypes, UnderWay

\* The dialog goes on as it is.
LEMMA DialogGoesOn ==
    ASSUME FundsInv, DialogTypes', UNCHANGED <<jobs, dialog, tab, status, slipped>>,
           Showing' = Showing, chosen' = chosen \/ chosen = "none"
    PROVE  FundsInv'
<1>1. JobTypes' /\ UnderWay' = UnderWay
  BY JobsStay DEF FundsInv
<1>2. ASSUME ~slipped PROVE Attended' /\ Told'
  BY <1>1, <1>2 DEF FundsInv, Attended, Told, Here, Pending, Newest
<1>3. QED
  BY <1>1, <1>2 DEF FundsInv

\* The dialog is idle, and no transfer is under way that it has not let go of.
LEMMA DialogIdle ==
    ASSUME FundsInv, DialogTypes', UNCHANGED jobs, status' = "idle",
           \/ UnderWay = {} /\ slipped' = slipped
           \/ slipped' = (slipped \/ UnderWay # {})
           \/ slipped /\ slipped' = slipped
    PROVE  FundsInv'
<1>1. JobTypes' /\ UnderWay' = UnderWay
  BY JobsStay DEF FundsInv
<1>2. ~slipped' => UnderWay = {}
  <2>1. CASE UnderWay = {}
    BY <2>1
  <2>2. CASE slipped' = (slipped \/ UnderWay # {})
    BY <2>2
  <2>3. CASE slipped /\ slipped' = slipped
    BY <2>3
  <2>4. QED
    BY <2>1, <2>2, <2>3, Zenon
<1>3. ASSUME ~slipped' PROVE Attended' /\ Told'
  BY <1>1, <1>2, <1>3 DEF Attended, Told, Pending
<1>4. QED
  BY <1>1, <1>3 DEF FundsInv

\* A dialog that is not shown or not pending has nothing under way.
LEMMA NothingUnderWay ==
    ASSUME FundsInv, ~Showing \/ ~Pending
    PROVE  slipped \/ UnderWay = {}
  BY DEF FundsInv, Attended, Here

LEMMA PositiveDialog == ASSUME NEW d \in 0..MaxDialogs, d # 0 PROVE d \in 1..MaxDialogs
  BY FundsAssumption

LEMMA MountedTypes ==
    ASSUME DialogTypes, NEW w \in External \cup {"none"}, Mounted(w), UNCHANGED leaving,
           wallet' \in External \cup {"none"}, opened' \in {"no", "header", "flow"}
    PROVE  DialogTypes'
<1>1. dialog' = dialog + 1 /\ dialog < MaxDialogs /\ dialog \in 0..MaxDialogs
  BY DEF Mounted, DialogTypes
<1>2. dialog' \in 0..MaxDialogs /\ dialog' # 0
  BY <1>1, FundsAssumption
<1>3. /\ chosen' = w /\ tab' = "deposit" /\ amount' = "" /\ status' = "idle"
      /\ assetMenu' = FALSE
  BY DEF Mounted, Cleared
<1>4. assetMenu' \in BOOLEAN
  BY <1>3
<1>5. QED
  BY <1>2, <1>3, <1>4 DEF DialogTypes

LEMMA WalletSteps ==
    ASSUME FundsInv, NEW w \in External \cup {"none"}, SwitchWallet(w)
    PROVE  FundsInv'
<1> USE DEF FundsInv
<1>1. w # wallet /\ wallet' = w /\ UNCHANGED <<opened, leaving, jobs>>
  BY DEF SwitchWallet
<1>2. CASE opened = "header" /\ wallet = "none"
  <2>1. Mounted(w) /\ UNCHANGED slipped
    BY <1>2 DEF SwitchWallet
  <2>2. DialogTypes'
    BY <1>1, <2>1, MountedTypes DEF DialogTypes
  <2>3. slipped \/ UnderWay = {}
    BY <1>2, NothingUnderWay DEF Showing
  <2>4. QED
    BY <1>1, <2>1, <2>2, <2>3, DialogIdle DEF Mounted, Cleared
<1>3. CASE opened = "header" /\ wallet # "none" /\ w = "none"
  <2>1. Unmounted
    BY <1>3 DEF SwitchWallet
  <2>2. DialogTypes'
    BY <1>1, <2>1 DEF DialogTypes, Unmounted, Cleared
  <2>3. QED
    BY <1>1, <2>1, <2>2, DialogIdle DEF Unmounted, Cleared
<1>4. CASE opened # "header" \/ (wallet # "none" /\ w # "none")
  <2>1. /\ chosen' = IF opened = "flow" /\ chosen = "none" THEN w ELSE chosen
        /\ UNCHANGED <<dialog, tab, amount, status, fundsError, assetMenu, slipped>>
    BY <1>4 DEF SwitchWallet
  <2>2. DialogTypes'
    BY <1>1, <2>1 DEF DialogTypes
  <2>3. Showing' = Showing
    BY <1>1, <1>4 DEF Showing
  <2>4. QED
    BY <1>1, <2>1, <2>2, <2>3, DialogGoesOn
<1>5. QED
  BY <1>2, <1>3, <1>4

\* Steps that leave the dialog idle.
LEMMA IdleSteps ==
    ASSUME FundsInv,
           \/ \E by \in {"header", "flow"} : OpenFunds(by)
           \/ CloseFunds \/ (\E d \in leaving : Disconnected(d))
           \/ (\E t \in {"deposit", "withdraw"} : ChooseTab(t)) \/ ChooseWallet \/ ChooseToken
    PROVE  FundsInv'
<1> USE DEF FundsInv
<1>1. ASSUME NEW by \in {"header", "flow"}, OpenFunds(by) PROVE FundsInv'
  <2>1. DialogTypes'
    <3>1. /\ Mounted(wallet) /\ wallet' = wallet /\ opened' = by /\ leaving' = leaving
      BY <1>1 DEF OpenFunds
    <3>2. QED
      BY <3>1, MountedTypes DEF DialogTypes
  <2>2. slipped \/ UnderWay = {}
    BY <1>1, NothingUnderWay DEF OpenFunds, Showing
  <2>3. QED
    BY <1>1, <2>1, <2>2, DialogIdle DEF OpenFunds, Mounted, Cleared
<1>2. CASE CloseFunds
  BY <1>2, DialogIdle DEF CloseFunds, Unmounted, Cleared, DialogTypes
<1>3. ASSUME NEW d \in leaving, Disconnected(d) PROVE FundsInv'
  BY <1>3, DialogIdle DEF Disconnected, Unmounted, Cleared, DialogTypes
<1>4. ASSUME NEW t \in {"deposit", "withdraw"}, ChooseTab(t) PROVE FundsInv'
  <2>1. slipped \/ UnderWay = {}
    BY <1>4, NothingUnderWay DEF ChooseTab, FundsControls
  <2>2. DialogTypes'
    BY <1>4 DEF ChooseTab, Reset, DialogTypes
  <2>3. QED
    BY <1>4, <2>1, <2>2, DialogIdle DEF ChooseTab, Reset
<1>5. CASE ChooseWallet
  <2>1. slipped \/ UnderWay = {}
    BY <1>5, NothingUnderWay DEF ChooseWallet, FundsControls
  <2>2. DialogTypes'
    BY <1>5 DEF ChooseWallet, Reset, DialogTypes
  <2>3. QED
    BY <1>5, <2>1, <2>2, DialogIdle DEF ChooseWallet, Reset
<1>6. CASE ChooseToken
  BY <1>6, DialogIdle DEF ChooseToken, Reset, DialogTypes
<1>7. QED
  BY <1>1, <1>2, <1>3, <1>4, <1>5, <1>6

\* Steps that leave the dialog as it is.
LEMMA SmallSteps ==
    ASSUME FundsInv,
           \/ Disconnect \/ ToggleAssetMenu \/ (\E a \in {"", "some"} : TypeAmount(a))
           \/ SubmitRefused
    PROVE  FundsInv'
<1> USE DEF FundsInv
<1>1. CASE Disconnect
  <2>1. Showing /\ leaving' = leaving \cup {dialog}
        /\ UNCHANGED <<wallet, opened, dialog, dialogState, jobs, slipped>>
    BY <1>1 DEF Disconnect, FundsControls
  <2>2. dialog \in 1..MaxDialogs
    <3>1. dialog \in 0..MaxDialogs /\ dialog # 0
      BY <2>1, Zenon DEF DialogTypes, Showing
    <3>2. QED
      BY <3>1, PositiveDialog
  <2>3. DialogTypes'
    BY <2>1, <2>2 DEF DialogTypes, dialogState
  <2>4. QED
    BY <2>1, <2>3, DialogGoesOn DEF dialogState, Showing
<1>2. CASE ToggleAssetMenu
  <2>1. assetMenu' \in BOOLEAN
    BY <1>2 DEF ToggleAssetMenu
  <2>2. UNCHANGED <<wallet, opened, dialog, tab, chosen, amount, status, leaving, jobs, slipped>>
    BY <1>2 DEF ToggleAssetMenu
  <2>3. QED
    BY <2>1, <2>2, DialogGoesOn DEF DialogTypes, Showing
<1>3. ASSUME NEW a \in {"", "some"}, TypeAmount(a) PROVE FundsInv'
  BY <1>3, DialogGoesOn DEF TypeAmount, DialogTypes, Showing
<1>4. CASE SubmitRefused
  BY <1>4, DialogGoesOn DEF SubmitRefused, DialogTypes, Showing
<1>5. QED
  BY <1>1, <1>2, <1>3, <1>4

-----------------------------------------------------------------------------
(* Transfers.                                                                *)

LEMMA StartSteps ==
    ASSUME FundsInv, NEW j \in Jobs, HandleDeposit(j) \/ HandleWithdraw(j)
    PROVE  FundsInv'
<1> USE DEF FundsInv
<1>1. PICK to \in External :
        Started(j, tab, to) /\ (tab = "withdraw" => to = chosen)
  BY DEF HandleDeposit, HandleWithdraw, Started, FundsControls, Connected, DialogTypes
<1>2. Showing /\ chosen # "none" /\ status = "idle"
  BY <1>1 DEF Started, FundsControls
<1>3. /\ jobs[j].pc = "none" /\ \A i \in Jobs : i < j => jobs[i].pc # "none"
      /\ jobs' = [jobs EXCEPT ![j] = [pc |-> "prompt", kind |-> tab, to |-> to, dialog |-> dialog,
                                      flow |-> opened = "flow"]]
      /\ status' = "pending"
      /\ UNCHANGED <<wallet, opened, dialog, tab, chosen, amount, assetMenu, leaving, slipped>>
  BY <1>1 DEF Started
<1>4. DialogTypes'
  BY <1>3 DEF DialogTypes
<1>5. slipped \/ UnderWay = {}
  BY <1>2, NothingUnderWay DEF Pending
<1>6. /\ \A i \in Jobs : i # j => jobs'[i] = jobs[i]
      /\ jobs'[j].pc = "prompt" /\ jobs'[j].kind = tab /\ jobs'[j].to = to
      /\ jobs'[j].dialog = dialog
  BY <1>3 DEF JobTypes
<1>7. UnderWay' = UnderWay \cup {j}
  BY <1>6 DEF UnderWay
<1>8. JobTypes'
  <2>1. jobs' \in [Jobs -> JobType]
    <3>1. dialog \in Nat
      <4>1. dialog \in 0..MaxDialogs
        BY DEF DialogTypes
      <4>2. QED
        BY <4>1, FundsAssumption
    <3>2. [pc |-> "prompt", kind |-> tab, to |-> to, dialog |-> dialog, flow |-> opened = "flow"]
              \in JobType
      BY <3>1 DEF JobType, DialogTypes
    <3>3. QED
      BY <1>3, <3>2 DEF JobTypes
  <2>2. \A i \in UnderWay' : jobs'[i].to \in External
    BY <1>6, <1>7 DEF JobTypes, UnderWay
  <2>3. ASSUME NEW i \in Jobs, NEW k \in Jobs, i < k, jobs'[i].pc = "none"
        PROVE  jobs'[k].pc = "none"
    BY <1>3, <1>6, <2>3, FundsAssumption DEF JobTypes
  <2>4. QED
    BY <2>1, <2>2, <2>3 DEF JobTypes
<1>9. ASSUME ~slipped' PROVE Attended' /\ Told'
  <2>1. UnderWay' = {j}
    BY <1>3, <1>5, <1>7, <1>9
  <2>2. Newest(j)'
    BY <1>3, <1>6, FundsAssumption DEF Newest, JobTypes
  <2>3. Attended'
    BY <1>2, <1>3, <1>6, <2>1, <2>2, <1>1 DEF Attended, Here, Pending, Showing
  <2>4. Told'
    BY <1>3, <2>1 DEF Told
  <2>5. QED
    BY <2>3, <2>4
<1>10. QED
  BY <1>4, <1>8, <1>9

\* A step of a transfer that is under way and stays so.
LEMMA MovingSteps ==
    ASSUME FundsInv, NEW j \in Jobs, SignTransfer(j) \/ MineTransfer(j)
    PROVE  FundsInv'
<1> USE DEF FundsInv
<1>1. PICK pc \in {"sent", "mined"} :
        /\ j \in UnderWay /\ jobs' = [jobs EXCEPT ![j].pc = pc]
        /\ UNCHANGED <<wallet, opened, dialog, dialogState, leaving, slipped>>
  BY DEF SignTransfer, MineTransfer, UnderWay
<1>2. DialogTypes'
  BY <1>1 DEF DialogTypes, dialogState
<1>3. /\ \A i \in Jobs : i # j => jobs'[i] = jobs[i]
      /\ jobs'[j].pc = pc /\ jobs'[j].kind = jobs[j].kind /\ jobs'[j].to = jobs[j].to
      /\ jobs'[j].dialog = jobs[j].dialog /\ jobs' \in [Jobs -> JobType]
  BY <1>1 DEF JobTypes, JobType
<1>4. UnderWay' = UnderWay
  BY <1>1, <1>3 DEF UnderWay
<1>5. \A i \in Jobs : jobs'[i].pc = "none" <=> jobs[i].pc = "none"
  BY <1>1, <1>3 DEF UnderWay
<1>6. JobTypes'
  <2>1. \A i \in UnderWay' : jobs'[i].to \in External
    BY <1>3, <1>4 DEF JobTypes, UnderWay
  <2>2. QED
    BY <1>3, <1>5, <2>1 DEF JobTypes
<1>7. ASSUME ~slipped' PROVE Attended' /\ Told'
  <2>1. Attended /\ Told /\ UNCHANGED <<wallet, opened, dialog, tab, chosen, status>>
    BY <1>1, <1>7 DEF dialogState
  <2>2. Attended'
    BY <1>3, <1>4, <1>5, <2>1 DEF Attended, Newest, Here, Pending, Showing, UnderWay
  <2>3. Told'
    BY <1>1, <1>4, <2>1, <2>2 DEF Told, Attended, Pending, Showing
  <2>4. QED
    BY <2>2, <2>3
<1>8. QED
  BY <1>2, <1>6, <1>7

\* What ending a transfer does to the transfers.
LEMMA EndedJobs ==
    ASSUME JobTypes, NEW j \in UnderWay, NEW pc \in {"done", "failed"}, TransferEnded(j, pc)
    PROVE  /\ JobTypes' /\ UnderWay' = UnderWay \ {j}
           /\ jobs'[j].pc = pc /\ jobs'[j].kind = jobs[j].kind /\ jobs'[j].dialog = jobs[j].dialog
           /\ \A i \in Jobs : i # j => jobs'[i] = jobs[i]
<1>1. j \in Jobs /\ jobs[j] \in JobType
  BY DEF UnderWay, JobTypes
<1> DEFINE ended == [FreshJob EXCEPT !.pc = pc, !.kind = jobs[j].kind, !.dialog = jobs[j].dialog]
<1>2. ended \in JobType /\ ended.pc = pc /\ ended.kind = jobs[j].kind
      /\ ended.dialog = jobs[j].dialog
  BY <1>1 DEF FreshJob, JobType
<1>3. jobs' = [jobs EXCEPT ![j] = ended]
  BY DEF TransferEnded
<1> HIDE DEF ended
<1>4. /\ jobs' \in [Jobs -> JobType] /\ jobs'[j] = ended
      /\ \A i \in Jobs : i # j => jobs'[i] = jobs[i]
  BY <1>1, <1>2, <1>3 DEF JobTypes
<1>5. UnderWay' = UnderWay \ {j}
  BY <1>2, <1>4 DEF UnderWay
<1>6. \A i \in Jobs : jobs'[i].pc = "none" <=> jobs[i].pc = "none"
  BY <1>2, <1>4 DEF UnderWay
<1>7. \A i \in UnderWay' : jobs'[i].to \in External
  BY <1>4, <1>5 DEF JobTypes, UnderWay
<1>8. JobTypes'
  BY <1>4, <1>6, <1>7 DEF JobTypes
<1>9. QED
  BY <1>2, <1>4, <1>5, <1>8

\* The transfer under way is the only one.
LEMMA OnlyOne ==
    ASSUME FundsInv, ~slipped, NEW j \in UnderWay
    PROVE  UnderWay = {j} /\ Here(j) /\ Newest(j) /\ jobs[j].kind = tab
<1>1. ASSUME NEW i \in UnderWay PROVE i = j
  <2>1. i \in Nat /\ j \in Nat
    BY FundsAssumption DEF UnderWay
  <2>2. ~(i < j) /\ ~(j < i)
    BY <2>1 DEF FundsInv, Attended, Newest, UnderWay
  <2>3. QED
    BY <2>1, <2>2
<1>2. QED
  BY <1>1 DEF FundsInv, Attended

LEMMA FailStep ==
    ASSUME FundsInv, NEW j \in Jobs, TransferFails(j)
    PROVE  FundsInv'
<1> USE DEF FundsInv
<1>1. /\ j \in UnderWay /\ TransferEnded(j, "failed")
      /\ status' = IF Here(j) THEN "idle" ELSE status
      /\ UNCHANGED <<wallet, opened, dialog, tab, chosen, amount, assetMenu, leaving, slipped>>
  BY DEF TransferFails, UnderWay
<1>2. DialogTypes'
  BY <1>1 DEF DialogTypes
<1>3. JobTypes' /\ UnderWay' = UnderWay \ {j}
  BY <1>1, EndedJobs
<1>4. ASSUME ~slipped' PROVE Attended' /\ Told'
  <2>1. UnderWay = {j} /\ Here(j)
    BY <1>1, <1>4, OnlyOne
  <2>2. UnderWay' = {} /\ status' = "idle"
    BY <1>1, <1>3, <2>1
  <2>3. QED
    BY <2>2 DEF Attended, Told, Pending
<1>5. QED
  BY <1>2, <1>3, <1>4

LEMMA ReceiptStep ==
    ASSUME FundsInv, NEW j \in Jobs, ReceiptSeen(j)
    PROVE  FundsInv'
<1> USE DEF FundsInv
<1>1. j \in UnderWay /\ TransferEnded(j, "done") /\ UNCHANGED <<wallet, dialog, leaving>>
  BY DEF ReceiptSeen, UnderWay
<1>2. /\ JobTypes' /\ UnderWay' = UnderWay \ {j}
      /\ jobs'[j].pc = "done" /\ jobs'[j].kind = jobs[j].kind /\ jobs'[j].dialog = jobs[j].dialog
      /\ \A i \in Jobs : i # j => jobs'[i] = jobs[i]
  BY <1>1, EndedJobs
<1>3. CASE jobs[j].kind = "deposit" /\ jobs[j].flow /\ opened = "flow"
  <2>1. opened' = "no" /\ Cleared /\ chosen' = "none" /\ slipped' = (slipped \/ UnderWay # {j})
    BY <1>3 DEF ReceiptSeen
  <2>2. DialogTypes'
    BY <1>1, <2>1 DEF DialogTypes, Cleared
  <2>3. ASSUME ~slipped' PROVE Attended' /\ Told'
    <3>1. UnderWay' = {} /\ status' = "idle"
      BY <1>2, <2>1, <2>3 DEF Cleared
    <3>2. QED
      BY <3>1 DEF Attended, Told, Pending
  <2>4. QED
    BY <1>2, <2>2, <2>3
<1>4. CASE ~(jobs[j].kind = "deposit" /\ jobs[j].flow /\ opened = "flow")
  <2>1. /\ status' = IF Here(j) THEN "done" ELSE status
        /\ UNCHANGED <<opened, tab, chosen, amount, fundsError, assetMenu, slipped>>
    BY <1>4 DEF ReceiptSeen
  <2>2. DialogTypes'
    BY <1>1, <2>1 DEF DialogTypes
  <2>3. ASSUME ~slipped' PROVE Attended' /\ Told'
    <3>1. UnderWay = {j} /\ Here(j) /\ Newest(j) /\ jobs[j].kind = tab
      BY <1>1, <2>1, <2>3, OnlyOne
    <3>2. UnderWay' = {} /\ status' = "done"
      BY <1>2, <2>1, <3>1
    <3>3. Newest(j)'
      BY <1>2, <3>1, FundsAssumption DEF Newest
    <3>4. jobs'[j].kind = tab' /\ jobs'[j].dialog = dialog'
      BY <1>1, <1>2, <2>1, <3>1 DEF Here
    <3>5. QED
      BY <1>2, <3>2, <3>3, <3>4 DEF Attended, Told, Pending
  <2>4. QED
    BY <1>2, <2>2, <2>3
<1>5. QED
  BY <1>3, <1>4

-----------------------------------------------------------------------------
LEMMA StepFunds == ASSUME FundsInv, [FundsNext]_fundsVars PROVE FundsInv'
<1>1. CASE FundsNext
  BY <1>1, WalletSteps, IdleSteps, SmallSteps, StartSteps, MovingSteps, FailStep, ReceiptStep
  DEF FundsNext, FundsStep, Transfer
<1>2. CASE UNCHANGED fundsVars
  <2>1. UNCHANGED <<wallet, opened, dialog, tab, chosen, amount, status, assetMenu, leaving, jobs,
                    slipped>>
    BY <1>2 DEF fundsVars, dialogState
  <2>2. DialogTypes'
    BY <2>1 DEF FundsInv, DialogTypes
  <2>3. QED
    BY <2>1, <2>2, DialogGoesOn DEF Showing
<1>3. QED
  BY <1>1, <1>2

\* The strengthening that every click, wallet event and receipt preserves.
THEOREM FundsInvariance == FundsSpec => []FundsInv
<1>1. FundsInit => FundsInv
  BY InitFunds
<1>2. FundsInv /\ [FundsNext]_fundsVars => FundsInv'
  BY StepFunds
<1>3. QED
  BY <1>1, <1>2, PTL DEF FundsSpec

\* The types; whatever is under way goes to a wallet.
THEOREM FundsTypeCorrect == FundsSpec => []FundsTypeOK
<1>1. FundsInv => FundsTypeOK
  BY InvFunds
<1>2. QED
  BY <1>1, FundsInvariance, PTL

\* DepositModal: one transfer at a time, and the dialog waits for it, for any number
\* of dialogs, wallets and transfers, until a dialog lets go of one.
THEOREM OneTransfer == FundsSpec => []OneTransferAtATime
<1>1. FundsInv => OneTransferAtATime
  BY InvFunds
<1>2. QED
  BY <1>1, FundsInvariance, PTL

\* DepositModal: "confirmed" is said of the newest transfer and of its kind.
THEOREM NewestConfirmed == FundsSpec => []ConfirmedIsTheNewest
<1>1. FundsInv => ConfirmedIsTheNewest
  BY InvFunds
<1>2. QED
  BY <1>1, FundsInvariance, PTL

\* handleWithdraw: the wallet named in the dialog is the one that receives.
THEOREM NamedReceives == FundsSpec => []NamedWalletReceives
<1>1. FundsInv => NamedWalletReceives
  BY InvFunds
<1>2. QED
  BY <1>1, FundsInvariance, PTL

-----------------------------------------------------------------------------
(* The price menu, for any number of dates and any prices.                   *)

\* A pick and the card it stands for, which on the side for ranges may be of a call.
StandsFor(pick, card, s) ==
    /\ card.premium = pick.premium /\ card.expiry = pick.expiry
    /\ s # "range" => card = pick
IsListed(pick, s, cards) == pick # NoPick => \E card \in cards : StandsFor(pick, card, s)

\* PicksAreListed on every screen; the pages behind the others keep their picks.
PicksKept ==
    /\ IsListed(selected, side, FilteredPrices(prices, ActiveExpiry))
    /\ bounds = [t \in Types |-> bounds[t]]
    /\ \A t \in Types : bounds[t] \in {NoPick} \cup Cards(prices, t, ActiveExpiry)

FieldTypes ==
    /\ prices \in Lists /\ loading \in {"all", "prices", "no"}
    /\ side \in {"buy", "sell", "range"}
    /\ expiry \in Expiries \cup {0} /\ typed \in BOOLEAN /\ closed \in BOOLEAN
    /\ ordering \subseteq {"order", "range"} /\ accepted \subseteq {"order", "range"}

\* RangeEarn has a state only while it is mounted.
RangeMounted == bounds # NoBounds \/ rangeConfirming => side = "range" /\ ~priceError

MenuInv == PicksKept /\ FieldTypes /\ RangeMounted

OfType(pick, t) ==
    pick # NoPick => pick = [premium |-> pick.premium, type |-> t, expiry |-> pick.expiry]

\* Kept gives a card, or a pick of the same premium and date.
LEMMA KeptLooks ==
    ASSUME NEW pick, NEW cards
    PROVE  IsListed(Kept(pick, cards), "range", cards)
  BY DEF Kept, IsListed, StandsFor

\* Of a type a pick with the premium and the date of a card is that card.
LEMMA KeptListed ==
    ASSUME NEW pick, NEW t, NEW list, NEW e, OfType(pick, t)
    PROVE  Kept(pick, Cards(list, t, e)) \in {NoPick} \cup Cards(list, t, e)
<1> DEFINE cards == Cards(list, t, e)
<1>1. CASE pick = NoPick \/ cards = {}
  BY <1>1 DEF Kept
<1>2. ASSUME pick # NoPick, NEW card \in cards,
             card.premium = pick.premium, card.expiry = pick.expiry
      PROVE  Kept(pick, cards) \in cards
  <2>1. card = [premium |-> card.premium, type |-> t, expiry |-> card.expiry]
    BY <1>2 DEF Cards
  <2>2. card = pick
    BY <1>2, <2>1 DEF OfType
  <2>3. Kept(pick, cards) = pick
    BY <1>2 DEF Kept
  <2>4. QED
    BY <1>2, <2>2, <2>3
<1>3. CASE /\ pick # NoPick /\ cards # {}
           /\ ~\E card \in cards : card.premium = pick.premium /\ card.expiry = pick.expiry
  BY <1>3 DEF Kept
<1>4. QED
  BY <1>1, <1>2, <1>3

\* What is picked is of the type that is listed.
LEMMA PicksOfType ==
    ASSUME PicksKept
    PROVE  /\ side # "range" => OfType(selected, IF side = "buy" THEN "put" ELSE "call")
           /\ \A t \in Types : OfType(bounds[t], t)
  BY DEF PicksKept, IsListed, StandsFor, FilteredPrices, Cards, OfType

\* After the effects have run the picks are on the list they ran for.
LEMMA EffectsKeep ==
    ASSUME PicksKept, NEW list, NEW e, KeepSelected(list, e), prices' = list,
           ActiveExpiry' = e, side' = side,
           KeepBounds(list, e) \/ bounds' = NoBounds
    PROVE  PicksKept'
<1>1. IsListed(selected, side, FilteredPrices(prices, ActiveExpiry))'
  <2> DEFINE type == IF side = "buy" THEN "put" ELSE "call"
  <2>1. /\ FilteredPrices(prices, ActiveExpiry)' = Cards(list, type, e)
        /\ selected' = Kept(selected, Cards(list, type, e))
    BY DEF KeepSelected, FilteredPrices, Cards
  <2>2. IsListed(selected', "range", Cards(list, type, e))
    BY <2>1, KeptLooks
  <2>3. side # "range" => selected' \in {NoPick} \cup Cards(list, type, e)
    BY <2>1, KeptListed, PicksOfType
  <2>4. IsListed(selected', side, Cards(list, type, e))
    BY <2>2, <2>3 DEF IsListed, StandsFor
  <2>5. QED
    BY <2>1, <2>4 DEF IsListed
<1>2. /\ bounds' = [t \in Types |-> bounds'[t]]
      /\ \A t \in Types : bounds'[t] \in {NoPick} \cup Cards(prices, t, ActiveExpiry)'
  <2>1. CASE bounds' = NoBounds
    BY <2>1 DEF NoBounds
  <2>2. CASE bounds' = [t \in Types |-> Kept(bounds[t], Cards(list, t, e))]
    <3>1. \A t \in Types : bounds'[t] \in {NoPick} \cup Cards(list, t, e)
      BY <2>2, KeptListed, PicksOfType
    <3>2. QED
      BY <2>2, <3>1 DEF Cards
  <2>3. QED
    BY <2>1, <2>2 DEF KeepBounds
<1>3. QED
  BY <1>1, <1>2 DEF PicksKept

\* Dropping picks leaves the others where they are.
LEMMA NoNewPicks ==
    ASSUME PicksKept, UNCHANGED <<prices, expiry>>,
           selected' = NoPick \/ (selected' = selected /\ side' = side),
           bounds' = NoBounds \/ bounds' = bounds
    PROVE  PicksKept'
<1>1. ActiveExpiry' = ActiveExpiry
  BY DEF ActiveExpiry, ActiveOf, DatesOf
<1>2. IsListed(selected, side, FilteredPrices(prices, ActiveExpiry))'
  BY <1>1 DEF PicksKept, IsListed, FilteredPrices, Cards
<1>3. /\ bounds' = [t \in Types |-> bounds'[t]]
      /\ \A t \in Types : bounds'[t] \in {NoPick} \cup Cards(prices, t, ActiveExpiry)'
  BY <1>1 DEF PicksKept, NoBounds, Cards
<1>4. QED
  BY <1>2, <1>3 DEF PicksKept

LEMMA InitPicks == ASSUME MenuInit PROVE MenuInv
<1>1. PicksKept /\ RangeMounted
  BY DEF MenuInit, PicksKept, IsListed, RangeMounted, NoBounds
<1>2. prices \in Lists
  BY QuotesAssumption DEF MenuInit, Lists, Cells
<1>3. FieldTypes
  BY <1>2 DEF MenuInit, FieldTypes
<1>4. QED
  BY <1>1, <1>3 DEF MenuInv

-----------------------------------------------------------------------------
(* Polling.                                                                  *)

LEMMA PollSteps ==
    ASSUME MenuInv, PricesArrive \/ PricesFail \/ CapacityArrives \/ WalletChanges
    PROVE  MenuInv'
<1> USE DEF MenuInv, picks, dialogs, feed
<1>1. CASE PricesArrive
  <2>1. PICK list \in Lists :
          /\ prices' = list /\ loading' = "no" /\ priceError' = FALSE
          /\ KeepSelected(list, ActiveOf(list)) /\ KeepBounds(list, ActiveOf(list))
          /\ UNCHANGED <<closed, online, side, expiry, typed, dialogs, ordering, accepted>>
    BY <1>1 DEF PricesArrive
  <2>2. ActiveExpiry' = ActiveOf(list)
    BY <2>1 DEF ActiveExpiry, ActiveOf
  <2>3. PicksKept'
    BY <2>1, <2>2, EffectsKeep
  <2>4. RangeMounted'
    BY <2>1 DEF RangeMounted, KeepBounds
  <2>5. FieldTypes'
    BY <2>1 DEF FieldTypes
  <2>6. QED
    BY <2>3, <2>4, <2>5
<1>2. CASE PricesFail
  <2>1. PicksKept'
    BY <1>2, NoNewPicks DEF PricesFail
  <2>2. RangeMounted' /\ FieldTypes'
    BY <1>2 DEF PricesFail, RangeMounted, FieldTypes
  <2>3. QED
    BY <2>1, <2>2
<1>3. CASE CapacityArrives \/ WalletChanges
  <2>1. PicksKept' /\ RangeMounted'
    BY <1>3, NoNewPicks DEF CapacityArrives, WalletChanges, RangeMounted
  <2>2. FieldTypes'
    BY <1>3 DEF CapacityArrives, WalletChanges, FieldTypes
  <2>3. QED
    BY <2>1, <2>2
<1>4. QED
  BY <1>1, <1>2, <1>3

LEMMA SpotStep ==
    ASSUME MenuInv, SpotArrives
    PROVE  MenuInv'
<1> USE DEF MenuInv, picks, dialogs, feed
<1>1. UNCHANGED <<priceError, closed, online, side, expiry, typed, dialogs, ordering, accepted>>
      /\ loading' \in {"prices", loading}
  BY DEF SpotArrives
<1>2. CASE UNCHANGED <<prices, picks>>
  <2>1. PicksKept' /\ RangeMounted'
    BY <1>1, <1>2, NoNewPicks DEF RangeMounted
  <2>2. FieldTypes'
    BY <1>1, <1>2 DEF FieldTypes
  <2>3. QED
    BY <2>1, <2>2
<1>3. ASSUME NEW list \in Lists, \A c \in Cells : list[c] = 0 <=> prices[c] = 0,
             prices' = list, KeepSelected(list, ActiveExpiry),
             IF priceError THEN UNCHANGED bounds ELSE KeepBounds(list, ActiveExpiry)
      PROVE  MenuInv'
  \* The same cells are on the list, so the date stays.
  <2>1. ActiveExpiry' = ActiveExpiry
    <3>1. DatesOf(list) = DatesOf(prices)
      BY <1>3 DEF DatesOf
    <3>2. QED
      BY <1>1, <1>3, <3>1 DEF ActiveExpiry, ActiveOf
  <2>2. KeepBounds(list, ActiveExpiry) \/ bounds' = NoBounds
    BY <1>3 DEF RangeMounted
  <2>3. PicksKept'
    BY <1>1, <1>3, <2>1, <2>2, EffectsKeep
  <2>4. RangeMounted'
    BY <1>1, <1>3 DEF RangeMounted, KeepBounds
  <2>5. FieldTypes'
    BY <1>1, <1>3 DEF FieldTypes
  <2>6. QED
    BY <2>3, <2>4, <2>5
<1>4. QED
  BY <1>2, <1>3 DEF SpotArrives

-----------------------------------------------------------------------------
(* The user, and the order in the dialog.                                    *)

LEMMA ReachedMenu == ASSUME Screen = "menu" PROVE ~priceError
  BY DEF Screen

\* Steps that pick nothing new.
LEMMA DropSteps ==
    ASSUME MenuInv,
           \/ \E s \in {"buy", "sell", "range"} : ChooseSide(s)
           \/ TypeCommitment \/ ClickAccept \/ ClickAcceptRange \/ CloseDialog
           \/ OrderStarts \/ \E d \in {"order", "range"} : OrderAccepted(d) \/ OrderFails(d)
           \/ AcceptAnother \/ SetAnotherRange
    PROVE  MenuInv'
<1> USE DEF MenuInv, picks, dialogs, feed
<1>1. ASSUME NEW s \in {"buy", "sell", "range"}, ChooseSide(s) PROVE MenuInv'
  <2>1. PicksKept'
    BY <1>1, NoNewPicks DEF ChooseSide
  <2>2. RangeMounted'
    BY <1>1, ReachedMenu DEF ChooseSide, MenuInReach, RangeMounted
  <2>3. FieldTypes'
    BY <1>1 DEF ChooseSide, FieldTypes
  <2>4. QED
    BY <2>1, <2>2, <2>3
<1>2. CASE TypeCommitment \/ ClickAccept
  <2>1. PicksKept' /\ RangeMounted'
    BY <1>2, NoNewPicks DEF TypeCommitment, ClickAccept, RangeMounted
  <2>2. FieldTypes'
    BY <1>2 DEF TypeCommitment, ClickAccept, FieldTypes
  <2>3. QED
    BY <2>1, <2>2
<1>3. CASE ClickAcceptRange \/ CloseDialog
  <2>1. PicksKept'
    BY <1>3, NoNewPicks DEF ClickAcceptRange, CloseDialog
  <2>2. RangeMounted'
    BY <1>3, ReachedMenu DEF ClickAcceptRange, CloseDialog, RangeButton, MenuInReach, RangeMounted
  <2>3. FieldTypes'
    BY <1>3 DEF ClickAcceptRange, CloseDialog, FieldTypes
  <2>4. QED
    BY <2>1, <2>2, <2>3
<1>4. CASE OrderStarts \/ \E d \in {"order", "range"} : OrderAccepted(d) \/ OrderFails(d)
  <2>1. PicksKept'
    BY <1>4, NoNewPicks DEF OrderStarts, OrderAccepted, OrderFails
  <2>2. RangeMounted'
    BY <1>4 DEF OrderStarts, OrderAccepted, OrderFails, RangeMounted
  <2>3. FieldTypes'
    BY <1>4 DEF OrderStarts, OrderAccepted, OrderFails, FieldTypes
  <2>4. QED
    BY <2>1, <2>2, <2>3
<1>5. CASE AcceptAnother
  <2>1. PicksKept'
    BY <1>5, NoNewPicks DEF AcceptAnother
  <2>2. RangeMounted' /\ FieldTypes'
    BY <1>5 DEF AcceptAnother, RangeMounted, FieldTypes
  <2>3. QED
    BY <2>1, <2>2
\* The pick that was kept stands for a call, if it stays.
<1>6. CASE SetAnotherRange
  <2>1. /\ ActiveExpiry' = ActiveExpiry
        /\ FilteredPrices(prices, ActiveExpiry)' = Cards(prices, "call", ActiveExpiry)
    <3>1. prices' = prices /\ expiry' = expiry /\ side' = "range"
      BY <1>6 DEF SetAnotherRange
    <3>2. ActiveExpiry' = ActiveExpiry
      BY <3>1 DEF ActiveExpiry, ActiveOf, DatesOf
    <3>3. QED
      BY <3>1, <3>2 DEF FilteredPrices, Cards
  <2>2. IsListed(selected', "range", Cards(prices, "call", ActiveExpiry))
    BY <1>6, KeptLooks DEF SetAnotherRange
  <2>3. IsListed(selected, side, FilteredPrices(prices, ActiveExpiry))'
    BY <1>6, <2>1, <2>2 DEF SetAnotherRange, IsListed, StandsFor
  <2>4. PicksKept'
    BY <1>6, <2>1, <2>3 DEF SetAnotherRange, PicksKept, Cards
  <2>5. RangeMounted'
    BY <1>6 DEF SetAnotherRange, Screen, RangeMounted
  <2>6. FieldTypes'
    BY <1>6 DEF SetAnotherRange, FieldTypes
  <2>7. QED
    BY <2>4, <2>5, <2>6
<1>7. QED
  BY <1>1, <1>2, <1>3, <1>4, <1>5, <1>6

LEMMA PickSteps ==
    ASSUME MenuInv,
           \/ \E e \in Expiries : ChooseExpiry(e)
           \/ PickStrike \/ (\E t \in Types : PickBound(t)) \/ Guide
    PROVE  MenuInv'
<1> USE DEF MenuInv, picks, dialogs, feed
<1>1. ASSUME NEW e \in Expiries, ChooseExpiry(e) PROVE MenuInv'
  <2>1. /\ e \in Listed /\ Screen = "menu" /\ expiry' = e
        /\ KeepSelected(prices, e) /\ KeepBounds(prices, e)
        /\ UNCHANGED <<feed, online, side, typed, dialogs, ordering, accepted>>
    BY <1>1 DEF ChooseExpiry, Dates, MenuInReach
  <2>2. ActiveExpiry' = e
    BY <2>1, QuotesAssumption DEF ActiveExpiry, ActiveOf, Expiries, Cells
  <2>3. PicksKept'
    BY <2>1, <2>2, EffectsKeep
  <2>4. RangeMounted'
    BY <2>1, ReachedMenu DEF RangeMounted, KeepBounds
  <2>5. FieldTypes'
    BY <2>1 DEF FieldTypes
  <2>6. QED
    BY <2>3, <2>4, <2>5
<1>2. ASSUME UNCHANGED <<feed, online, side, expiry, closed, dialogs, ordering, accepted>>,
             typed' \in BOOLEAN,
             selected' \in {selected} \cup FilteredPrices(prices, ActiveExpiry),
             \/ bounds' = bounds
             \/ /\ side = "range" /\ ~priceError
                /\ \E t \in Types : \E card \in Cards(prices, t, ActiveExpiry) :
                       bounds' = [bounds EXCEPT ![t] = card]
      PROVE  MenuInv'
  <2>1. ActiveExpiry' = ActiveExpiry
    BY <1>2 DEF ActiveExpiry, ActiveOf, DatesOf
  <2>2. IsListed(selected, side, FilteredPrices(prices, ActiveExpiry))'
    <3>1. FilteredPrices(prices, ActiveExpiry)' = FilteredPrices(prices, ActiveExpiry)
      BY <1>2, <2>1 DEF FilteredPrices, Cards
    <3>2. QED
      BY <1>2, <3>1 DEF PicksKept, IsListed, StandsFor
  <2>3. /\ bounds' = [t \in Types |-> bounds'[t]]
        /\ \A t \in Types : bounds'[t] \in {NoPick} \cup Cards(prices, t, ActiveExpiry)'
    BY <1>2, <2>1 DEF PicksKept, Cards
  <2>4. RangeMounted'
    BY <1>2 DEF RangeMounted
  <2>5. FieldTypes'
    BY <1>2 DEF FieldTypes
  <2>6. QED
    BY <2>2, <2>3, <2>4, <2>5 DEF PicksKept
<1>3. CASE PickStrike
  BY <1>2, <1>3 DEF PickStrike, StrikeCards, FieldTypes
<1>4. ASSUME NEW t \in Types, PickBound(t) PROVE MenuInv'
  BY <1>2, <1>4, ReachedMenu DEF PickBound, MenuInReach, FieldTypes
<1>5. CASE Guide
  BY <1>2, <1>5 DEF Guide, FieldTypes
<1>6. QED
  BY <1>1, <1>3, <1>4, <1>5

-----------------------------------------------------------------------------
LEMMA StepPicks == ASSUME MenuInv, [MenuNext]_menuVars PROVE MenuInv'
<1>1. CASE MenuNext
  BY <1>1, PollSteps, SpotStep, DropSteps, PickSteps DEF MenuNext
<1>2. CASE UNCHANGED menuVars
  <2>1. PicksKept' /\ RangeMounted'
    BY <1>2, NoNewPicks DEF menuVars, MenuInv, RangeMounted
  <2>2. FieldTypes'
    BY <1>2 DEF menuVars, MenuInv, FieldTypes
  <2>3. QED
    BY <2>1, <2>2 DEF MenuInv
<1>3. QED
  BY <1>1, <1>2

\* The strengthening that every poll, click and order preserves.
THEOREM MenuInvariance == MenuSpec => []MenuInv
<1>1. MenuInit => MenuInv
  BY InitPicks
<1>2. MenuInv /\ [MenuNext]_menuVars => MenuInv'
  BY StepPicks
<1>3. QED
  BY <1>1, <1>2, PTL DEF MenuSpec

\* PriceMenuV2 and RangeEarn: what the user is about to accept is on the list at the
\* price and the date shown, for any number of dates and any list the API sends; a pick
\* left on the side for ranges too, but for its type.
THEOREM PicksListed == MenuSpec => []PicksAreListed
<1>1. MenuInv => PicksAreListed
  BY DEF MenuInv, PicksKept, IsListed, StandsFor, PicksAreListed
<1>2. QED
  BY <1>1, MenuInvariance, PTL

\* The types, with RangeEarn empty whenever it is not on the page.
THEOREM MenuTypeCorrect == MenuSpec => []MenuTypeOK
<1>1. MenuInv => MenuTypeOK
  BY DEF MenuInv, FieldTypes, RangeMounted, MenuTypeOK
<1>2. QED
  BY <1>1, MenuInvariance, PTL

-----------------------------------------------------------------------------
(* The account, for any set of wallets and any number of requests under way. *)

StatusType == [of : Wallets \cup {"none"}, on : BOOLEAN, loading : BOOLEAN, asked : BOOLEAN,
               error : BOOLEAN]
BannerType == [there : BOOLEAN, initialized : BOOLEAN,
               at : {"idle", "email-form", "code-verify", "verified", "manage-open"},
               submitting : BOOLEAN, full : BOOLEAN]
RequestType == [kind : {"email", "verify", "resend", "off"}, account : Wallets \cup {"none"},
                here : BOOLEAN]

FaucetTypes ==
    /\ followed \in Feeds \cup {"banner"} /\ account \in Wallets \cup {"none"}
    /\ asked \subseteq Wallets /\ shownFor \in Wallets \cup {"none"}
    /\ mints \in 0 .. MaxRequests /\ minting \in BOOLEAN /\ (minting => mints > 0)

BannerTypes ==
    /\ emails \in [Wallets -> {"none", "unconfirmed", "on"}] /\ confirmed \in BOOLEAN
    /\ notification \in StatusType /\ banner \in BannerType /\ requests \subseteq RequestType

\* How many requests there are, which the types leave open.
FewRequests == IsFiniteSet(requests) /\ Cardinality(requests) <= MaxRequests

\* Nothing is asked of a status or a banner that is not followed.
OthersIdle ==
    followed # "banner" => ~banner.initialized /\ ~notification.asked /\ requests = {}

\* A status is asked for a wallet; and wherever something is on, it was confirmed.
OnIsConfirmed ==
    /\ notification.asked => account \in Wallets
    /\ notification.on => confirmed
    /\ banner.at \in {"verified", "manage-open"} => confirmed
    /\ \A w \in Wallets : emails[w] = "on" => confirmed

AccountInv ==
    /\ FaucetTypes /\ BannerTypes /\ FewRequests
    /\ OthersIdle /\ StatusIsCurrent /\ OnIsConfirmed /\ SubmittingAwaits

LEMMA AccountInvImplies == ASSUME AccountInv PROVE AccountTypeOK /\ OnOnlyIfConfirmed
<1>1. AccountTypeOK
  BY DEF AccountInv, FaucetTypes, BannerTypes, FewRequests, BannerType, AccountTypeOK
<1>2. OnOnlyIfConfirmed
  BY DEF AccountInv, OnIsConfirmed, OnOnlyIfConfirmed
<1>3. QED
  BY <1>1, <1>2

LEMMA InitAccount == ASSUME AccountInit PROVE AccountInv
<1>1. FaucetTypes
  <2>1. minting = FALSE /\ mints \in 0 .. MaxRequests
    BY AccountAssumption DEF AccountInit
  <2>2. QED
    BY <2>1, Zenon DEF AccountInit, FaucetTypes
<1>2. BannerTypes
  BY DEF AccountInit, BannerTypes, NoBanner, BannerType, StatusType
<1>3. FewRequests
  BY AccountAssumption, FS_EmptySet DEF AccountInit, FewRequests
<1>4. OthersIdle /\ StatusIsCurrent /\ SubmittingAwaits
  BY DEF AccountInit, OthersIdle, StatusIsCurrent, SubmittingAwaits, NoBanner
<1>5. OnIsConfirmed
  BY DEF AccountInit, OnIsConfirmed, NoBanner
<1>6. QED
  BY <1>1, <1>2, <1>3, <1>4, <1>5 DEF AccountInv

-----------------------------------------------------------------------------
(* The hooks and the faucet touch neither status nor banner.                 *)

LEMMA BannerUntouched ==
    ASSUME AccountInv, UNCHANGED <<followed, account, bannerVars>>, FaucetTypes'
    PROVE  AccountInv'
<1>1. BannerTypes' /\ FewRequests'
  BY DEF AccountInv, bannerVars, BannerTypes, FewRequests
<1>2. OthersIdle' /\ StatusIsCurrent' /\ OnIsConfirmed' /\ SubmittingAwaits'
  BY DEF AccountInv, bannerVars, OthersIdle, StatusIsCurrent, OnIsConfirmed, SubmittingAwaits
<1>3. QED
  BY <1>1, <1>2 DEF AccountInv

LEMMA FeedSteps ==
    ASSUME AccountInv, 
           \/ PollBalances \/ BalancesArrive \/ RefreshActivity \/ ActivityArrives
           \/ RefreshYield \/ YieldArrives \/ FeedFails
    PROVE  AccountInv'
<1> USE DEF AccountInv, FaucetTypes, faucetVars
<1>1. ASSUME NEW topic, Ask(topic) PROVE AccountInv'
  BY <1>1, BannerUntouched DEF Ask
<1>2. ASSUME NEW topic, NEW w \in Wallets, Take(topic, w) PROVE AccountInv'
  BY <1>2, BannerUntouched DEF Take
<1>3. CASE FeedFails
  BY <1>3, BannerUntouched DEF FeedFails
<1>4. QED
  BY <1>1, <1>2, <1>3 DEF PollBalances, BalancesArrive, RefreshActivity, ActivityArrives,
     RefreshYield, YieldArrives

LEMMA FaucetSteps ==
    ASSUME AccountInv, Mint \/ MintAnswered \/ HideNotice
    PROVE  AccountInv'
<1>1. mints' \in 0 .. MaxRequests /\ minting' \in BOOLEAN /\ (minting' => mints' > 0)
  <2>1. CASE Mint
    BY <2>1, AccountAssumption DEF AccountInv, FaucetTypes, Mint
  <2>2. CASE MintAnswered
    <3>1. mints' \in 0 .. MaxRequests
      BY <2>2, AccountAssumption DEF AccountInv, FaucetTypes, MintAnswered
    <3>2. minting' = FALSE \/ (minting' = minting /\ mints > (IF minting THEN 1 ELSE 0))
      BY <2>2, Zenon DEF MintAnswered
    <3>3. minting' \in BOOLEAN
      BY <3>2, Zenon DEF AccountInv, FaucetTypes
    <3>4. ASSUME minting' PROVE mints' > 0
      <4>1. mints > 1
        BY <3>2, <3>4
      <4>2. QED
        BY <4>1, <2>2, AccountAssumption DEF AccountInv, FaucetTypes, MintAnswered
    <3>5. QED
      BY <3>1, <3>3, <3>4
  <2>3. CASE HideNotice
    BY <2>3 DEF AccountInv, FaucetTypes, HideNotice
  <2>4. QED
    BY <2>1, <2>2, <2>3
<1>2. /\ followed' \in Feeds \cup {"banner"} /\ account' \in Wallets \cup {"none"}
      /\ asked' \subseteq Wallets /\ shownFor' \in Wallets \cup {"none"}
  BY DEF AccountInv, FaucetTypes, feedVars, Mint, MintAnswered, HideNotice
<1>3. UNCHANGED <<followed, account, bannerVars>>
  BY DEF Mint, MintAnswered, HideNotice
<1>4. QED
  BY <1>1, <1>2, <1>3, BannerUntouched DEF FaucetTypes

-----------------------------------------------------------------------------
(* The status and the banner.                                                *)

LEMMA StatusSteps ==
    ASSUME AccountInv, StatusArrives \/ StatusFails
    PROVE  AccountInv'
<1> USE DEF AccountInv
<1>1. FaucetTypes' /\ FewRequests' /\ followed = "banner" /\ account \in Wallets
  BY DEF FaucetTypes, FewRequests, OthersIdle, OnIsConfirmed, feedVars, faucetVars, StatusArrives,
     StatusFails
<1>2. CASE StatusFails
  <2>1. BannerTypes'
    BY <1>2 DEF BannerTypes, StatusFails, StatusType
  <2>2. OthersIdle' /\ StatusIsCurrent' /\ OnIsConfirmed' /\ SubmittingAwaits'
    BY <1>1, <1>2 DEF BannerTypes, StatusType, StatusFails, OthersIdle, StatusIsCurrent,
       OnIsConfirmed, SubmittingAwaits
  <2>3. QED
    BY <1>1, <2>1, <2>2
<1>3. CASE StatusArrives
  <2>1. /\ notification' = [of |-> account, on |-> emails[account] = "on", loading |-> FALSE,
                            asked |-> FALSE, error |-> FALSE]
        /\ banner' = Settle(banner, notification')
        /\ UNCHANGED <<followed, account, emails, confirmed, requests>>
    BY <1>3 DEF StatusArrives
  <2>2. /\ banner' \in BannerType /\ banner'.submitting = banner.submitting
        /\ banner'.at \in {banner.at, "idle", "verified"}
        /\ banner'.at = "verified" => notification'.on \/ banner.at = "verified"
    BY <2>1 DEF Settle, BannerTypes, BannerType
  <2>3. BannerTypes'
    BY <1>1, <2>1, <2>2 DEF BannerTypes, StatusType
  <2>4. OthersIdle' /\ StatusIsCurrent' /\ SubmittingAwaits'
    BY <1>1, <2>1, <2>2 DEF OthersIdle, StatusIsCurrent, SubmittingAwaits
  <2>5. OnIsConfirmed'
    BY <1>1, <2>1, <2>2 DEF OnIsConfirmed
  <2>6. QED
    BY <1>1, <2>3, <2>4, <2>5
<1>4. QED
  BY <1>2, <1>3

LEMMA ShownIsFollowed ==
    ASSUME AccountInv, BannerShown
    PROVE  followed = "banner"
  BY DEF AccountInv, OthersIdle, BannerShown

LEMMA SettledBanner ==
    ASSUME NEW b \in BannerType, NEW s
    PROVE  /\ Settle(b, s) \in BannerType
           /\ Settle(b, s).submitting = b.submitting
           /\ Settle(b, s).at \in {b.at, "idle", "verified"}
           /\ Settle(b, s).at = "verified" => s.on \/ b.at = "verified"
<1>1. CASE Settle(b, s) = b
  BY <1>1
<1>2. CASE Settle(b, s) # b
  <2>1. Settle(b, s) = [b EXCEPT !.initialized = TRUE, !.at = IF s.on THEN "verified" ELSE "idle"]
    BY <1>2 DEF Settle
  <2>2. CASE s.on
    <3>1. Settle(b, s) = [b EXCEPT !.initialized = TRUE, !.at = "verified"]
      BY <2>1, <2>2
    <3>2. QED
      BY <2>2, <3>1 DEF BannerType
  <2>3. CASE ~s.on
    <3>1. Settle(b, s) = [b EXCEPT !.initialized = TRUE, !.at = "idle"]
      BY <2>1, <2>3
    <3>2. QED
      BY <3>1 DEF BannerType
  <2>4. QED
    BY <2>2, <2>3
<1>3. QED
  BY <1>1, <1>2

LEMMA AskedStatus ==
    ASSUME notification \in StatusType, NEW w \in Wallets \cup {"none"}
    PROVE  /\ AskStatus(w) \in StatusType
           /\ AskStatus(w).on = notification.on
           /\ AskStatus(w).asked => w # "none"
           /\ w # "none" => AskStatus(w).loading
<1>1. CASE w = "none"
  BY <1>1 DEF AskStatus, StatusType
<1>2. CASE w # "none"
  BY <1>2 DEF AskStatus, StatusType
<1>3. QED
  BY <1>1, <1>2

\* Clicks that send nothing.
LEMMA ClickSteps ==
    ASSUME AccountInv, SetUp \/ Cancel \/ TypeCode \/ Manage \/ ChangeEmail \/ MountBanner
    PROVE  AccountInv'
<1> USE DEF AccountInv, bannerOnly
<1>1. UNCHANGED <<followed, account, feedVars, faucetVars, emails, confirmed, notification,
                  requests>> /\ followed = "banner"
  BY ShownIsFollowed
  DEF SetUp, Cancel, TypeCode, Manage, ChangeEmail, MountBanner, BannerControls, IdleControls,
      FormControls, CodeControls, OnControls
<1>2. /\ banner' \in BannerType
      /\ banner'.submitting => banner.submitting
      /\ banner'.at \in {"verified", "manage-open"} => confirmed
  <2> USE <1>1 DEF BannerTypes, BannerType, OnIsConfirmed
  <2>1. CASE SetUp \/ TypeCode \/ ChangeEmail
    BY <2>1 DEF SetUp, TypeCode, ChangeEmail
  <2>2. CASE Cancel
    BY <2>2 DEF Cancel, CancelTarget
  <2>3. CASE Manage
    <3>1. banner.at \in {"verified", "manage-open"}
      BY <2>3 DEF Manage, BannerControls, IdleControls, FormControls, CodeControls, OnControls
    <3>2. QED
      BY <2>3, <3>1 DEF Manage
  <2>4. CASE MountBanner
    BY <2>4 DEF MountBanner, Settle, NoBanner, StatusType
  <2>5. QED
    BY <2>1, <2>2, <2>3, <2>4
<1>3. FaucetTypes' /\ FewRequests' /\ BannerTypes'
  BY <1>1, <1>2 DEF FaucetTypes, FewRequests, BannerTypes, feedVars, faucetVars
<1>4. OthersIdle' /\ StatusIsCurrent' /\ SubmittingAwaits' /\ OnIsConfirmed'
  BY <1>1, <1>2 DEF OthersIdle, StatusIsCurrent, SubmittingAwaits, OnIsConfirmed
<1>5. QED
  BY <1>3, <1>4
-----------------------------------------------------------------------------
(* Requests.                                                                 *)

LEMMA OneMoreRequest ==
    ASSUME AccountInv, NEW kind \in {"email", "verify", "resend", "off"}, Request(kind)
    PROVE  FewRequests' /\ requests' \subseteq RequestType /\ requests \subseteq requests'
           /\ \E r \in requests' : r.here /\ r.kind = kind
<1> DEFINE request == [kind |-> kind, account |-> account, here |-> TRUE]
<1>1. /\ Cardinality(requests) < MaxRequests /\ request \notin requests
      /\ requests' = requests \cup {request}
  BY DEF Request
<1>2. request \in RequestType /\ request.here /\ request.kind = kind
  BY DEF AccountInv, FaucetTypes, RequestType
<1>3. IsFiniteSet(requests') /\ Cardinality(requests') = Cardinality(requests) + 1
  BY <1>1, FS_AddElement DEF AccountInv, FewRequests
<1>4. Cardinality(requests) \in Nat
  BY FS_CardinalityType DEF AccountInv, FewRequests
<1>5. FewRequests'
  BY <1>1, <1>3, <1>4, AccountAssumption DEF FewRequests
<1>6. requests' \subseteq RequestType
  BY <1>1, <1>2 DEF AccountInv, BannerTypes
<1>7. QED
  BY <1>1, <1>2, <1>5, <1>6

LEMMA SendSteps ==
    ASSUME AccountInv, HandleSendCode \/ HandleVerify \/ HandleResend \/ HandleUnsubscribe
    PROVE  AccountInv'
<1> USE DEF bannerOnly
<1>1. PICK kind \in {"email", "verify", "resend", "off"} :
        /\ Request(kind)
        /\ \/ kind = "resend" /\ banner' = [banner EXCEPT !.full = FALSE]
           \/ kind # "resend" /\ banner' = [banner EXCEPT !.submitting = TRUE]
           \/ kind # "resend" /\ banner' = [banner EXCEPT !.submitting = TRUE, !.full = TRUE]
  BY DEF HandleSendCode, HandleVerify, HandleResend, HandleUnsubscribe
<1>2. BannerShown
  BY DEF HandleSendCode, HandleVerify, HandleResend, HandleUnsubscribe, BannerControls,
     IdleControls, FormControls, CodeControls, OnControls
<1>3. UNCHANGED <<followed, account, feedVars, faucetVars, emails, confirmed, notification>>
      /\ followed = "banner"
  BY <1>2, ShownIsFollowed DEF HandleSendCode, HandleVerify, HandleResend, HandleUnsubscribe
<1>4. FewRequests' /\ requests' \subseteq RequestType /\ requests \subseteq requests'
      /\ \E r \in requests' : r.here /\ r.kind = kind
  BY <1>1, OneMoreRequest
<1>5. /\ banner' \in BannerType /\ banner'.at = banner.at
      /\ kind = "resend" => banner'.submitting = banner.submitting
  BY <1>1 DEF AccountInv, BannerTypes, BannerType
<1>6. FaucetTypes' /\ BannerTypes'
  BY <1>3, <1>4, <1>5 DEF AccountInv, FaucetTypes, BannerTypes, feedVars, faucetVars
<1>7. OthersIdle' /\ StatusIsCurrent' /\ OnIsConfirmed'
  BY <1>3, <1>5 DEF AccountInv, OthersIdle, StatusIsCurrent, OnIsConfirmed
<1>8. SubmittingAwaits'
  <2>1. CASE kind = "resend"
    BY <1>4, <1>5, <2>1 DEF AccountInv, SubmittingAwaits
  <2>2. CASE kind # "resend"
    BY <1>4, <2>2 DEF SubmittingAwaits
  <2>3. QED
    BY <2>1, <2>2
<1>9. QED
  BY <1>4, <1>6, <1>7, <1>8 DEF AccountInv

\* What an answer may make of the banner, as the steps below have it.
LEMMA AnAnswer ==
    ASSUME AccountInv, NEW r \in requests, NEW to \in BannerType,
           to.submitting = banner.submitting, Answered(r, to)
    PROVE  /\ FewRequests' /\ requests' \subseteq RequestType
           /\ banner' \in BannerType /\ SubmittingAwaits'
           /\ banner'.at \in {banner.at, to.at}
<1>1. requests' = requests \ {r} /\ r \in RequestType /\ banner \in BannerType
  BY DEF Answered, AccountInv, BannerTypes
<1>2. FewRequests' /\ requests' \subseteq RequestType
  <2>1. IsFiniteSet(requests') /\ Cardinality(requests') = Cardinality(requests) - 1
    BY <1>1, FS_RemoveElement DEF AccountInv, FewRequests
  <2>2. Cardinality(requests) \in Nat
    BY FS_CardinalityType DEF AccountInv, FewRequests
  <2>3. QED
    BY <1>1, <2>1, <2>2, AccountAssumption DEF AccountInv, BannerTypes, FewRequests
<1>3. CASE ~r.here
  <2>1. banner' = banner
    BY <1>3 DEF Answered
  <2>2. SubmittingAwaits'
    BY <1>1, <1>3, <2>1 DEF AccountInv, SubmittingAwaits
  <2>3. QED
    BY <1>1, <1>2, <2>1, <2>2
<1>4. CASE r.here /\ r.kind = "resend"
  <2>1. banner' = [to EXCEPT !.submitting = to.submitting]
    BY <1>4 DEF Answered
  <2>2. banner' \in BannerType /\ banner'.submitting = banner.submitting /\ banner'.at = to.at
    BY <2>1 DEF BannerType
  <2>3. SubmittingAwaits'
    BY <1>1, <1>4, <2>2 DEF AccountInv, SubmittingAwaits
  <2>4. QED
    BY <1>2, <2>2, <2>3
<1>5. CASE r.here /\ r.kind # "resend"
  <2>1. banner' = [to EXCEPT !.submitting = FALSE]
    BY <1>5 DEF Answered
  <2>2. banner' \in BannerType /\ banner'.submitting = FALSE /\ banner'.at = to.at
    BY <2>1 DEF BannerType
  <2>3. QED
    BY <1>2, <2>2 DEF SubmittingAwaits
<1>6. QED
  BY <1>3, <1>4, <1>5 DEF RequestType

LEMMA AnswerSteps ==
    ASSUME AccountInv, NEW r \in requests,
           EmailAnswered(r) \/ VerifyAnswered(r) \/ UnsubscribeAnswered(r)
    PROVE  AccountInv'
<1>1. followed = "banner" /\ banner \in BannerType
  BY DEF AccountInv, OthersIdle, BannerTypes
<1>2. FaucetTypes' /\ UNCHANGED <<followed, account>>
  BY DEF AccountInv, FaucetTypes, feedVars, faucetVars, EmailAnswered, VerifyAnswered,
     UnsubscribeAnswered
<1>3. PICK to \in BannerType :
        /\ Answered(r, to) /\ to.submitting = banner.submitting
        /\ to.at \in {banner.at, "code-verify", "verified"}
        /\ to.at = "verified" => banner.at = "verified" \/ confirmed'
  <2>1. CASE EmailAnswered(r)
    <3>1. [banner EXCEPT !.full = FALSE, !.at = "code-verify"] \in BannerType
      BY <1>1 DEF BannerType
    <3>2. QED
      BY <1>1, <2>1, <3>1 DEF EmailAnswered, BannerType
  <2>2. CASE VerifyAnswered(r)
    <3>1. [banner EXCEPT !.at = "verified"] \in BannerType
      BY <1>1 DEF BannerType
    <3>2. QED
      BY <1>1, <2>2, <3>1 DEF VerifyAnswered, BannerType
  <2>3. CASE UnsubscribeAnswered(r)
    BY <1>1, <2>3 DEF UnsubscribeAnswered
  <2>4. QED
    BY <2>1, <2>2, <2>3
<1>4. /\ FewRequests' /\ requests' \subseteq RequestType /\ banner' \in BannerType
      /\ SubmittingAwaits' /\ banner'.at \in {banner.at, to.at}
  BY <1>3, AnAnswer
<1>5. /\ emails' \in [Wallets -> {"none", "unconfirmed", "on"}] /\ confirmed' \in BOOLEAN
      /\ confirmed => confirmed'
      /\ \A w \in Wallets : emails'[w] = "on" => confirmed'
  BY DEF AccountInv, BannerTypes, OnIsConfirmed, EmailAnswered, VerifyAnswered, UnsubscribeAnswered
<1>6. notification' = notification \/ notification' = AskStatus(account)
  BY DEF EmailAnswered, VerifyAnswered, UnsubscribeAnswered
<1>7. /\ notification' \in StatusType /\ notification'.on = notification.on
      /\ notification'.asked => notification.asked \/ account # "none"
      /\ account # "none" => notification'.loading \/ notification' = notification
  BY <1>6, AskedStatus DEF AccountInv, FaucetTypes, BannerTypes
<1>8. BannerTypes' /\ OthersIdle'
  BY <1>1, <1>2, <1>4, <1>5, <1>7 DEF BannerTypes, OthersIdle
<1>9. StatusIsCurrent'
  BY <1>2, <1>7 DEF AccountInv, StatusIsCurrent
<1>10. OnIsConfirmed'
  BY <1>2, <1>3, <1>4, <1>5, <1>7 DEF AccountInv, FaucetTypes, OnIsConfirmed
<1>11. QED
  BY <1>2, <1>4, <1>8, <1>9, <1>10 DEF AccountInv

LEMMA LinkStep ==
    ASSUME AccountInv, NEW w \in Wallets, UnsubscribeByLink(w)
    PROVE  AccountInv'
<1>1. /\ emails' = [emails EXCEPT ![w] = "none"]
      /\ UNCHANGED <<followed, account, feedVars, faucetVars, confirmed, notification, banner, requests>>
  BY DEF UnsubscribeByLink
<1>2. FaucetTypes' /\ FewRequests' /\ BannerTypes'
  BY <1>1 DEF AccountInv, FaucetTypes, FewRequests, BannerTypes, feedVars, faucetVars
<1>3. OthersIdle' /\ StatusIsCurrent' /\ SubmittingAwaits'
  BY <1>1 DEF AccountInv, OthersIdle, StatusIsCurrent, SubmittingAwaits
<1>4. OnIsConfirmed'
  BY <1>1 DEF AccountInv, BannerTypes, OnIsConfirmed
<1>5. QED
  BY <1>2, <1>3, <1>4 DEF AccountInv

-----------------------------------------------------------------------------
(* Another wallet.                                                           *)

LEMMA GoneRequests ==
    ASSUME AccountInv, requests' = {[r EXCEPT !.here = FALSE] : r \in requests}
    PROVE  FewRequests' /\ requests' \subseteq RequestType
<1> DEFINE gone == [r \in requests |-> [r EXCEPT !.here = FALSE]]
<1>1. gone \in Surjection(requests, requests')
  BY DEF Surjection
<1>2. IsFiniteSet(requests') /\ Cardinality(requests') <= Cardinality(requests)
  BY <1>1, FS_Surjection DEF AccountInv, FewRequests
<1>3. Cardinality(requests') \in Nat /\ Cardinality(requests) \in Nat
  BY <1>2, FS_CardinalityType DEF AccountInv, FewRequests
<1>4. FewRequests'
  BY <1>2, <1>3, AccountAssumption DEF AccountInv, FewRequests
<1>5. requests' \subseteq RequestType
  BY DEF AccountInv, BannerTypes, RequestType
<1>6. QED
  BY <1>4, <1>5

LEMMA SwitchStep ==
    ASSUME AccountInv, NEW w \in Wallets \cup {"none"}, SwitchTo(w)
    PROVE  AccountInv'
<1>1. account' = w /\ UNCHANGED <<followed, mints, emails, confirmed>>
  BY DEF SwitchTo
<1>2. FaucetTypes'
  <2>1. asked' \subseteq Wallets /\ shownFor' \in Wallets \cup {"none"}
    BY DEF SwitchTo, AccountInv, FaucetTypes, feedVars
  <2>2. minting' = FALSE \/ minting' = minting
    BY DEF SwitchTo
  <2>3. minting' \in BOOLEAN /\ (minting' => mints' > 0)
    <3>1. CASE minting' = FALSE
      BY <3>1, Zenon
    <3>2. CASE minting' = minting
      <4>1. minting \in BOOLEAN /\ (minting => mints > 0)
        BY DEF AccountInv, FaucetTypes
      <4>2. QED
        BY <1>1, <3>2, <4>1
    <3>3. QED
      BY <2>2, <3>1, <3>2
  <2>4. QED
    BY <1>1, <2>1, <2>3 DEF AccountInv, FaucetTypes
<1>3. CASE followed # "banner"
  <2>1. UNCHANGED <<notification, banner, requests>>
    BY <1>3 DEF SwitchTo
  <2>2. FewRequests' /\ BannerTypes' /\ OthersIdle' /\ StatusIsCurrent' /\ SubmittingAwaits'
    BY <1>1, <1>3, <2>1 DEF AccountInv, FewRequests, BannerTypes, OthersIdle, StatusIsCurrent,
       SubmittingAwaits
  <2>3. OnIsConfirmed'
    BY <1>1, <1>3, <2>1 DEF AccountInv, OthersIdle, OnIsConfirmed
  <2>4. QED
    BY <1>2, <2>2, <2>3 DEF AccountInv
<1>4. CASE followed = "banner"
  <2>1. /\ notification' \in StatusType /\ notification'.on = notification.on
        /\ notification'.asked => w # "none"
        /\ w # "none" => notification'.loading
    BY <1>4, AskedStatus DEF SwitchTo, AccountInv, BannerTypes
  <2>2. /\ OthersIdle' /\ StatusIsCurrent'
    BY <1>1, <1>4, <2>1 DEF OthersIdle, StatusIsCurrent
  <2>3. /\ banner' \in BannerType
        /\ banner'.at \in {"verified", "manage-open"} => confirmed
        /\ banner' = banner \/ ~banner'.submitting
    <3>1. banner' \in {banner, NoBanner, Settle([NoBanner EXCEPT !.there = TRUE], notification)}
      BY <1>4 DEF SwitchTo
    <3>2. CASE banner' = banner
      BY <3>2 DEF AccountInv, BannerTypes, OnIsConfirmed
    <3>3. CASE banner' = NoBanner
      BY <3>3 DEF NoBanner, BannerType
    <3>4. CASE banner' = Settle([NoBanner EXCEPT !.there = TRUE], notification)
      <4> DEFINE newcomer == [NoBanner EXCEPT !.there = TRUE]
      <4>1. newcomer \in BannerType /\ ~newcomer.submitting /\ newcomer.at = "idle"
        BY DEF NoBanner, BannerType
      <4> HIDE DEF newcomer
      <4>2. QED
        BY <3>4, <4>1, SettledBanner DEF AccountInv, OnIsConfirmed, newcomer
    <3>5. QED
      BY <3>1, <3>2, <3>3, <3>4
  <2>4. FewRequests' /\ requests' \subseteq RequestType
    BY <1>4, GoneRequests DEF SwitchTo, AccountInv, FewRequests, BannerTypes
  <2>5. SubmittingAwaits'
    <3>1. CASE w = "none"
      BY <1>4, <3>1 DEF SwitchTo, NoBanner, SubmittingAwaits
    <3>2. CASE w # "none"
      BY <1>4, <2>3, <3>2 DEF SwitchTo, AccountInv, SubmittingAwaits
    <3>3. QED
      BY <3>1, <3>2
  <2>6. OnIsConfirmed'
    BY <1>1, <2>1, <2>3 DEF AccountInv, OnIsConfirmed
  <2>7. BannerTypes'
    BY <1>1, <2>1, <2>3, <2>4 DEF AccountInv, BannerTypes
  <2>8. QED
    BY <1>2, <2>2, <2>4, <2>5, <2>6, <2>7 DEF AccountInv
<1>5. QED
  BY <1>3, <1>4

-----------------------------------------------------------------------------
LEMMA StepAccount == ASSUME AccountInv, [AccountNext]_accountVars PROVE AccountInv'
<1>1. CASE AccountNext
  BY <1>1, FeedSteps, FaucetSteps, StatusSteps, ClickSteps, SendSteps, AnswerSteps, LinkStep,
     SwitchStep DEF AccountNext
<1>2. CASE UNCHANGED accountVars
  <2>1. FaucetTypes'
    BY <1>2 DEF accountVars, feedVars, faucetVars, AccountInv, FaucetTypes
  <2>2. QED
    BY <1>2, <2>1, BannerUntouched DEF accountVars
<1>3. QED
  BY <1>1, <1>2

\* The strengthening that every step of the hooks, the faucet and the banner preserves.
THEOREM AccountInvariance == AccountSpec => []AccountInv
<1>1. AccountInit => AccountInv
  BY InitAccount
<1>2. AccountInv /\ [AccountNext]_accountVars => AccountInv'
  BY StepAccount
<1>3. QED
  BY <1>1, <1>2, PTL DEF AccountSpec

\* No number of wallets, switches, late answers and unmounted banners takes a
\* variable out of its type or lets more requests under way than the bound.
THEOREM AccountTypeCorrect == AccountSpec => []AccountTypeOK
<1>1. AccountInv => AccountTypeOK
  BY AccountInvImplies
<1>2. QED
  BY <1>1, AccountInvariance, PTL

\* useNotificationStatus: a status shown as known is of the connected wallet.
THEOREM StatusCurrent == AccountSpec => []StatusIsCurrent
<1>1. AccountInv => StatusIsCurrent
  BY DEF AccountInv
<1>2. QED
  BY <1>1, AccountInvariance, PTL

\* NotificationBanner: "on" is shown only after some wallet confirmed an address.
THEOREM OnOnlyConfirmed == AccountSpec => []OnOnlyIfConfirmed
<1>1. AccountInv => OnOnlyIfConfirmed
  BY AccountInvImplies
<1>2. QED
  BY <1>1, AccountInvariance, PTL

\* NotificationBanner: a disabled button awaits an answer that will enable it.
THEOREM DisabledAwaits == AccountSpec => []SubmittingAwaits
<1>1. AccountInv => SubmittingAwaits
  BY DEF AccountInv
<1>2. QED
  BY <1>1, AccountInvariance, PTL

-----------------------------------------------------------------------------
(* The positions page, for any number of orders, ranges and answers.        *)

RowTypes == [Placeable -> {"none", "active"} \cup SettledStates]

\* What the API answers: tags are of rows it has, and what it calls assigned stays so.
GoodAnswer(told, tagsTold) ==
    /\ told \in RowTypes /\ tagsTold \subseteq Placeable
    /\ \A o \in tagsTold : told[o] # "none" /\ o.group # 0
    /\ \A o \in Placeable : told[o] = "assigned" => filed[o] = "assigned"

\* The backend tags rows of ranges, settles none before there is a price, and calls
\* assigned what was in the money at it.
BackendIsRight ==
    /\ filed \in [Placeable -> {"none", "on chain", "active"} \cup SettledStates]
    /\ tagged \subseteq Placeable
    /\ \A o \in tagged : filed[o] \notin {"none", "on chain"} /\ o.group # 0
    /\ \A o \in Placeable : /\ filed[o] \in SettledStates => expiryPrice # 0
                            /\ filed[o] = "assigned" => ItmAt(o, expiryPrice)

PortfolioInv ==
    /\ optimistic \subseteq stored /\ stored \subseteq saved /\ saved \subseteq Placeable
    /\ BackendIsRight /\ GoodAnswer(known, knownTags)
    /\ \A a \in answers : GoodAnswer(a.filed, a.tagged)
    /\ \A o \in optimistic : known[o] = "none"

LEMMA PortfolioTyped == ASSUME PortfolioInv PROVE PortfolioTypeOK
  BY DEF PortfolioInv, BackendIsRight, GoodAnswer, RowTypes, PortfolioTypeOK, Real,
     HasRow

LEMMA InitPortfolio == ASSUME PortfolioInit PROVE PortfolioInv
  BY DEF PortfolioInit, PortfolioInv, BackendIsRight, GoodAnswer, RowTypes, NoRows, SettledStates

LEMMA BackendSteps ==
    ASSUME PortfolioInv,
           \/ \E o \in Placeable : Place(o) \/ Index(o) \/ SettleRow(o) \/ MarkItm(o)
           \/ \E g \in {o.group : o \in Placeable} : Tag(g)
           \/ \E price \in Spots : ExpireAt(price)
    PROVE  PortfolioInv'
<1>1. UNCHANGED <<saved, stored, page, linked, waiting, known, knownTags, optimistic, answers>>
  BY DEF Place, Index, SettleRow, MarkItm, Tag, ExpireAt, sessionVars, pageVars
<1>2. \A o \in Placeable : filed[o] = "assigned" => filed'[o] = "assigned"
  BY DEF Place, Index, SettleRow, MarkItm, Tag, ExpireAt, PortfolioInv, BackendIsRight
<1>3. BackendIsRight'
  <2>1. ASSUME NEW o \in Placeable, Place(o) \/ Index(o) \/ SettleRow(o) \/ MarkItm(o)
        PROVE  BackendIsRight'
    <3>1. PICK state \in {"on chain", "active", "settled", "assigned"} :
            /\ filed' = [filed EXCEPT ![o] = state] /\ UNCHANGED <<tagged, expiryPrice>>
            /\ state = "on chain" => filed[o] = "none"
            /\ state = "assigned" => filed[o] = "settled" /\ ItmAt(o, expiryPrice)
            /\ state = "settled" => expiryPrice # 0
      BY <2>1 DEF Place, Index, SettleRow, MarkItm
    <3>2. state \in SettledStates => expiryPrice # 0
      BY <3>1 DEF PortfolioInv, BackendIsRight, SettledStates
    <3>3. QED
      BY <3>1, <3>2 DEF PortfolioInv, BackendIsRight, SettledStates, ItmAt
  <2>2. ASSUME NEW g, Tag(g) PROVE BackendIsRight'
    BY <2>2 DEF Tag, PortfolioInv, BackendIsRight, ItmAt
  <2>3. ASSUME NEW price \in Spots, ExpireAt(price) PROVE BackendIsRight'
    BY <2>3 DEF ExpireAt, PortfolioInv, BackendIsRight, SettledStates
  <2>4. QED
    BY <2>1, <2>2, <2>3
<1>4. GoodAnswer(known, knownTags)' /\ \A a \in answers' : GoodAnswer(a.filed, a.tagged)'
  BY <1>1, <1>2 DEF PortfolioInv, GoodAnswer, RowTypes
<1>5. QED
  BY <1>1, <1>3, <1>4 DEF PortfolioInv

LEMMA SaveSteps ==
    ASSUME PortfolioInv, NEW o \in Placeable, SaveOptimistic(o)
    PROVE  PortfolioInv'
  BY DEF SaveOptimistic, backendVars, pageVars, PortfolioInv, BackendIsRight, GoodAnswer, RowTypes,
         ItmAt

LEMMA BackendStays ==
    ASSUME BackendIsRight, UNCHANGED backendVars
    PROVE  BackendIsRight'
  BY DEF BackendIsRight, backendVars, ItmAt

LEMMA PageSteps ==
    ASSUME PortfolioInv, OpenPage \/ LeavePage \/ ConnectWallet \/ DisconnectWallet
    PROVE  PortfolioInv'
<1>1. GoodAnswer(NoRows, {})
  BY DEF NoRows, GoodAnswer, RowTypes
<1>2. UNCHANGED <<backendVars, saved, stored>>
  BY DEF OpenPage, LeavePage, ConnectWallet, DisconnectWallet, sessionVars
<1>3. /\ \/ known' = NoRows /\ knownTags' = {} /\ optimistic' \in {optimistic, stored, {}}
         \/ UNCHANGED <<known, knownTags, optimistic>>
      /\ answers' \in {answers, {}}
  BY DEF OpenPage, LeavePage, ConnectWallet, DisconnectWallet
<1>4. filed' = filed /\ BackendIsRight'
  BY <1>2, BackendStays DEF PortfolioInv, backendVars
<1>5. GoodAnswer(known, knownTags)' /\ \A a \in answers' : GoodAnswer(a.filed, a.tagged)'
  BY <1>1, <1>3, <1>4 DEF PortfolioInv, GoodAnswer, RowTypes
<1>6. optimistic' \subseteq stored' /\ \A o \in optimistic' : known'[o] = "none"
  BY <1>2, <1>3 DEF PortfolioInv, NoRows
<1>7. QED
  BY <1>2, <1>4, <1>5, <1>6 DEF PortfolioInv

LEMMA PollStepsOfPage ==
    ASSUME PortfolioInv, PollPositions
    PROVE  PortfolioInv'
<1> DEFINE visible == [o \in Placeable |-> IF filed[o] = "on chain" THEN "none" ELSE filed[o]]
           answer == [filed |-> visible, tagged |-> tagged]
<1>1. /\ answers' = answers \cup {answer}
      /\ UNCHANGED <<backendVars, saved, stored, known, knownTags, optimistic>>
  BY DEF PollPositions, sessionVars
<1>2. GoodAnswer(visible, tagged)
  BY DEF PortfolioInv, BackendIsRight, GoodAnswer, RowTypes, SettledStates
<1> HIDE DEF visible
<1>3. \A a \in answers' : GoodAnswer(a.filed, a.tagged)
  BY <1>1, <1>2 DEF PortfolioInv
<1>4. filed' = filed /\ BackendIsRight'
  BY <1>1, BackendStays DEF PortfolioInv, backendVars
<1>5. GoodAnswer(known, knownTags)' /\ \A a \in answers' : GoodAnswer(a.filed, a.tagged)'
  BY <1>1, <1>3, <1>4 DEF PortfolioInv, GoodAnswer, RowTypes
<1>6. QED
  BY <1>1, <1>4, <1>5 DEF PortfolioInv

\* Every row is taken for its own pending entry.
LEMMA RowsMatch == ASSUME NEW o \in Placeable PROVE Matches(o, o)
<1>1. o.amount \in Nat
  BY PlaceableAssumption
<1>2. QED
  BY <1>1 DEF Matches

LEMMA AnswerArrives ==
    ASSUME PortfolioInv, NEW a \in answers, PositionsArrive(a) \/ PositionsFail(a)
    PROVE  PortfolioInv'
<1>1. /\ answers' \subseteq answers /\ UNCHANGED <<backendVars, saved>>
      /\ \/ known' = known /\ knownTags' = knownTags
         \/ known' = a.filed /\ knownTags' = a.tagged
  BY DEF PositionsArrive, PositionsFail, sessionVars
<1>2. filed' = filed /\ BackendIsRight'
  BY <1>1, BackendStays DEF PortfolioInv, backendVars
<1>3. GoodAnswer(known, knownTags)' /\ \A b \in answers' : GoodAnswer(b.filed, b.tagged)'
  BY <1>1, <1>2 DEF PortfolioInv, GoodAnswer, RowTypes
<1>4. /\ optimistic' \subseteq stored' /\ stored' \subseteq saved'
      /\ \A o \in optimistic' : known'[o] = "none"
  <2>1. CASE PositionsFail(a)
    BY <2>1 DEF PositionsFail, sessionVars, PortfolioInv
  <2>2. CASE PositionsArrive(a)
    <3> DEFINE list == {o \in Placeable : a.filed[o] # "none"}
    <3>1. optimistic \subseteq Placeable /\ stored \subseteq Placeable
      BY DEF PortfolioInv
    <3>2. CASE stored' = RemoveMatching(list) /\ optimistic' = RemoveMatching(list)
      <4>1. \A o \in RemoveMatching(list) : a.filed[o] = "none"
        BY <3>1, RowsMatch DEF RemoveMatching
      <4>2. RemoveMatching(list) \subseteq stored
        BY DEF RemoveMatching
      <4>3. QED
        BY <2>2, <3>2, <4>1, <4>2 DEF PositionsArrive, PortfolioInv
    <3>3. CASE (list = {} \/ optimistic = {}) /\ UNCHANGED <<stored, optimistic>>
      BY <2>2, <3>1, <3>3 DEF PositionsArrive, PortfolioInv
    <3>4. QED
      BY <2>2, <3>2, <3>3 DEF PositionsArrive
  <2>3. QED
    BY <2>1, <2>2
<1>5. QED
  BY <1>1, <1>2, <1>3, <1>4 DEF PortfolioInv

LEMMA StepPortfolio == ASSUME PortfolioInv, [PortfolioNext]_portfolioVars PROVE PortfolioInv'
<1>1. CASE PortfolioNext
  BY <1>1, BackendSteps, SaveSteps, PageSteps, PollStepsOfPage, AnswerArrives DEF PortfolioNext
<1>2. CASE UNCHANGED portfolioVars
  BY <1>2 DEF portfolioVars, backendVars, sessionVars, pageVars, PortfolioInv, BackendIsRight,
              GoodAnswer, RowTypes, ItmAt
<1>3. QED
  BY <1>1, <1>2

-----------------------------------------------------------------------------
(* The order of the page has a first position.                              *)

LEMMA ShownPlaceable ==
    ASSUME PortfolioInv
    PROVE  Listing \subseteq Placeable /\ Confirming \cap Real = {}
  BY DEF PortfolioInv, GoodAnswer, RowTypes, Listing, Confirming, Real

LEMMA OrderIsTotal ==
    ASSUME PortfolioInv, NEW o \in Listing, NEW p \in Listing
    PROVE  o # p => Before(o, p) \/ Before(p, o)
<1>1. o \in Placeable /\ p \in Placeable
  BY ShownPlaceable
<1>2. o.id \in Nat /\ p.id \in Nat /\ (o.id = p.id => o = p)
  BY <1>1, PlaceableAssumption
<1>3. (o \in Confirming \/ o \in Real) /\ (p \in Confirming \/ p \in Real)
  BY DEF Listing
<1>4. o # p => Newer(o, p) \/ Newer(p, o)
  BY <1>2 DEF Newer
<1>5. QED
  BY <1>3, <1>4 DEF Before

LEMMA OrderIsTransitive ==
    ASSUME PortfolioInv, NEW o \in Listing, NEW p \in Listing, NEW q \in Listing,
           Before(o, p), Before(p, q)
    PROVE  Before(o, q)
<1>1. o.id \in Nat /\ p.id \in Nat /\ q.id \in Nat /\ Confirming \cap Real = {}
  BY ShownPlaceable, PlaceableAssumption
<1>2. /\ Newer(o, p) /\ Newer(p, q) => Newer(o, q)
      /\ Newer(q, p) /\ Newer(p, o) => Newer(q, o)
  BY <1>1 DEF Newer
<1>3. QED
  BY <1>1, <1>2 DEF Before

LEMMA FirstIsListed ==
    ASSUME PortfolioInv, NEW list \in SUBSET Listing, list # {}
    PROVE  First(list) \in list
<1> DEFINE Leads(T) == \E o \in T : \A p \in T \ {o} : Before(o, p)
           G == {T \in SUBSET list : T = {} \/ Leads(T)}
<1>1. IsFiniteSet(list)
  BY ShownPlaceable, PlaceableAssumption, FS_Subset
<1>2. {} \in G
  OBVIOUS
<1>3. ASSUME NEW T \in SUBSET list, NEW x \in list, T \in G, x \notin T
      PROVE  T \cup {x} \in G
  <2>1. CASE T = {}
    BY <2>1
  <2>2. CASE T # {}
    <3>1. PICK o \in T : \A p \in T \ {o} : Before(o, p)
      BY <1>3, <2>2
    <3>2. CASE Before(o, x)
      <4>1. \A p \in (T \cup {x}) \ {o} : Before(o, p)
        BY <3>1, <3>2
      <4>2. QED
        BY <4>1
    <3>3. CASE Before(x, o)
      <4>1. \A p \in (T \cup {x}) \ {x} : Before(x, p)
        BY <3>1, <3>3, OrderIsTransitive
      <4>2. QED
        BY <4>1
    <3>4. QED
      BY <1>3, <3>2, <3>3, OrderIsTotal
  <2>3. QED
    BY <2>1, <2>2
<1> HIDE DEF G
<1>4. list \in G
  BY <1>1, <1>2, <1>3, SetInduction
<1>5. QED
  BY <1>4 DEF G, First

LEMMA PartnersAreListed ==
    ASSUME PortfolioInv, NEW list \in SUBSET Listing, list # {}
    PROVE  /\ First(list) \in Partnered(First(list), list)
           /\ Partnered(First(list), list) \subseteq list
<1>1. First(list) \in list
  BY FirstIsListed
<1>2. Fits(First(list), list) \subseteq list
  BY DEF Fits
<1>3. QED
  BY <1>1, <1>2, FirstIsListed DEF Partnered

-----------------------------------------------------------------------------
(* Pairing one after the other is well defined.                             *)

\* g takes one after the other the item of what is left, for the sets in D.
TakesInTurn(g, item, rest, D) ==
    g = [T \in D |-> IF T = {} THEN {} ELSE {item[T]} \cup g[rest[T]]]

Shrinks(rest, S) == \A T \in SUBSET S : T # {} => rest[T] \subseteq T /\ rest[T] # T

LEMMA TurnAt ==
    ASSUME NEW g, NEW item, NEW rest, NEW D, TakesInTurn(g, item, rest, D), NEW T \in D
    PROVE  g[T] = IF T = {} THEN {} ELSE {item[T]} \cup g[rest[T]]
  BY DEF TakesInTurn

(* Whatever shrinks a finite set can be repeated until nothing is left.     *)
LEMMA TurnsExist ==
    ASSUME NEW S, IsFiniteSet(S), NEW item, NEW rest, Shrinks(rest, S)
    PROVE  \E g : TakesInTurn(g, item, rest, SUBSET S)
<1> DEFINE D(n) == {T \in SUBSET S : Cardinality(T) <= n}
<1>1. Cardinality(S) \in Nat /\ \A T \in SUBSET S : Cardinality(T) \in Nat
  BY FS_Subset, FS_CardinalityType
<1>2. ASSUME NEW T \in SUBSET S
      PROVE  /\ Cardinality(T) <= Cardinality(S)
             /\ Cardinality(T) = 0 <=> T = {}
             /\ T # {} => rest[T] \in SUBSET S /\ Cardinality(rest[T]) <= Cardinality(T) - 1
  <2>1. IsFiniteSet(T) /\ Cardinality(T) <= Cardinality(S) /\ (Cardinality(T) = 0 <=> T = {})
    BY FS_Subset, FS_CardinalityType, FS_EmptySet
  <2>2. ASSUME T # {}
        PROVE  rest[T] \in SUBSET S /\ Cardinality(rest[T]) <= Cardinality(T) - 1
    <3>1. PICK x \in T : x \notin rest[T]
      BY <2>2 DEF Shrinks
    <3>2. rest[T] \in SUBSET (T \ {x}) /\ rest[T] \in SUBSET S
      BY <2>2, <3>1 DEF Shrinks
    <3>3. IsFiniteSet(T \ {x}) /\ Cardinality(T \ {x}) = Cardinality(T) - 1
      BY <2>1, FS_RemoveElement
    <3>4. Cardinality(rest[T]) <= Cardinality(T \ {x})
      BY <3>2, <3>3, FS_Subset
    <3> QED
      BY <3>2, <3>3, <3>4
  <2> QED
    BY <2>1, <2>2
<1>3. \E g : TakesInTurn(g, item, rest, D(0))
  <2>1. ASSUME NEW T \in SUBSET S PROVE Cardinality(T) <= 0 <=> T = {}
    <3>1. Cardinality(T) \in Nat /\ (Cardinality(T) = 0 <=> T = {})
      BY <1>1, <1>2
    <3> QED
      BY <3>1
  <2>2. D(0) = {{}}
    BY <2>1
  <2> QED
    BY <2>2, Zenon DEF TakesInTurn
<1>4. ASSUME NEW n \in Nat, NEW g, TakesInTurn(g, item, rest, D(n))
      PROVE  \E h : TakesInTurn(h, item, rest, D(n + 1))
  <2> DEFINE h == [T \in D(n + 1) |-> IF T = {} THEN {} ELSE {item[T]} \cup g[rest[T]]]
  <2>1. ASSUME NEW T \in D(n) PROVE T \in D(n + 1) /\ h[T] = g[T]
    <3>1. T \in D(n + 1)
      BY <1>1
    <3>2. h[T] = IF T = {} THEN {} ELSE {item[T]} \cup g[rest[T]]
      BY <3>1
    <3> HIDE DEF h, D
    <3> QED
      BY <3>1, <3>2, <1>4, TurnAt
  <2>2. ASSUME NEW T \in D(n + 1), T # {}
        PROVE  rest[T] \in D(n)
    <3>1. rest[T] \in SUBSET S /\ Cardinality(rest[T]) <= Cardinality(T) - 1
      BY <1>2, <2>2
    <3>2. Cardinality(T) \in Nat /\ Cardinality(rest[T]) \in Nat /\ Cardinality(T) <= n + 1
      BY <1>1, <3>1
    <3> QED
      BY <3>1, <3>2
  <2>3. h = [T \in D(n + 1) |-> IF T = {} THEN {} ELSE {item[T]} \cup h[rest[T]]]
    <3> HIDE DEF D
    <3>1. ASSUME NEW T \in D(n + 1), T # {}
          PROVE  g[rest[T]] = h[rest[T]]
      BY <3>1, <2>1, <2>2
    <3>2. ASSUME NEW T \in D(n + 1)
          PROVE  (IF T = {} THEN {} ELSE {item[T]} \cup g[rest[T]])
                   = IF T = {} THEN {} ELSE {item[T]} \cup h[rest[T]]
      BY <3>1
    <3> QED
      BY <3>2, Zenon
  <2> HIDE DEF h
  <2> QED
    BY <2>3 DEF TakesInTurn
<1>5. \A n \in Nat : \E g : TakesInTurn(g, item, rest, D(n))
  <2> DEFINE Bad == {n \in Nat : ~ \E g : TakesInTurn(g, item, rest, D(n))}
  <2> SUFFICES ASSUME Bad # {} PROVE FALSE
    OBVIOUS
  <2>1. PICK n \in Bad : \A m \in Bad : <<m, n>> \notin OpToRel(<, Nat)
    <3> HIDE DEF Bad
    <3>1. Bad \subseteq Nat
      BY DEF Bad
    <3> QED
      BY <3>1, NatLessThanWellFounded, WFMin
  <2>2. n # 0
    BY <1>3
  <2>3. n - 1 \in Nat /\ <<n - 1, n>> \in OpToRel(<, Nat)
    BY <2>2 DEF OpToRel
  <2>4. \E g : TakesInTurn(g, item, rest, D(n - 1))
    BY <2>1, <2>3
  <2>5. (n - 1) + 1 = n
    OBVIOUS
  <2> HIDE DEF D
  <2>6. \E h : TakesInTurn(h, item, rest, D((n - 1) + 1))
    BY <1>4, <2>3, <2>4
  <2> QED
    BY <2>5, <2>6
<1>6. D(Cardinality(S)) = SUBSET S
  BY <1>2
<1> QED
  BY <1>1, <1>5, <1>6

-----------------------------------------------------------------------------
(* The items of a list are a partition of it.                               *)

Divides(items, list) ==
    /\ UNION items = list
    /\ \A i, j \in items : i # j => i \cap j = {}

LEMMA TakesOfNothing ==
    ASSUME NEW g, NEW item, NEW rest, NEW S, TakesInTurn(g, item, rest, SUBSET S)
    PROVE  Divides(g[{}], {})
<1>1. {} \in SUBSET S
  OBVIOUS
<1>2. g[{}] = {}
  BY <1>1, TurnAt
<1>3. QED
  BY <1>2 DEF Divides

LEMMA TakesOneMore ==
    ASSUME NEW P, NEW T, P \subseteq T, NEW items, Divides(items, T \ P)
    PROVE  Divides({P} \cup items, T)
<1>1. \A i \in items : i \subseteq T \ P
  BY DEF Divides
<1>2. UNION ({P} \cup items) = T
  BY DEF Divides
<1>3. \A i, j \in {P} \cup items : i # j => i \cap j = {}
  BY <1>1 DEF Divides
<1>4. QED
  BY <1>2, <1>3 DEF Divides

PairOf(list) == [T \in SUBSET list |-> Partnered(First(T), T)]
LeftBy(list) == [T \in SUBSET list |-> T \ Partnered(First(T), T)]

LEMMA PairUpTakes ==
    ASSUME PortfolioInv, NEW list \in SUBSET Listing
    PROVE  \E g : /\ TakesInTurn(g, PairOf(list), LeftBy(list), SUBSET list)
                  /\ PairUp(list) = g[list]
<1> DEFINE Turns(g) == g = [left \in SUBSET list |->
                        IF left = {} THEN {}
                        ELSE {Partnered(First(left), left)}
                             \cup g[left \ Partnered(First(left), left)]]
<1>1. IsFiniteSet(list)
  BY ShownPlaceable, PlaceableAssumption, FS_Subset
<1>2. Shrinks(LeftBy(list), list)
  <2>1. ASSUME NEW T \in SUBSET list, T # {}
        PROVE  LeftBy(list)[T] \subseteq T /\ LeftBy(list)[T] # T
    <3>1. LeftBy(list)[T] = T \ Partnered(First(T), T)
      BY DEF LeftBy
    <3>2. First(T) \in T /\ First(T) \in Partnered(First(T), T)
      BY <2>1, PartnersAreListed, FirstIsListed
    <3>3. QED
      BY <3>1, <3>2
  <2>2. QED
    BY <2>1 DEF Shrinks
<1>3. \A g : TakesInTurn(g, PairOf(list), LeftBy(list), SUBSET list) <=> Turns(g)
  <2>1. TAKE g
  <2>2. \A T \in SUBSET list :
           (IF T = {} THEN {} ELSE {PairOf(list)[T]} \cup g[LeftBy(list)[T]])
             = IF T = {} THEN {}
               ELSE {Partnered(First(T), T)} \cup g[T \ Partnered(First(T), T)]
    BY Zenon DEF PairOf, LeftBy
  <2>3. [T \in SUBSET list |->
           IF T = {} THEN {} ELSE {PairOf(list)[T]} \cup g[LeftBy(list)[T]]]
         = [T \in SUBSET list |->
             IF T = {} THEN {}
             ELSE {Partnered(First(T), T)} \cup g[T \ Partnered(First(T), T)]]
    BY <2>2, Zenon
  <2>4. QED
    BY <2>3, Zenon DEF TakesInTurn
<1>4. \E g : Turns(g)
  <2> HIDE DEF Turns
  <2> QED
    BY <1>1, <1>2, <1>3, TurnsExist
<1>5. Turns(CHOOSE g : Turns(g))
  <2> HIDE DEF Turns
  <2> QED
    BY <1>4, Zenon
<1>6. PairUp(list) = (CHOOSE g : Turns(g))[list]
  BY Zenon DEF PairUp
<1> HIDE DEF Turns
<1>7. QED
  BY <1>3, <1>5, <1>6

LEMMA PairUpDivides ==
    ASSUME PortfolioInv, NEW list \in SUBSET Listing
    PROVE  Divides(PairUp(list), list)
<1>1. PICK g : /\ TakesInTurn(g, PairOf(list), LeftBy(list), SUBSET list)
               /\ PairUp(list) = g[list]
  BY PairUpTakes
<1>t. \A T \in SUBSET list :
         g[T] = IF T = {} THEN {} ELSE {PairOf(list)[T]} \cup g[LeftBy(list)[T]]
  BY <1>1 DEF TakesInTurn
<1> DEFINE G == {T \in SUBSET list : Divides(g[T], T)}
<1>2. IsFiniteSet(list)
  BY ShownPlaceable, PlaceableAssumption, FS_Subset
<1>3. ASSUME NEW T \in SUBSET list, \A U \in SUBSET T : U # T => U \in G
      PROVE  T \in G
  <2>1. CASE T = {}
    BY <1>1, <2>1, TakesOfNothing
  <2>2. CASE T # {}
    <3> DEFINE P == Partnered(First(T), T)
    <3>1. P \subseteq T /\ T \ P # T
      BY <2>2, PartnersAreListed, FirstIsListed
    <3>2. g[T] = {P} \cup g[T \ P]
      <4>1. g[T] = {PairOf(list)[T]} \cup g[LeftBy(list)[T]]
        BY <1>t, <2>2
      <4>2. PairOf(list)[T] = P /\ LeftBy(list)[T] = T \ P
        BY DEF PairOf, LeftBy
      <4>3. QED
        BY <4>1, <4>2
    <3> HIDE DEF P
    <3>3. Divides(g[T \ P], T \ P)
      BY <1>3, <3>1
    <3>4. Divides(g[T], T)
      BY <3>1, <3>2, <3>3, TakesOneMore
    <3>5. QED
      BY <3>4
  <2>3. QED
    BY <2>1, <2>2
<1> HIDE DEF G
<1>4. list \in G
  BY <1>2, <1>3, StrictSubsetInduction
<1>5. QED
  BY <1>1, <1>4 DEF G

GroupsOf(list) == {{o \in list : GroupOf(o) = g} : g \in {GroupOf(o) : o \in list} \ {0}}
Ungrouped(list) == {o \in list : GroupOf(o) = 0}
RangesOf(list) == {g \in GroupsOf(list) : HasBothSides(g)} \cup PairUp(Ungrouped(list))

LEMMA ItemsAre ==
    ASSUME NEW list
    PROVE  GroupPositions(list) = RangesOf(list) \cup {{o} : o \in list \ UNION RangesOf(list)}
  BY Zenon DEF GroupPositions, RangesOf, GroupsOf, Ungrouped

LEMMA ItemsDivide ==
    ASSUME PortfolioInv, NEW list \in SUBSET Listing
    PROVE  Divides(GroupPositions(list), list)
<1>1. Divides(PairUp(Ungrouped(list)), Ungrouped(list))
  BY PairUpDivides DEF Ungrouped
<1>2. \A i \in PairUp(Ungrouped(list)) : i \subseteq Ungrouped(list)
  BY <1>1 DEF Divides
<1>3. /\ \A i \in RangesOf(list) : i \subseteq list
      /\ \A i, j \in RangesOf(list) : i # j => i \cap j = {}
  <2>1. \A i \in GroupsOf(list) : i \subseteq list /\ i \cap Ungrouped(list) = {}
    BY DEF GroupsOf, Ungrouped
  <2>2. \A i, j \in GroupsOf(list) : i # j => i \cap j = {}
    BY DEF GroupsOf
  <2>3. Ungrouped(list) \subseteq list
    BY DEF Ungrouped
  <2>4. QED
    BY <1>1, <1>2, <2>1, <2>2, <2>3 DEF RangesOf, Divides
<1>4. DEFINE R == RangesOf(list)
<1> HIDE DEF R
<1>5. GroupPositions(list) = R \cup {{o} : o \in list \ UNION R}
  BY ItemsAre DEF R
<1>6. (\A i \in R : i \subseteq list) /\ (\A i, j \in R : i # j => i \cap j = {})
  BY <1>3 DEF R
<1>7. UNION (R \cup {{o} : o \in list \ UNION R}) = list
  <2>1. UNION (R \cup {{o} : o \in list \ UNION R}) \subseteq list
    BY <1>6
  <2>2. ASSUME NEW o \in list
        PROVE  \E i \in R \cup {{p} : p \in list \ UNION R} : o \in i
    <3>1. CASE o \in UNION R
      BY <3>1
    <3>2. CASE o \notin UNION R
      <4>1. {o} \in {{p} : p \in list \ UNION R} /\ o \in {o}
        BY <3>2
      <4>2. QED
        BY <4>1
    <3>3. QED
      BY <3>1, <3>2
  <2>3. QED
    BY <2>1, <2>2
<1>8. \A i, j \in R \cup {{o} : o \in list \ UNION R} : i # j => i \cap j = {}
  BY <1>6
<1>9. QED
  BY <1>5, <1>7, <1>8 DEF Divides

LEMMA OneItemOf ==
    ASSUME NEW items, NEW list, Divides(items, list), NEW o
    PROVE  Cardinality({i \in items : o \in i}) = IF o \in list THEN 1 ELSE 0
<1>1. CASE o \in list
  <2>1. PICK i \in items : o \in i
    BY <1>1 DEF Divides
  <2>2. {j \in items : o \in j} = {i}
    BY <2>1 DEF Divides
  <2>3. QED
    BY <1>1, <2>2, FS_Singleton
<1>2. CASE o \notin list
  <2>1. {j \in items : o \in j} = {}
    BY <1>2 DEF Divides
  <2>2. QED
    BY <1>2, <2>1, FS_EmptySet
<1>3. QED
  BY <1>1, <1>2

LEMMA PositionsOnce == ASSUME PortfolioInv PROVE EachPositionOnce
<1>1. Active \subseteq Listing /\ History \subseteq Listing
  BY DEF Active, History
<1>2. Divides(ActiveItems, Active) /\ Divides(HistoryItems, History)
  BY <1>1, ItemsDivide DEF ActiveItems, HistoryItems
<1>3. ASSUME NEW o \in Listing
      PROVE  Cardinality({i \in ActiveItems : o \in i})
               + Cardinality({i \in HistoryItems : o \in i}) = 1
  <2>1. /\ Cardinality({i \in ActiveItems : o \in i}) = IF o \in Active THEN 1 ELSE 0
        /\ Cardinality({i \in HistoryItems : o \in i}) = IF o \in History THEN 1 ELSE 0
    BY <1>2, OneItemOf
  <2>2. o \in Active <=> o \notin History
    BY DEF Active, History
  <2>3. QED
    BY <2>1, <2>2
<1>4. optimistic \cap Real = {}
  BY DEF PortfolioInv, Real, HasRow
<1>5. QED
  BY <1>3, <1>4 DEF EachPositionOnce

LEMMA LegsAreAnItem ==
    ASSUME PortfolioInv, NEW g \in {o.group : o \in knownTags}, NEW list \in SUBSET Listing,
           NEW legs, legs = {o \in Real : o \in knownTags /\ o.group = g},
           HasBothSides(legs), legs \subseteq list
    PROVE  legs \in GroupPositions(list)
<1>1. g # 0
  BY DEF PortfolioInv, GoodAnswer
<1>2. \A o \in legs : GroupOf(o) = g
  BY DEF GroupOf
<1>3. ASSUME NEW o \in list, GroupOf(o) = g PROVE o \in legs
  <2>1. o.group = g /\ o \in Placeable /\ o.put \in BOOLEAN
    BY <1>1, <1>3, ShownPlaceable, PlaceableAssumption DEF GroupOf
  <2>2. PICK p \in legs : p.put = o.put
    BY <2>1 DEF HasBothSides
  <2>3. p \in Placeable /\ p.group = g
    BY <2>2 DEF Real
  <2>4. QED
    BY <1>1, <2>1, <2>2, <2>3, PlaceableAssumption
<1>4. {o \in list : GroupOf(o) = g} = legs
  BY <1>2, <1>3
<1>5. legs # {}
  BY DEF HasBothSides
<1>6. legs \in GroupsOf(list)
  BY <1>1, <1>2, <1>4, <1>5 DEF GroupsOf
<1>7. QED
  BY <1>6, ItemsAre DEF RangesOf

LEMMA LegsTogether == ASSUME PortfolioInv PROVE RangesStayTogether
<1>1. Active \subseteq Listing /\ History \subseteq Listing
  BY DEF Active, History
<1>2. QED
  BY <1>1, LegsAreAnItem DEF RangesStayTogether, ActiveItems, HistoryItems

\* The strengthening that every order, poll, answer and click preserves.
THEOREM PortfolioInvariance == PortfolioSpec => []PortfolioInv
<1>1. PortfolioInit => PortfolioInv
  BY InitPortfolio
<1>2. PortfolioInv /\ [PortfolioNext]_portfolioVars => PortfolioInv'
  BY StepPortfolio
<1>3. QED
  BY <1>1, <1>2, PTL DEF PortfolioSpec

\* What the page holds as pending the session holds too, and was saved.
THEOREM PortfolioTypeCorrect == PortfolioSpec => []PortfolioTypeOK
<1>1. PortfolioInv => PortfolioTypeOK
  BY PortfolioTyped
<1>2. QED
  BY <1>1, PortfolioInvariance, PTL

\* groupPositions and pairUngrouped: for any number of positions, tags and pairs
\* guessed, each position is in exactly one item of one of the two lists.
THEOREM PositionsShownOnce == PortfolioSpec => []EachPositionOnce
<1>1. PortfolioInv => EachPositionOnce
  BY PositionsOnce
<1>2. QED
  BY <1>1, PortfolioInvariance, PTL

\* groupPositions: two rows with the tag of one range are one item, whatever other
\* positions would fit one of them.
THEOREM RangesTogether == PortfolioSpec => []RangesStayTogether
<1>1. PortfolioInv => RangesStayTogether
  BY LegsTogether
<1>2. QED
  BY <1>1, PortfolioInvariance, PTL

-----------------------------------------------------------------------------
(* What an item of the page is.                                             *)

\* Two positions that can be shown as a range.
MayPair(p, c) ==
    /\ p.put /\ ~c.put
    /\ \/ p.group = c.group /\ p.group # 0
       \/ p.at - c.at \in -PairWindow .. PairWindow

ItemOf(item, list) ==
    \/ \E o \in list : item = {o}
    \/ \E p, c \in list : item = {p, c} /\ MayPair(p, c)

LEMMA FieldsTyped ==
    ASSUME PortfolioInv, NEW o \in Listing
    PROVE  /\ o \in Placeable /\ o.id \in Nat /\ o.put \in BOOLEAN
           /\ o.at \in Nat /\ o.amount \in Nat /\ o.strike \in Nat /\ o.premium \in Nat
           /\ CapitalUsd(o) \in Nat
<1>1. /\ o \in Placeable /\ o.id \in Nat /\ o.put \in BOOLEAN
      /\ o.at \in Nat /\ o.amount \in Nat /\ o.strike \in Nat /\ o.premium \in Nat
  BY ShownPlaceable, PlaceableAssumption
<1>2. \A x, y \in Nat : x * y \in Nat
  OBVIOUS
<1>3. CapitalUsd(o) \in Nat
  BY <1>1, <1>2 DEF CapitalUsd, Collateral
<1>4. QED
  BY <1>1, <1>3

LEMMA PartnersMayPair ==
    ASSUME PortfolioInv, NEW list \in SUBSET Listing, list # {}
    PROVE  ItemOf(Partnered(First(list), list), list)
<1> DEFINE o == First(list)
<1>1. o \in list
  BY FirstIsListed
<1>2. CASE Fits(o, list) = {}
  BY <1>1, <1>2 DEF Partnered, ItemOf
<1>3. CASE Fits(o, list) # {}
  <2> DEFINE q == First(Fits(o, list))
  <2>1. Fits(o, list) \in SUBSET Listing /\ Fits(o, list) \subseteq list
    BY DEF Fits
  <2>2. q \in Fits(o, list)
    BY <1>3, <2>1, FirstIsListed
  <2>3. q \in list /\ q.put # o.put /\ o.at - q.at \in -PairWindow .. PairWindow
    BY <2>2 DEF Fits, LooksLikeLeg
  <2>4. /\ o.put \in BOOLEAN /\ q.put \in BOOLEAN /\ o.at \in Nat /\ q.at \in Nat
        /\ PairWindow \in Nat
    BY <1>1, <2>3, FieldsTyped, PageAssumption
  <2>5. Partnered(o, list) = {o, q}
    BY <1>3 DEF Partnered
  <2> HIDE DEF o, q
  <2>6. ASSUME o.put PROVE ItemOf({o, q}, list)
    <3>1. MayPair(o, q)
      BY <2>3, <2>4, <2>6 DEF MayPair
    <3>2. QED
      BY <1>1, <2>3, <3>1 DEF ItemOf
  <2>7. ASSUME ~o.put PROVE ItemOf({o, q}, list)
    <3>1. q.at - o.at \in -PairWindow .. PairWindow
      BY <2>3, <2>4
    <3>2. MayPair(q, o) /\ {o, q} = {q, o}
      BY <2>3, <2>4, <2>7, <3>1 DEF MayPair
    <3>3. QED
      BY <1>1, <2>3, <3>2 DEF ItemOf
  <2>8. ItemOf(Partnered(o, list), list)
    BY <2>4, <2>5, <2>6, <2>7
  <2>9. QED
    BY <2>8 DEF o
<1>4. QED
  BY <1>2, <1>3

LEMMA PairsAreItems ==
    ASSUME PortfolioInv, NEW list \in SUBSET Listing
    PROVE  \A i \in PairUp(list) : ItemOf(i, list)
<1>1. PICK g : /\ TakesInTurn(g, PairOf(list), LeftBy(list), SUBSET list)
               /\ PairUp(list) = g[list]
  BY PairUpTakes
<1>t. \A T \in SUBSET list :
         g[T] = IF T = {} THEN {} ELSE {PairOf(list)[T]} \cup g[LeftBy(list)[T]]
  BY <1>1 DEF TakesInTurn
<1> DEFINE G == {T \in SUBSET list : \A i \in g[T] : ItemOf(i, list)}
<1>2. IsFiniteSet(list)
  BY ShownPlaceable, PlaceableAssumption, FS_Subset
<1>3. ASSUME NEW T \in SUBSET list, \A U \in SUBSET T : U # T => U \in G
      PROVE  T \in G
  <2>1. CASE T = {}
    BY <1>t, <2>1
  <2>2. CASE T # {}
    <3> DEFINE P == Partnered(First(T), T)
    <3>1. T \ P \in SUBSET T /\ T \ P # T
      BY <2>2, PartnersAreListed, FirstIsListed
    <3>2. g[T] = {P} \cup g[T \ P]
      <4>1. g[T] = {PairOf(list)[T]} \cup g[LeftBy(list)[T]]
        BY <1>t, <2>2
      <4>2. PairOf(list)[T] = P /\ LeftBy(list)[T] = T \ P
        BY DEF PairOf, LeftBy
      <4>3. QED
        BY <4>1, <4>2
    <3>3. ItemOf(P, list)
      <4>1. ItemOf(P, T)
        BY <2>2, PartnersMayPair
      <4>2. QED
        BY <4>1 DEF ItemOf
    <3> HIDE DEF P
    <3>4. \A i \in g[T \ P] : ItemOf(i, list)
      BY <1>3, <3>1
    <3>5. QED
      BY <3>2, <3>3, <3>4
  <2>3. QED
    BY <2>1, <2>2
<1> HIDE DEF G
<1>4. list \in G
  BY <1>2, <1>3, StrictSubsetInduction
<1>5. QED
  BY <1>1, <1>4 DEF G

LEMMA GroupsAreItems ==
    ASSUME PortfolioInv, NEW list \in SUBSET Listing, NEW i \in GroupsOf(list), HasBothSides(i)
    PROVE  ItemOf(i, list)
<1>1. PICK g \in {GroupOf(o) : o \in list} \ {0} : i = {o \in list : GroupOf(o) = g}
  BY DEF GroupsOf
<1>2. \A o \in i : o \in list /\ o \in Placeable /\ o.group = g /\ g # 0 /\ o.put \in BOOLEAN
  BY <1>1, FieldsTyped DEF GroupOf
<1>3. PICK p \in i, c \in i : p.put = TRUE /\ c.put = FALSE
  BY DEF HasBothSides
<1>4. \A o \in i : o = p \/ o = c
  BY <1>2, <1>3, PlaceableAssumption
<1>5. i = {p, c} /\ MayPair(p, c)
  BY <1>2, <1>3, <1>4 DEF MayPair
<1>6. QED
  BY <1>2, <1>5 DEF ItemOf

LEMMA ItemShapes ==
    ASSUME PortfolioInv, NEW list \in SUBSET Listing
    PROVE  \A i \in GroupPositions(list) : ItemOf(i, list)
<1>1. \A i \in PairUp(Ungrouped(list)) : ItemOf(i, list)
  <2>1. Ungrouped(list) \in SUBSET Listing /\ Ungrouped(list) \subseteq list
    BY DEF Ungrouped
  <2>2. \A i \in PairUp(Ungrouped(list)) : ItemOf(i, Ungrouped(list))
    BY <2>1, PairsAreItems
  <2>3. QED
    BY <2>1, <2>2 DEF ItemOf
<1>2. \A i \in RangesOf(list) : ItemOf(i, list)
  BY <1>1, GroupsAreItems DEF RangesOf
<1>3. \A o \in list : ItemOf({o}, list)
  BY DEF ItemOf
<1>4. QED
  BY <1>2, <1>3, ItemsAre

LEMMA AloneIs ==
    ASSUME NEW o
    PROVE  ~IsRange({o}) /\ Only({o}) = o
<1>1. Cardinality({o}) = 1
  BY FS_Singleton
<1>2. QED
  BY <1>1 DEF IsRange, Only

LEMMA RangeIs ==
    ASSUME NEW p, NEW c, MayPair(p, c)
    PROVE  IsRange({p, c}) /\ PutLeg({p, c}) = p /\ CallLeg({p, c}) = c
<1>1. p # c
  BY DEF MayPair
<1>2. Cardinality({p, c}) = 2
  <2>1. IsFiniteSet({p}) /\ Cardinality({p}) = 1
    BY FS_Singleton
  <2>2. Cardinality({p} \cup {c}) = 1 + 1
    BY <1>1, <2>1, FS_AddElement
  <2>3. {p} \cup {c} = {p, c}
    OBVIOUS
  <2>4. QED
    BY <2>2, <2>3
<1>3. QED
  BY <1>1, <1>2 DEF IsRange, PutLeg, CallLeg, MayPair

-----------------------------------------------------------------------------
(* The totals.                                                              *)

LEMMA SumApart ==
    ASSUME NEW f, NEW S, IsFiniteSet(S), NEW T, IsFiniteSet(T), S \cap T = {},
           \A x \in S \cup T : f[x] \in Int
    PROVE  SumFunctionOnSet(f, S \cup T) = SumFunctionOnSet(f, S) + SumFunctionOnSet(f, T)
<1> DEFINE Sum(U) == SumFunctionOnSet(f, U)
           G == {U \in SUBSET T : Sum(S \cup U) = Sum(S) + Sum(U)}
<1>1. {} \in G
  <2>1. Sum(S) \in Int
    BY SumType
  <2>2. S \cup {} = S /\ Sum({}) = 0
    BY SumEmpty
  <2> HIDE DEF Sum
  <2>3. QED
    BY <2>1, <2>2
<1>2. ASSUME NEW U \in SUBSET T, NEW x \in T, U \in G, x \notin U
      PROVE  U \cup {x} \in G
  <2>1. IsFiniteSet(U) /\ IsFiniteSet(S \cup U)
    BY FS_Subset, FS_Union
  <2>2. Sum(U \cup {x}) = f[x] + Sum(U) /\ Sum(U) \in Int
    BY <1>2, <2>1, SumAdd, SumType
  <2>3. Sum((S \cup U) \cup {x}) = f[x] + Sum(S \cup U)
    BY <1>2, <2>1, SumAdd
  <2>4. (S \cup U) \cup {x} = S \cup (U \cup {x}) /\ Sum(S) \in Int /\ f[x] \in Int
    BY SumType
  <2>5. Sum(S \cup U) = Sum(S) + Sum(U)
    BY <1>2
  <2>6. Sum(S \cup (U \cup {x})) = f[x] + Sum(S \cup U)
    BY <2>3, <2>4
  <2> HIDE DEF Sum
  <2>7. Sum(S \cup (U \cup {x})) = Sum(S) + Sum(U \cup {x})
    BY <2>2, <2>4, <2>5, <2>6
  <2>8. QED
    BY <2>7 DEF Sum
<1> HIDE DEF G
<1>3. T \in G
  BY <1>1, <1>2, SetInduction
<1>4. QED
  BY <1>3 DEF G

(* A total is the total of the items' own totals.                           *)
LEMMA SumOfItems ==
    ASSUME NEW f, NEW list, IsFiniteSet(list), \A x \in list : f[x] \in Int,
           NEW items, Divides(items, list), NEW F,
           \A i \in items : F[i] = SumFunctionOnSet(f, i)
    PROVE  SumFunctionOnSet(f, list) = SumFunctionOnSet(F, items)
<1> DEFINE G == {J \in SUBSET items : SumFunctionOnSet(f, UNION J) = SumFunctionOnSet(F, J)}
<1>1. items \in SUBSET SUBSET list /\ IsFiniteSet(items)
  <2>1. items \subseteq SUBSET list
    BY DEF Divides
  <2>2. IsFiniteSet(SUBSET list)
    BY FS_SUBSET
  <2>3. QED
    BY <2>1, <2>2, FS_Subset
<1>2. \A i \in items : IsFiniteSet(i) /\ F[i] \in Int
  BY <1>1, FS_Subset, SumType
<1>3. {} \in G
  <2>1. UNION {} = {}
    OBVIOUS
  <2>2. QED
    BY <2>1, SumEmpty
<1>4. ASSUME NEW J \in SUBSET items, NEW i \in items, J \in G, i \notin J
      PROVE  J \cup {i} \in G
  <2>1. UNION (J \cup {i}) = (UNION J) \cup i /\ (UNION J) \cap i = {} /\ UNION J \subseteq list
    BY <1>1, <1>4 DEF Divides
  <2>2. IsFiniteSet(UNION J) /\ IsFiniteSet(i) /\ IsFiniteSet(J)
    BY <1>1, <1>2, <2>1, FS_Subset
  <2>3. \A x \in (UNION J) \cup i : f[x] \in Int
    BY <1>1, <2>1
  <2>4. SumFunctionOnSet(f, UNION (J \cup {i})) = SumFunctionOnSet(f, UNION J) + SumFunctionOnSet(f, i)
    BY <2>1, <2>2, <2>3, SumApart
  <2>5. SumFunctionOnSet(F, J \cup {i}) = F[i] + SumFunctionOnSet(F, J)
    BY <1>2, <1>4, <2>2, SumAdd
  <2>6. SumFunctionOnSet(F, J) \in Int /\ F[i] \in Int
    BY <1>2, <2>2, SumType
  <2>7. SumFunctionOnSet(f, UNION J) = SumFunctionOnSet(F, J) /\ SumFunctionOnSet(f, i) = F[i]
    BY <1>4
  <2>8. SumFunctionOnSet(f, UNION (J \cup {i})) = SumFunctionOnSet(F, J \cup {i})
    BY <2>4, <2>5, <2>6, <2>7
  <2>9. QED
    BY <2>8
<1> HIDE DEF G
<1>5. items \in G
  BY <1>1, <1>3, <1>4, SetInduction
<1>6. QED
  BY <1>5 DEF G, Divides

LEMMA SumOfOne ==
    ASSUME NEW f, NEW o, f[o] \in Int
    PROVE  SumFunctionOnSet(f, {o}) = f[o]
<1>1. {} \cup {o} = {o} /\ IsFiniteSet({}) /\ SumFunctionOnSet(f, {}) = 0
  BY FS_EmptySet, SumEmpty
<1>2. SumFunctionOnSet(f, {} \cup {o}) = f[o] + SumFunctionOnSet(f, {})
  BY <1>1, SumAdd
<1>3. QED
  BY <1>1, <1>2

LEMMA SumOfTwo ==
    ASSUME NEW f, NEW o, NEW q, q # o, f[o] \in Int, f[q] \in Int
    PROVE  SumFunctionOnSet(f, {o, q}) = f[o] + f[q]
<1>1. {o} \cup {q} = {o, q} /\ IsFiniteSet({o})
  BY FS_Singleton
<1>2. q \notin {o} /\ (\A x \in {o} \cup {q} : f[x] \in Int) /\ f[q] \in Int
  OBVIOUS
<1>3. SumFunctionOnSet(f, {o} \cup {q}) = f[q] + SumFunctionOnSet(f, {o})
  BY <1>1, <1>2, SumAdd
<1>4. SumFunctionOnSet(f, {o}) = f[o]
  BY SumOfOne
<1>5. SumFunctionOnSet(f, {o, q}) = f[q] + f[o]
  BY <1>1, <1>3, <1>4
<1>6. QED
  BY <1>5

(* What a card or a row of the log says was earned or is committed.         *)
LEMMA CardTotals ==
    ASSUME PortfolioInv, NEW list \in SUBSET Listing, NEW item, ItemOf(item, list)
    PROVE  /\ Card(item, 0).committed = SumFunctionOnSet(CapitalOf, item)
           /\ Card(item, 0).earned = SumFunctionOnSet(PremiumOf, item)
           /\ LogRow(item).earned = SumFunctionOnSet(PremiumOf, item)
<1>1. ASSUME NEW o \in list
      PROVE  /\ PremiumOf[o] = o.premium /\ CapitalOf[o] = CapitalUsd(o)
             /\ PremiumOf[o] \in Int /\ CapitalOf[o] \in Int
  BY FieldsTyped DEF PremiumOf, CapitalOf
<1>2. ASSUME NEW o \in list, item = {o}
      PROVE  /\ Card(item, 0).committed = CapitalUsd(o)
             /\ Card(item, 0).earned = o.premium
             /\ LogRow(item).earned = o.premium
  BY <1>2, AloneIs DEF Card, ActiveCard, LogRow, TradeRow
<1>3. ASSUME NEW p \in list, NEW c \in list, item = {p, c}, MayPair(p, c)
      PROVE  /\ Card(item, 0).committed = CapitalUsd(p) + CapitalUsd(c)
             /\ Card(item, 0).earned = p.premium + c.premium
             /\ LogRow(item).earned = p.premium + c.premium
  BY <1>3, RangeIs DEF Card, RangeCard, LogRow, RangeTradeRow
<1>4. CASE \E o \in list : item = {o}
  <2>1. PICK o \in list : item = {o}
    BY <1>4
  <2>2. /\ SumFunctionOnSet(CapitalOf, {o}) = CapitalOf[o]
        /\ SumFunctionOnSet(PremiumOf, {o}) = PremiumOf[o]
    BY <1>1, SumOfOne
  <2>3. QED
    BY <1>1, <1>2, <2>1, <2>2
<1>5. CASE \E p, c \in list : item = {p, c} /\ MayPair(p, c)
  <2>1. PICK p \in list, c \in list : item = {p, c} /\ MayPair(p, c)
    BY <1>5
  <2>2. p # c
    BY <2>1 DEF MayPair
  <2>3. /\ SumFunctionOnSet(CapitalOf, {p, c}) = CapitalOf[p] + CapitalOf[c]
        /\ SumFunctionOnSet(PremiumOf, {p, c}) = PremiumOf[p] + PremiumOf[c]
    BY <1>1, <2>2, SumOfTwo
  <2>4. QED
    BY <1>1, <1>3, <2>1, <2>3
<1>6. QED
  BY <1>4, <1>5 DEF ItemOf

LEMMA SummaryTold == ASSUME PortfolioInv PROVE SummaryIsOnCards
<1> DEFINE committed == [i \in ActiveItems |-> Card(i, 0).committed]
           earned == [i \in ActiveItems |-> Card(i, 0).earned]
           logged == [i \in TradeLog(TRUE) |-> LogRow(i).earned]
<1>1. /\ Active \in SUBSET Listing /\ History \in SUBSET Listing
      /\ Active \cup History = Listing /\ Active \cap History = {}
  BY DEF Active, History
<1>2. /\ IsFiniteSet(Active) /\ IsFiniteSet(History)
      /\ \A o \in Listing : PremiumOf[o] \in Int /\ CapitalOf[o] \in Int
  <2>1. IsFiniteSet(Listing)
    BY ShownPlaceable, PlaceableAssumption, FS_Subset
  <2>2. QED
    BY <1>1, <2>1, FS_Subset, FieldsTyped DEF PremiumOf, CapitalOf
<1>3. /\ Divides(ActiveItems, Active) /\ \A i \in ActiveItems : ItemOf(i, Active)
      /\ Divides(HistoryItems, History) /\ \A i \in HistoryItems : ItemOf(i, History)
  BY <1>1, ItemsDivide, ItemShapes DEF ActiveItems, HistoryItems
<1>4. TradeLog(TRUE) = HistoryItems
  BY DEF TradeLog
<1>5. /\ \A i \in ActiveItems : /\ committed[i] = SumFunctionOnSet(CapitalOf, i)
                                /\ earned[i] = SumFunctionOnSet(PremiumOf, i)
      /\ \A i \in HistoryItems : logged[i] = SumFunctionOnSet(PremiumOf, i)
  BY <1>1, <1>3, <1>4, CardTotals
<1> HIDE DEF committed, earned, logged
<1>6. /\ SumFunctionOnSet(CapitalOf, Active) = SumFunctionOnSet(committed, ActiveItems)
      /\ SumFunctionOnSet(PremiumOf, Active) = SumFunctionOnSet(earned, ActiveItems)
      /\ SumFunctionOnSet(PremiumOf, History) = SumFunctionOnSet(logged, HistoryItems)
  BY <1>1, <1>2, <1>3, <1>5, SumOfItems
<1>7. SumFunctionOnSet(PremiumOf, Listing)
        = SumFunctionOnSet(PremiumOf, Active) + SumFunctionOnSet(PremiumOf, History)
  BY <1>1, <1>2, SumApart
<1>8. /\ Summary.activeCapital = SumFunctionOnSet(committed, ActiveItems)
      /\ Summary.earned = SumFunctionOnSet(earned, ActiveItems)
                            + SumFunctionOnSet(logged, TradeLog(TRUE))
  BY <1>4, <1>6, <1>7 DEF Summary
<1>9. QED
  BY <1>8 DEF SummaryIsOnCards, committed, earned, logged

-----------------------------------------------------------------------------
(* The chart.                                                               *)

LEMMA EarlierIsOrder ==
    ASSUME PortfolioInv, NEW o \in Listing, NEW p \in Listing, NEW q \in Listing
    PROVE  /\ o # p => Earlier(o, p) \/ Earlier(p, o)
           /\ Earlier(o, p) /\ Earlier(p, q) => Earlier(o, q)
<1>1. o.at \in Nat /\ p.at \in Nat /\ q.at \in Nat
  BY FieldsTyped
<1>2. o # p => Before(o, p) \/ Before(p, o)
  BY OrderIsTotal
<1>3. Before(o, p) /\ Before(p, q) => Before(o, q)
  BY OrderIsTransitive
<1>4. QED
  BY <1>1, <1>2, <1>3 DEF Earlier

LEMMA LastExists ==
    ASSUME PortfolioInv, NEW list \in SUBSET Listing, list # {}
    PROVE  \E o \in list : UpTo(o, list) = list
<1> DEFINE HasLast(T) == \E o \in T : \A p \in T : p = o \/ Earlier(p, o)
           G == {T \in SUBSET list : T = {} \/ HasLast(T)}
<1>1. IsFiniteSet(list)
  BY ShownPlaceable, PlaceableAssumption, FS_Subset
<1>2. {} \in G
  OBVIOUS
<1>3. ASSUME NEW T \in SUBSET list, NEW x \in list, T \in G, x \notin T
      PROVE  T \cup {x} \in G
  <2>1. CASE T = {}
    BY <2>1
  <2>2. CASE T # {}
    <3>1. PICK o \in T : \A p \in T : p = o \/ Earlier(p, o)
      BY <1>3, <2>2
    <3>2. CASE Earlier(x, o)
      <4>1. \A p \in T \cup {x} : p = o \/ Earlier(p, o)
        BY <3>1, <3>2
      <4>2. QED
        BY <4>1
    <3>3. CASE Earlier(o, x)
      <4>1. \A p \in T \cup {x} : p = x \/ Earlier(p, x)
        BY <3>1, <3>3, EarlierIsOrder
      <4>2. QED
        BY <4>1
    <3>4. QED
      BY <1>3, <3>2, <3>3, EarlierIsOrder
  <2>3. QED
    BY <2>1, <2>2
<1> HIDE DEF G
<1>4. list \in G
  BY <1>1, <1>2, <1>3, SetInduction
<1>5. QED
  BY <1>4 DEF G, UpTo

LEMMA OldestIsLast ==
    ASSUME PortfolioInv, NEW list \in SUBSET Listing, list # {}
    PROVE  Oldest(list, Cardinality(list)) \in list
           /\ UpTo(Oldest(list, Cardinality(list)), list) = list
<1>1. IsFiniteSet(list)
  BY ShownPlaceable, PlaceableAssumption, FS_Subset
<1>2. \E o \in list : Cardinality(UpTo(o, list)) = Cardinality(list)
  BY LastExists
<1> DEFINE o == Oldest(list, Cardinality(list))
<1>3. o \in list /\ Cardinality(UpTo(o, list)) = Cardinality(list)
  BY <1>2 DEF Oldest
<1>4. UpTo(o, list) \in SUBSET list
  BY DEF UpTo
<1> HIDE DEF o
<1>5. UpTo(o, list) = list
  BY <1>1, <1>3, <1>4, FS_Subset
<1>6. QED
  BY <1>3, <1>5 DEF o

LEMMA ChartedIs ==
    ASSUME PortfolioInv, NEW p \in DOMAIN Since, Listing # {}
    PROVE  /\ Charted(p) \in SUBSET Listing /\ Charted(p) # {}
           /\ \A q \in Listing, o \in Charted(p) : q \in Charted(p) \/ Earlier(q, o)
<1> DEFINE subset == {o \in Listing : o.at >= Since[p]}
<1>1. CASE subset = {}
  BY <1>1 DEF Charted
<1>2. CASE subset # {}
  <2>1. Charted(p) = subset
    BY <1>2 DEF Charted
  <2>2. \A q \in Listing, o \in subset : q \in subset \/ q.at < o.at
    BY FieldsTyped, PageAssumption
  <2>3. QED
    BY <1>2, <2>1, <2>2 DEF Earlier
<1>3. QED
  BY <1>1, <1>2

(* The points of a period, from the zero to the total.                      *)
LEMMA PointsAre ==
    ASSUME PortfolioInv, NEW p \in DOMAIN Since, Listing # {}
    PROVE  \E n \in Nat \ {0} :
             /\ DOMAIN Points(p) = 0 .. n /\ LastOf(Points(p)) = n
             /\ Points(p)[n].cumulative = SumFunctionOnSet(PremiumOf, Listing)
             /\ \A i \in 0 .. n : /\ Points(p)[i].cumulative \in Nat
                                   /\ Points(p)[i].cumulative <= Points(p)[n].cumulative
<1> DEFINE list == Charted(p)
           n == Cardinality(list)
           zero == [at |-> Oldest(list, 1).at - 1, cumulative |-> 0, assigned |-> FALSE]
           total == SumFunctionOnSet(PremiumOf, Listing)
<1>1. list \in SUBSET Listing /\ list # {}
  BY ChartedIs
<1>2. IsFiniteSet(Listing) /\ IsFiniteSet(list) /\ n \in Nat \ {0}
  <2>1. IsFiniteSet(Listing)
    BY ShownPlaceable, PlaceableAssumption, FS_Subset
  <2>2. IsFiniteSet(list)
    BY <1>1, <2>1, FS_Subset
  <2>3. QED
    BY <1>1, <2>1, <2>2, FS_CardinalityType, FS_EmptySet
<1>3. Points(p) = [i \in 0 .. n |-> IF i = 0 THEN zero ELSE ChartPoint(Oldest(list, i))]
  BY <1>1 DEF Points
<1>4. \A S \in SUBSET Listing : /\ SumFunctionOnSet(PremiumOf, S) \in Nat
                                /\ SumFunctionOnSet(PremiumOf, S) <= total
  <2>1. ASSUME NEW S \in SUBSET Listing
        PROVE  SumFunctionOnSet(PremiumOf, S) \in Nat /\ SumFunctionOnSet(PremiumOf, S) <= total
    <3>1. S \cup (Listing \ S) = Listing /\ S \cap (Listing \ S) = {}
          /\ IsFiniteSet(S) /\ IsFiniteSet(Listing \ S)
      BY <1>2, FS_Subset
    <3>2. \A o \in Listing : PremiumOf[o] \in Nat /\ PremiumOf[o] \in Int
      BY FieldsTyped DEF PremiumOf
    <3>3. /\ SumFunctionOnSet(PremiumOf, S) \in Nat
          /\ SumFunctionOnSet(PremiumOf, Listing \ S) \in Nat
      BY <3>1, <3>2, SumNat
    <3>4. SumFunctionOnSet(PremiumOf, S \cup (Listing \ S))
            = SumFunctionOnSet(PremiumOf, S) + SumFunctionOnSet(PremiumOf, Listing \ S)
      BY <3>1, <3>2, SumApart
    <3>5. total = SumFunctionOnSet(PremiumOf, S) + SumFunctionOnSet(PremiumOf, Listing \ S)
      BY <3>1, <3>4
    <3> HIDE DEF total
    <3>6. QED
      BY <3>3, <3>5
  <2>2. QED
    BY <2>1
<1>5. ASSUME NEW o PROVE ChartPoint(o).cumulative \in Nat /\ ChartPoint(o).cumulative <= total
  <2>1. UpTo(o, Listing) \in SUBSET Listing
    BY DEF UpTo
  <2>2. QED
    BY <1>4, <2>1 DEF ChartPoint
<1>6. ChartPoint(Oldest(list, n)).cumulative = total
  <2>1. Oldest(list, n) \in list /\ UpTo(Oldest(list, n), list) = list
    BY <1>1, OldestIsLast
  <2>2. UpTo(Oldest(list, n), Listing) = Listing
    BY <1>1, <2>1, ChartedIs DEF UpTo
  <2>3. QED
    BY <2>2 DEF ChartPoint
<1>7. zero.cumulative = 0 /\ 0 <= total
  BY <1>4
<1>8. LastOf(Points(p)) = n
  <2>1. 0 \in Int /\ n \in Int
    BY <1>2
  <2>2. Cardinality(0 .. n) = n + 1
    BY <1>2, <2>1, FS_Interval
  <2>3. DOMAIN Points(p) = 0 .. n
    BY <1>3
  <2> HIDE DEF n
  <2>4. QED
    BY <1>2, <2>2, <2>3 DEF LastOf
<1> HIDE DEF n, list, zero, total
<1>9. DOMAIN Points(p) = 0 .. n /\ n \in 0 .. n
  BY <1>2, <1>3
<1>10. Points(p)[n].cumulative = total
  BY <1>2, <1>3, <1>6, <1>9
<1>11. \A i \in 0 .. n : Points(p)[i].cumulative \in Nat /\ Points(p)[i].cumulative <= total
  BY <1>3, <1>5, <1>7
<1>12. QED
  BY <1>2, <1>8, <1>9, <1>10, <1>11 DEF total

LEMMA ChartTotal == ASSUME PortfolioInv PROVE ChartEndsAtTotal
<1> SUFFICES ASSUME Listing # {}, NEW p \in DOMAIN Since
             PROVE  Points(p)[LastOf(Points(p))].cumulative = Summary.earned
  BY DEF ChartEndsAtTotal
<1>1. PICK n \in Nat \ {0} :
        /\ DOMAIN Points(p) = 0 .. n /\ LastOf(Points(p)) = n
        /\ Points(p)[n].cumulative = SumFunctionOnSet(PremiumOf, Listing)
  BY PointsAre
<1>2. Summary.earned = SumFunctionOnSet(PremiumOf, Listing)
  BY DEF Summary
<1>3. QED
  BY <1>1, <1>2

-----------------------------------------------------------------------------
(* Cards, settlement and the log.                                           *)

\* What the card of an item says of a price is what settlement would do.
Foretells(item, spot) ==
    LET now == Card(item, spot).now
        itm == {o \in item : ItmAt(o, spot)}
    IN  /\ now = "keeping" <=> itm = {}
        /\ now = "buying" => \E o \in itm : o.put
        /\ now = "selling" => \E o \in itm : ~o.put
        /\ HasBothSides(itm) => PutLeg(item).strike > CallLeg(item).strike

LEMMA CardOfOne ==
    ASSUME NEW o, o.put \in BOOLEAN, NEW spot
    PROVE  Foretells({o}, spot)
<1> DEFINE itm == {x \in {o} : ItmAt(x, spot)}
<1>1. Card({o}, spot).now = IF o.put /\ spot < o.strike THEN "buying"
                            ELSE IF ~o.put /\ spot > o.strike THEN "selling" ELSE "keeping"
  BY AloneIs DEF Card, ActiveCard
<1>2. ~HasBothSides(itm)
  <2>1. {x.put : x \in itm} \subseteq {o.put}
    OBVIOUS
  <2>2. QED
    BY <2>1 DEF HasBothSides
<1>3. ItmAt(o, spot) <=> IF o.put THEN spot < o.strike ELSE spot > o.strike
  BY DEF ItmAt
<1>4. (itm = {} <=> ~ItmAt(o, spot)) /\ (ItmAt(o, spot) => o \in itm)
  OBVIOUS
<1> HIDE DEF itm
<1>5. LET now == Card({o}, spot).now
      IN  /\ now = "keeping" <=> itm = {}
          /\ now = "buying" => o \in itm /\ o.put
          /\ now = "selling" => o \in itm /\ ~o.put
  BY <1>1, <1>3, <1>4
<1>6. QED
  BY <1>2, <1>5 DEF Foretells, itm

LEMMA CardOfRange ==
    ASSUME NEW p, NEW c, MayPair(p, c), NEW spot \in Nat, p.strike \in Nat, c.strike \in Nat
    PROVE  Foretells({p, c}, spot)
<1> DEFINE itm == {o \in {p, c} : ItmAt(o, spot)}
<1>1. Card({p, c}, spot).now = IF spot > c.strike THEN "selling"
                               ELSE IF spot < p.strike THEN "buying" ELSE "keeping"
  BY RangeIs DEF Card, RangeCard
<1>2. (ItmAt(p, spot) <=> spot < p.strike) /\ (ItmAt(c, spot) <=> spot > c.strike)
  BY DEF ItmAt, MayPair
<1>3. /\ p \in itm <=> ItmAt(p, spot)
      /\ c \in itm <=> ItmAt(c, spot)
      /\ itm = {} <=> ~ItmAt(p, spot) /\ ~ItmAt(c, spot)
  OBVIOUS
<1>4. HasBothSides(itm) => p \in itm /\ c \in itm
  <2>1. itm \subseteq {p, c} /\ p.put /\ ~c.put
    BY DEF MayPair
  <2> HIDE DEF itm
  <2>2. ASSUME HasBothSides(itm) PROVE p \in itm /\ c \in itm
    <3>1. (\E o \in itm : o.put = TRUE) /\ \E o \in itm : o.put = FALSE
      BY <2>2 DEF HasBothSides
    <3>2. QED
      BY <2>1, <3>1
  <2>3. QED
    BY <2>2
<1>5. PutLeg({p, c}) = p /\ CallLeg({p, c}) = c
  BY RangeIs
<1> HIDE DEF itm
<1>6. LET now == Card({p, c}, spot).now
      IN  /\ now = "keeping" <=> itm = {}
          /\ now = "buying" => p \in itm
          /\ now = "selling" => c \in itm
          /\ HasBothSides(itm) => p.strike > c.strike
  BY <1>1, <1>2, <1>3, <1>4
<1>7. p.put /\ ~c.put
  BY DEF MayPair
<1>8. QED
  BY <1>5, <1>6, <1>7 DEF Foretells, itm

LEMMA CardsForetell == ASSUME PortfolioInv PROVE NowIsOutcome
<1>1. ASSUME NEW item \in ActiveItems, NEW spot \in Spots
      PROVE  Foretells(item, spot)
  <2>1. Active \in SUBSET Listing
    BY DEF Active
  <2>2. ItemOf(item, Active)
    BY <2>1, ItemShapes DEF ActiveItems
  <2>3. ASSUME NEW o \in Active, item = {o} PROVE Foretells(item, spot)
    BY <2>1, <2>3, FieldsTyped, CardOfOne
  <2>4. ASSUME NEW p \in Active, NEW c \in Active, item = {p, c}, MayPair(p, c)
        PROVE  Foretells(item, spot)
    BY <2>1, <2>4, FieldsTyped, PageAssumption, CardOfRange
  <2>5. QED
    BY <2>2, <2>3, <2>4 DEF ItemOf
<1>2. QED
  BY <1>1 DEF Foretells, NowIsOutcome

\* The log says of an item what the rows of its positions say.
LEMMA RowOfItem ==
    ASSUME PortfolioInv, NEW list \in SUBSET Listing, NEW item, ItemOf(item, list)
    PROVE  LogRow(item).outcome = "Assigned" <=> \E o \in item : known[o] = "assigned"
<1>1. ASSUME NEW o, item = {o}
      PROVE  LogRow(item).outcome = "Assigned" <=> \E x \in item : known[x] = "assigned"
  BY <1>1, AloneIs DEF LogRow, TradeRow
<1>2. ASSUME NEW p, NEW c, item = {p, c}, MayPair(p, c)
      PROVE  LogRow(item).outcome = "Assigned" <=> \E x \in item : known[x] = "assigned"
  BY <1>2, RangeIs DEF LogRow, RangeTradeRow
<1>3. QED
  BY <1>1, <1>2 DEF ItemOf

LEMMA LogTold == ASSUME PortfolioInv PROVE LogIsOutcome
<1> SUFFICES ASSUME NEW item \in HistoryItems
             PROVE  LET assigned == LogRow(item).outcome = "Assigned"
                    IN  /\ assigned <=> \E o \in item : ChartPoint(o).assigned
                        /\ assigned => \E o \in item : ItmAt(o, expiryPrice)
  BY DEF LogIsOutcome
<1>1. History \in SUBSET Listing /\ History \subseteq Placeable
  BY ShownPlaceable DEF History
<1>2. ItemOf(item, History) /\ item \subseteq History
  BY <1>1, ItemShapes DEF HistoryItems, ItemOf
<1>3. LogRow(item).outcome = "Assigned" <=> \E o \in item : known[o] = "assigned"
  BY <1>1, <1>2, RowOfItem
<1>4. \A o \in item : ChartPoint(o).assigned <=> known[o] = "assigned"
  BY DEF ChartPoint
<1>5. \A o \in item : known[o] = "assigned" => ItmAt(o, expiryPrice)
  BY <1>1, <1>2 DEF PortfolioInv, GoodAnswer, BackendIsRight
<1>6. QED
  BY <1>3, <1>4, <1>5

LEMMA PageTold == ASSUME PortfolioInv PROVE PageAgrees
  BY SummaryTold, ChartTotal, CardsForetell, LogTold DEF PageAgrees

\* PortfolioSummary, the cards, TradeLog and EarningsChart: for any number of orders,
\* ranges, strikes and periods the totals at the top are those of the cards and rows
\* below and the chart ends at them; a card names a side only if settlement at that
\* price exercises it, and the log and the chart call assigned what was in the money.
THEOREM PageTells == PortfolioSpec => []PageAgrees
<1>1. PortfolioInv => PageAgrees
  BY PageTold
<1>2. QED
  BY <1>1, PortfolioInvariance, PTL

-----------------------------------------------------------------------------
(* The app: what holds of a part holds of it in any session.                *)

\* Nothing sent yet, from any balances.
FreshAccount == sent = <<>> /\ outside = 0 /\ held \in [Tokens -> Nat]

\* One of the dialogs that move funds is used, the others are as at the start.
FlowInv ==
    \/ part = "order" /\ RangeInit /\ FundsInit /\ OrderInv
    \/ part = "range" /\ OrderInit /\ FundsInit /\ RangeInv
    \/ part \notin {"order", "range"} /\ OrderInit /\ RangeInit /\ FreshAccount /\ FundsInv

AppInv == FlowInv /\ MenuInv /\ PortfolioInv /\ AccountInv

LEMMA FundsAlways == ASSUME FlowInv PROVE FundsInv
  BY InitFunds DEF FlowInv

LEMMA InitApp == ASSUME AppInit PROVE AppInv
<1>1. FreshAccount /\ OrderInit /\ RangeInit /\ FundsInit
  BY AppAssumption DEF AppInit, FlowsInit, FreshAccount
<1>2. OrderInv /\ RangeInv
  BY <1>1, InitOrder, InitRange DEF FreshAccount
<1>3. FlowInv
  BY <1>1, <1>2, InitFunds DEF FlowInv
<1>4. QED
  BY <1>3, InitPicks, InitPortfolio, InitAccount DEF AppInit, PagesInit, AppInv

LEMMA FlowSteps ==
    ASSUME FlowInv, FlowsNext, UNCHANGED part
    PROVE  FlowInv'
<1>1. CASE part = "order" /\ OrderNext /\ UNCHANGED <<rangeVars, fundsVars>>
  <2>1. OrderInv'
    BY <1>1, StepOrder DEF FlowInv
  <2>2. RangeInit' /\ FundsInit'
    BY <1>1 DEF FlowInv, RangeInit, rangeVars, FundsInit, fundsVars, dialogState
  <2>3. QED
    BY <1>1, <2>1, <2>2 DEF FlowInv
<1>2. CASE part = "range" /\ RangeNext /\ UNCHANGED <<orderVars, fundsVars>>
  <2>1. RangeInv'
    BY <1>2, StepRange DEF FlowInv
  <2>2. OrderInit' /\ FundsInit'
    BY <1>2 DEF FlowInv, OrderInit, orderVars, modalVars, FundsInit, fundsVars, dialogState
  <2>3. QED
    BY <1>2, <2>1, <2>2 DEF FlowInv
<1>3. CASE part = "funds" /\ FundsNext /\ UNCHANGED <<chainVars, orderVars, rangeVars>>
  <2>1. FundsInv'
    BY <1>3, StepFunds DEF FlowInv
  <2>2. OrderInit' /\ RangeInit'
    BY <1>3 DEF FlowInv, OrderInit, orderVars, modalVars, RangeInit, rangeVars
  <2>3. FreshAccount'
    BY <1>3 DEF FlowInv, FreshAccount, chainVars
  <2>4. QED
    BY <1>3, <2>1, <2>2, <2>3 DEF FlowInv
<1>4. QED
  BY <1>1, <1>2, <1>3 DEF FlowsNext

LEMMA FlowsStay == ASSUME FlowInv, UNCHANGED <<part, flowVars>> PROVE FlowInv'
<1>1. UNCHANGED <<chainVars, orderVars>> /\ UNCHANGED <<chainVars, rangeVars>>
      /\ UNCHANGED fundsVars /\ part' = part
  BY DEF flowVars
<1>2. /\ OrderInit => OrderInit'
      /\ RangeInit => RangeInit'
      /\ FundsInit => FundsInit'
  BY <1>1 DEF OrderInit, orderVars, modalVars, RangeInit, rangeVars, FundsInit, fundsVars,
              dialogState
<1>3. (OrderInv => OrderInv') /\ (RangeInv => RangeInv') /\ (FundsInv => FundsInv')
  BY <1>1, StepOrder, StepRange, StepFunds
<1>4. FreshAccount => FreshAccount'
  BY <1>1 DEF FreshAccount, chainVars
<1>5. QED
  BY <1>1, <1>2, <1>3, <1>4 DEF FlowInv

LEMMA PageSession ==
    ASSUME MenuInv, PortfolioInv, AccountInv, PagesNext \/ UNCHANGED pagesVars
    PROVE  MenuInv' /\ PortfolioInv' /\ AccountInv'
<1>1. [MenuNext]_menuVars /\ [PortfolioNext]_portfolioVars /\ [AccountNext]_accountVars
  BY DEF PagesNext, pagesVars
<1>2. QED
  BY <1>1, StepPicks, StepPortfolio, StepAccount

LEMMA StepApp == ASSUME AppInv, [AppNext]_appVars PROVE AppInv'
<1>1. /\ FlowsNext \/ UNCHANGED flowVars
      /\ UNCHANGED part
      /\ PagesNext \/ UNCHANGED pagesVars
  BY DEF AppNext, appVars
<1>2. FlowInv'
  BY <1>1, FlowSteps, FlowsStay DEF AppInv
<1>3. QED
  BY <1>1, <1>2, PageSession DEF AppInv

\* What the parts promise, of a session with any of them.
DialogsKeepPromises ==
    /\ RetryNeverDoubles /\ RowsHaveOrders /\ AcceptedMeansSent
    /\ RangesAreWhole /\ PartialIsTrue
    /\ OneTransferAtATime /\ ConfirmedIsTheNewest /\ NamedWalletReceives
PagesKeepPromises ==
    /\ PicksAreListed /\ EachPositionOnce /\ RangesStayTogether
    /\ PageAgrees
    /\ StatusIsCurrent /\ OnOnlyIfConfirmed /\ SubmittingAwaits

LEMMA UnusedOrder ==
    ASSUME OrderInit, held \in [Tokens -> Nat]
    PROVE  OrderTypeOK /\ RetryNeverDoubles /\ RowsHaveOrders /\ AcceptedMeansSent
<1>1. OrderTypeOK
  <2>1. 0 \in 0..MaxMounts /\ FALSE \in BOOLEAN
    BY OrderAssumption
  <2>2. QED
    BY <2>1, Zenon DEF OrderInit, OrderTypeOK
<1>2. QED
  BY <1>1 DEF OrderInit, RetryNeverDoubles, RowsHaveOrders, AcceptedMeansSent

LEMMA UnusedRange ==
    ASSUME RangeInit, Len(sent) \in Nat, DOMAIN sent = 1..Len(sent),
           \A i \in DOMAIN sent : sent[i].call = "order" => sent[i].token # "weth"
    PROVE  RangeTypeOK /\ RangesAreWhole /\ PartialIsTrue
<1>1. RangeTypeOK
  BY DEF RangeInit, RangeTypeOK, Legs
<1>2. LegToken("call") = "weth"
  BY DEF LegToken, RangeInit, NoRangeProps
<1>3. CallNeedsPut
  <2> DEFINE orders(i, leg) == {j \in 1..i : sent[j].call = "order" /\ sent[j].token = LegToken(leg)}
  <2>1. ASSUME NEW i \in DOMAIN sent
        PROVE  Cardinality(orders(i, "call")) <= Cardinality(orders(i, "put"))
    <3>1. i \in Nat /\ 1 \in Int /\ i \in Int
      OBVIOUS
    <3>2. IsFiniteSet(1..i)
      BY <3>1, FS_Interval
    <3>3. Cardinality(orders(i, "put")) \in Nat
      BY <3>2, FS_Subset, FS_CardinalityType
    <3>4. orders(i, "call") = {}
      <4>1. \A j \in 1..i : j \in DOMAIN sent
        BY <3>1
      <4>2. QED
        BY <1>2, <4>1
    <3>5. Cardinality(orders(i, "call")) = 0
      BY <3>4, FS_EmptySet
    <3>6. QED
      BY <3>3, <3>5
  <2>2. QED
    BY <2>1 DEF CallNeedsPut
<1>4. GroupsArePairs /\ PartialIsTrue
  BY DEF RangeInit, GroupsArePairs, PartialIsTrue
<1>5. QED
  BY <1>1, <1>3, <1>4 DEF RangesAreWhole

LEMMA AppPromises ==
    ASSUME AppInv
    PROVE  AppTypeOK /\ DialogsKeepPromises /\ PagesKeepPromises
<1>1. FundsTypeOK /\ OneTransferAtATime /\ ConfirmedIsTheNewest /\ NamedWalletReceives
  BY FundsAlways, InvFunds DEF AppInv
<1>2. /\ OrderTypeOK /\ RetryNeverDoubles /\ RowsHaveOrders /\ AcceptedMeansSent
      /\ RangeTypeOK /\ RangesAreWhole /\ PartialIsTrue
  <2>1. CASE RangeInit /\ OrderInv
    <3>1. sent \in Seq(TxType) /\ Len(sent) \in Nat /\ DOMAIN sent = 1..Len(sent)
      BY <2>1 DEF OrderInv, FlowTypes
    <3>2. ASSUME NEW i \in DOMAIN sent PROVE sent[i].token # "weth"
      <4>1. sent[i] \in TxType
        BY <3>1
      <4>2. QED
        BY <4>1 DEF TxType
    <3>3. QED
      BY <2>1, <3>1, <3>2, InvOrder, UnusedRange
  <2>2. CASE OrderInit /\ RangeInv
    <3>1. held \in [Tokens -> Nat]
      BY <2>2 DEF RangeInv, RangeTypes
    <3>2. RangesAreWhole /\ PartialIsTrue
      BY <2>2, CallsNeedPuts, GroupsPair, PartialTrue DEF RangesAreWhole
    <3>3. QED
      BY <2>2, <3>1, <3>2, UnusedOrder DEF RangeInv
  <2>3. CASE OrderInit /\ RangeInit /\ FreshAccount
    <3>1. Len(sent) \in Nat /\ DOMAIN sent = 1..Len(sent) /\ \A i \in DOMAIN sent : FALSE
      BY <2>3, EmptySeq DEF FreshAccount
    <3>2. QED
      BY <2>3, <3>1, UnusedOrder, UnusedRange DEF FreshAccount
  <2>4. QED
    BY <2>1, <2>2, <2>3 DEF AppInv, FlowInv
<1>3. MenuTypeOK /\ PicksAreListed
  <2>1. MenuTypeOK
    BY DEF AppInv, MenuInv, FieldTypes, RangeMounted, MenuTypeOK
  <2>2. PicksAreListed
    BY DEF AppInv, MenuInv, PicksKept, IsListed, StandsFor, PicksAreListed
  <2>3. QED
    BY <2>1, <2>2
<1>4. /\ PortfolioTypeOK /\ EachPositionOnce /\ RangesStayTogether
      /\ PageAgrees
  <2>1. PortfolioInv
    BY DEF AppInv
  <2>2. QED
    BY <2>1, PortfolioTyped, PositionsOnce, LegsTogether, PageTold
<1>5. AccountTypeOK /\ StatusIsCurrent /\ OnOnlyIfConfirmed /\ SubmittingAwaits
  BY AccountInvImplies DEF AppInv, AccountInv
<1>6. QED
  BY <1>1, <1>2, <1>3, <1>4, <1>5 DEF AppTypeOK, DialogsKeepPromises, PagesKeepPromises

\* The strengthening that every step of the app preserves: a dialog or a page that
\* is not used stays as it starts, and the account with it.
THEOREM AppInvariance == AppSpec => []AppInv
<1>1. AppInit => AppInv
  BY InitApp
<1>2. AppInv /\ [AppNext]_appVars => AppInv'
  BY StepApp
<1>3. QED
  BY <1>1, <1>2, PTL DEF AppSpec

\* The types of all the parts, in any session of the app.
THEOREM AppTypeCorrect == AppSpec => []AppTypeOK
<1>1. AppInv => AppTypeOK
  BY AppPromises
<1>2. QED
  BY <1>1, AppInvariance, PTL

\* What is proved of each dialog by itself is true in any session of the app, which
\* uses one of them: the others, whose state is on the same account, stay as unused
\* ones are, and what they promise holds of an account that another has used.
THEOREM DialogsKeepTheirPromises == AppSpec => []DialogsKeepPromises
<1>1. AppInv => DialogsKeepPromises
  BY AppPromises
<1>2. QED
  BY <1>1, AppInvariance, PTL

\* The same for the price menu, the positions page and the account's data.
THEOREM PagesKeepTheirPromises == AppSpec => []PagesKeepPromises
<1>1. AppInv => PagesKeepPromises
  BY AppPromises
<1>2. QED
  BY <1>1, AppInvariance, PTL

\* A session of the app, seen from a page or from the funds dialogs, is a behaviour of
\* that part by itself, so whatever holds of those, temporal properties included,
\* holds of it.  (The accept and the range dialog are no such parts: either may spend
\* what the other waits for.)
THEOREM PartsOfSession == AppSpec => FundsSpec /\ MenuSpec /\ PortfolioSpec /\ AccountSpec
<1>1. AppInit => FundsInit /\ MenuInit /\ PortfolioInit /\ AccountInit
  BY DEF AppInit, FlowsInit, PagesInit
<1>2. [AppNext]_appVars =>
        /\ [FundsNext]_fundsVars /\ [MenuNext]_menuVars
        /\ [PortfolioNext]_portfolioVars /\ [AccountNext]_accountVars
  BY DEF AppNext, appVars, FlowsNext, flowVars, PagesNext, pagesVars
<1>3. QED
  BY <1>1, <1>2, PTL DEF AppSpec, FundsSpec, MenuSpec, PortfolioSpec, AccountSpec
=============================================================================
