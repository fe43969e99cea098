------------------------------ MODULE RangeFlow ------------------------------
(***************************************************************************)
(* RangeAcceptModal: the dialog that accepts a put and a call as one range.  *)
(* handleAccept swaps or wraps what the call still needs, then sends the put *)
(* leg and, once that is confirmed, the call leg; each await can fail, and   *)
(* what the dialog says and allows next depends on how far the run had come. *)
(***************************************************************************)
EXTENDS Execution

CONSTANTS RangeRuns,   \* runs of handleAccept, 1..n
          MayOverlap,  \* bound: whether a run may start while another is under way
          PutNeed, CallNeed   \* collateral of the legs; a swap is one for one

ASSUME RangeAssumption == RangeRuns \subseteq Nat /\ PutNeed \in Nat /\ CallNeed \in Nat

Legs == {"put", "call"}

VARIABLES rangeProps,  \* deployment, engine, quotes and wallet of the dialog
          rangeScreen, \* "menu", "modal" or "accepted"
          rangeStep, hashes, rangeError, didSwap, rangeDeposit,  \* its state
          fresh,       \* quotes with more than DEADLINE_BUFFER_S left
          rangeRuns,   \* each run of handleAccept
          rangeRows,   \* <<run, leg>> with an optimistic position
          tags,        \* requests that group two indexed positions, by run
          rangeOverlapped  \* history: a run started while another was under way

rangeVars == <<rangeProps, rangeScreen, rangeStep, hashes, rangeError, didSwap, rangeDeposit,
               fresh, rangeRuns, rangeRows, tags, rangeOverlapped>>
modalState == <<rangeStep, hashes, rangeError, didSwap, rangeDeposit>>

FreshRangeRun ==
    [pc |-> "none", sawSwap |-> FALSE, short |-> 0, put |-> FALSE, race |-> NoRace]

NoRangeProps == [callToken |-> "weth", router |-> FALSE, complete |-> FALSE,
                 connected |-> FALSE]

RangeInit ==
    /\ rangeProps = NoRangeProps /\ rangeScreen = "menu"
    /\ rangeStep = "idle" /\ hashes = {} /\ rangeError = "none" /\ didSwap = FALSE
    /\ rangeDeposit = "none" /\ fresh = Legs
    /\ rangeRuns = [r \in RangeRuns |-> FreshRangeRun]
    /\ rangeRows = {} /\ tags = [r \in RangeRuns |-> "none"] /\ rangeOverlapped = FALSE

LegToken(leg) == IF leg = "put" THEN "usdc" ELSE rangeProps.callToken
Need(leg) == IF leg = "put" THEN PutNeed ELSE CallNeed

----------------------------------------------------------------------------
(* What the dialog shows and enables.                                       *)

RangeLoading == rangeStep \in {"swapping", "executing-put", "executing-call"}

RangeControls ==
    (IF RangeLoading THEN {} ELSE {"back"})
    \cup (IF RangeLoading \/ rangeStep = "confirmed" THEN {} ELSE {"accept"})
    \cup {leg \in Legs : leg \in hashes}

\* The stepper, the error and the label of the button.
Stepper ==
    IF rangeStep = "idle" THEN {}
    ELSE (IF rangeStep = "swapping" THEN {"swapping", "lower side"} ELSE {})
         \cup (IF didSwap /\ rangeStep # "swapping" THEN {"swap done"} ELSE {})
         \cup (IF rangeStep = "executing-put" THEN {"executing lower side"} ELSE {})
         \cup (IF rangeStep \notin {"swapping", "executing-put"} THEN {"lower side done"} ELSE {})
         \cup CASE rangeStep = "executing-call" -> {"executing upper side"}
                [] rangeStep = "confirmed" -> {"upper side done"}
                [] rangeStep = "partial-put-only" -> {"upper side failed"}
                [] OTHER -> {"upper side"}

----------------------------------------------------------------------------
(* The user at the dialog.                                                  *)

RangeUnder(r) == rangeRuns[r].pc \notin {"none", "ended"}

OpenRange ==
    /\ rangeScreen = "menu" /\ rangeRuns = [r \in RangeRuns |-> FreshRangeRun]
    /\ rangeScreen' = "modal"
    /\ rangeProps' \in [callToken : {"okb", "weth"}, router : BOOLEAN, complete : BOOLEAN,
                       connected : BOOLEAN]
    /\ UNCHANGED <<chainVars, modalState, fresh, rangeRuns, rangeRows, tags, rangeOverlapped>>

\* Without a wallet a deposit is asked for; incomplete quotes and quotes about to
\* expire are refused at once.
AcceptRangeRefused ==
    /\ rangeScreen = "modal" /\ "accept" \in RangeControls
    /\ \/ ~rangeProps.connected /\ rangeDeposit' = "usdc" /\ UNCHANGED rangeError
       \/ /\ rangeProps.connected /\ UNCHANGED rangeDeposit
          /\ \/ ~rangeProps.complete /\ rangeError' = "not available"
             \/ rangeProps.complete /\ fresh # Legs /\ rangeError' = "quotes are expiring"
    /\ UNCHANGED <<chainVars, rangeProps, rangeScreen, rangeStep, hashes, didSwap,
                   fresh, rangeRuns, rangeRows, tags, rangeOverlapped>>

\* The run keeps didSwap as the click's render had it.
HandleRange(r) ==
    /\ rangeScreen = "modal" /\ "accept" \in RangeControls
    /\ rangeProps.connected /\ rangeProps.complete /\ fresh = Legs
    /\ MayOverlap \/ \A q \in RangeRuns : ~RangeUnder(q)
    /\ rangeRuns[r].pc = "none" /\ \A q \in RangeRuns : q < r => rangeRuns[q].pc # "none"
    /\ rangeRuns' = [rangeRuns EXCEPT ![r] =
           [FreshRangeRun EXCEPT !.pc = "read balances", !.sawSwap = didSwap]]
    /\ rangeError' = "none"
    /\ rangeOverlapped' = (rangeOverlapped \/ \E q \in RangeRuns : RangeUnder(q))
    /\ UNCHANGED <<chainVars, rangeProps, rangeScreen, rangeStep, hashes, didSwap, rangeDeposit,
                   fresh, rangeRows, tags>>

CloseRange ==
    /\ rangeScreen = "modal" /\ "back" \in RangeControls /\ rangeScreen' = "menu"
    /\ UNCHANGED <<chainVars, rangeProps, modalState, fresh, rangeRuns, rangeRows, tags,
                   rangeOverlapped>>

\* A wallet may connect in the deposit dialog.
CloseRangeDeposit ==
    /\ rangeDeposit # "none" /\ rangeDeposit' = "none"
    /\ rangeProps' \in {rangeProps, [rangeProps EXCEPT !.connected = TRUE]}
    /\ UNCHANGED <<chainVars, rangeScreen, rangeStep, hashes, rangeError, didSwap,
                   fresh, rangeRuns, rangeRows, tags, rangeOverlapped>>

\* A minute before its deadline a quote counts as expired.
ExpireQuote ==
    /\ rangeScreen = "modal"
    /\ \E leg \in fresh : fresh' = fresh \ {leg}
    /\ UNCHANGED <<chainVars, rangeProps, rangeScreen, modalState, rangeRuns, rangeRows, tags,
                   rangeOverlapped>>

----------------------------------------------------------------------------
(* handleAccept, one step for each await.                                   *)

\* setState of a dialog that is gone does nothing.
Shown(now, then) == IF rangeScreen = "modal" THEN then ELSE now

To(r, pc) == rangeRuns' = [rangeRuns EXCEPT ![r].pc = pc]
Stop(r) == rangeRuns' = [rangeRuns EXCEPT ![r] =
    [FreshRangeRun EXCEPT !.pc = "ended",
                          !.race.asks = IF rangeRuns[r].pc \in {"swap", "wrap"} THEN <<>>
                                        ELSE rangeRuns[r].race.asks]]

LastStepAhead(r) ==
    CASE rangeRuns[r].pc \in {"prepare put", "race put", "prepare call", "race call"} -> "executing-call"
      [] OTHER -> "swapping"

\* lastStep: the step this run came to.
LastStep(r) ==
    CASE rangeRuns[r].pc \in {"read router", "swap", "swap receipt", "read call balance",
                              "wrap", "wrap receipt"} /\ rangeRuns[r].short > 0 -> "swapping"
      [] rangeRuns[r].pc \in {"prepare put", "race put"} -> "executing-put"
      [] rangeRuns[r].pc \in {"prepare call", "race call"} -> "executing-call"
      [] OTHER -> "idle"

\* The catch, of an error whose words the pattern for a refused prompt matches or
\* of another.
CatchRange(r, cancelled) ==
    /\ Stop(r)
    /\ rangeError' = Shown(rangeError,
           CASE cancelled -> "transaction cancelled"
             [] ~cancelled /\ LastStep(r) = "swapping" -> "swap failed"
             [] ~cancelled /\ LastStep(r) = "executing-put" /\ rangeRuns[r].sawSwap ->
                    "lower side failed, swapped"
             [] ~cancelled /\ LastStep(r) = "executing-put" /\ ~rangeRuns[r].sawSwap ->
                    "lower side failed"
             [] ~cancelled /\ LastStep(r) = "executing-call" -> "upper side failed"
             [] OTHER -> "transaction failed")
    /\ rangeStep' = Shown(rangeStep,
           IF ~cancelled /\ LastStep(r) = "executing-call" THEN "partial-put-only" ELSE "idle")
    /\ UNCHANGED <<chainVars, rangeProps, rangeScreen, hashes, didSwap, rangeDeposit, fresh,
                   rangeRows, tags, rangeOverlapped>>

RangeReadFails(r) ==
    /\ rangeRuns[r].pc \in {"read balances", "read router", "read call balance", "prepare put",
                            "prepare call"}
    /\ CatchRange(r, FALSE)

AskDeposit(r, token) ==
    /\ Stop(r) /\ rangeDeposit' = Shown(rangeDeposit, token) /\ UNCHANGED rangeStep

\* Native tokens count as available for every asset.
ReadBalances(r) ==
    LET available == held[rangeProps.callToken] + held["native"]
        short == IF available < CallNeed THEN CallNeed - available ELSE 0
    IN  /\ rangeRuns[r].pc = "read balances"
        /\ \/ /\ short > 0 /\ rangeProps.router
              /\ IF held["usdc"] < PutNeed + short THEN AskDeposit(r, "usdc")
                 ELSE /\ rangeRuns' = [rangeRuns EXCEPT ![r].pc = "read router", ![r].short = short]
                      /\ rangeStep' = Shown(rangeStep, "swapping")
                      /\ UNCHANGED rangeDeposit
           \/ short > 0 /\ ~rangeProps.router /\ AskDeposit(r, "okb")
           \/ short = 0 /\ held["usdc"] < PutNeed /\ AskDeposit(r, "usdc")
           \/ /\ short = 0 /\ held["usdc"] >= PutNeed
              /\ To(r, "read call balance") /\ UNCHANGED <<rangeStep, rangeDeposit>>
        /\ UNCHANGED <<chainVars, rangeProps, rangeScreen, hashes, rangeError, didSwap, fresh,
                       rangeRows, tags, rangeOverlapped>>

ReadRouterAllowance(r) ==
    /\ rangeRuns[r].pc = "read router"
    /\ rangeRuns' = [rangeRuns EXCEPT ![r].pc = "swap", ![r].race.asks =
           (IF "router" \in approved THEN <<>> ELSE <<Call("approve", "router", 0)>>)
           \o <<Call("swap", rangeProps.callToken, rangeRuns[r].short)>>]
    /\ UNCHANGED <<chainVars, rangeProps, rangeScreen, modalState, fresh, rangeRows, tags,
                   rangeOverlapped>>

\* sendBatchTx outside fireAndPoll: signed, the run waits for the receipt of the
\* last call, whatever its status; refused, it fails.
LastSent(r) == LET mine == {i \in DOMAIN sent : sent[i].by = r}
               IN  sent[CHOOSE i \in mine : \A j \in mine : j <= i]

ReceiptArrives(r) ==
    /\ rangeRuns[r].pc \in {"swap", "wrap"} /\ rangeRuns[r].race.asks = <<>>
    /\ LastSent(r).status # "pending"
    /\ IF rangeRuns[r].pc = "swap"
       THEN To(r, "read call balance") /\ didSwap' = Shown(didSwap, TRUE)
            /\ UNCHANGED rangeStep
       ELSE To(r, "prepare put") /\ rangeStep' = Shown(rangeStep, "executing-put")
            /\ UNCHANGED didSwap
    /\ UNCHANGED <<chainVars, rangeProps, rangeScreen, hashes, rangeError, rangeDeposit, fresh,
                   rangeRows, tags, rangeOverlapped>>

\* The library stops waiting for a receipt after three minutes, in words for which
\* the catch leaves the step as it is.
ReceiptTimesOut(r) ==
    /\ rangeRuns[r].pc \in {"swap", "wrap"} /\ rangeRuns[r].race.asks = <<>>
    /\ LastSent(r).status = "pending"
    /\ Stop(r) /\ rangeError' = Shown(rangeError, "timed out")
    /\ UNCHANGED <<chainVars, rangeProps, rangeScreen, rangeStep, hashes, didSwap, rangeDeposit,
                   fresh, rangeRows, tags, rangeOverlapped>>

\* What the token still lacks is wrapped, at the WETH contract for every asset.
ReadCallBalance(r) ==
    LET lacking == CallNeed - held[rangeProps.callToken]
    IN  /\ rangeRuns[r].pc = "read call balance"
        /\ IF lacking > 0
           THEN /\ rangeRuns' = [rangeRuns EXCEPT ![r].pc = "wrap",
                       ![r].race.asks = <<Call("wrap", "weth", lacking)>>]
                /\ UNCHANGED rangeStep
           ELSE To(r, "prepare put") /\ rangeStep' = Shown(rangeStep, "executing-put")
        /\ UNCHANGED <<chainVars, rangeProps, rangeScreen, hashes, rangeError, didSwap,
                       rangeDeposit, fresh, rangeRows, tags, rangeOverlapped>>

\* The allowance and the balance of the leg's token are read, the batch is fired
\* behind prompts the user has left open.
PrepareLeg(r, leg) ==
    /\ rangeRuns[r].pc = IF leg = "put" THEN "prepare put" ELSE "prepare call"
    /\ LET token == LegToken(leg)
           approval == IF token \in approved THEN <<>> ELSE <<Call("approve", token, 0)>>
       IN  rangeRuns' = [rangeRuns EXCEPT
               ![r].pc = IF leg = "put" THEN "race put" ELSE "race call",
               ![r].race = StartRace(rangeRuns[r].race.asks \o approval
                                         \o <<Call("order", token, Need(leg))>>, held[token])]
    /\ UNCHANGED <<chainVars, rangeProps, rangeScreen, modalState, fresh, rangeRows, tags,
                   rangeOverlapped>>

SignRange(r) ==
    /\ rangeRuns[r].race.asks # <<>>
    /\ Submit(r, Head(rangeRuns[r].race.asks))
    /\ rangeRuns' = [rangeRuns EXCEPT ![r].race = SignedRace(@)]
    /\ UNCHANGED <<held, approved, outside, rangeProps, rangeScreen, modalState, fresh,
                   rangeRows, tags, rangeOverlapped>>

RefuseRange(r) ==
    /\ rangeRuns[r].race.asks # <<>>
    /\ IF rangeRuns[r].pc \in {"swap", "wrap"} THEN CatchRange(r, TRUE)
       ELSE /\ rangeRuns' = [rangeRuns EXCEPT ![r].race = RefusedRace(@)]
            /\ UNCHANGED <<chainVars, rangeProps, rangeScreen, modalState, fresh, rangeRows,
                           tags, rangeOverlapped>>

Racing(r) == rangeRuns[r].pc \in {"race put", "race call"}
RacingLeg(r) == IF rangeRuns[r].pc = "race put" THEN "put" ELSE "call"

PollRange(r) ==
    /\ Racing(r) /\ rangeRuns[r].race.poll = "on"
    /\ \E race \in PolledRaces(rangeRuns[r].race, held[LegToken(RacingLeg(r))]) :
           rangeRuns' = [rangeRuns EXCEPT ![r].race = race]
    /\ UNCHANGED <<chainVars, rangeProps, rangeScreen, modalState, fresh, rangeRows, tags,
                   rangeOverlapped>>

\* After the put leg the call's deadline is looked at once more.
PutConfirmed(r) ==
    /\ rangeRuns[r].pc = "race put" /\ Won(rangeRuns[r].race)
    /\ LET signed == rangeRuns[r].race.fire = "hash"
       IN  /\ hashes' = Shown(hashes, IF signed THEN hashes \cup {"put"} ELSE hashes)
           /\ rangeRows' = rangeRows \cup {<<r, "put">>}
           /\ IF "call" \in fresh
              THEN /\ rangeRuns' = [rangeRuns EXCEPT ![r].pc = "prepare call", ![r].put = signed]
                   /\ rangeStep' = Shown(rangeStep, "executing-call") /\ UNCHANGED rangeError
              ELSE /\ Stop(r)
                   /\ rangeStep' = Shown(rangeStep, "partial-put-only")
                   /\ rangeError' = Shown(rangeError, "upper quote expired")
    /\ UNCHANGED <<chainVars, rangeProps, rangeScreen, didSwap, rangeDeposit, fresh, tags,
                   rangeOverlapped>>

CallHash(r) == rangeRuns[r].race.fire = "hash"

\* Only with both hashes can the backend be asked to group the two positions.
BothHashes(r) == CallHash(r) /\ rangeRuns[r].put

CallConfirmed(r) ==
    /\ rangeRuns[r].pc = "race call" /\ Won(rangeRuns[r].race)
    /\ hashes' = Shown(hashes, IF CallHash(r) THEN hashes \cup {"call"} ELSE hashes)
    /\ tags' = [tags EXCEPT ![r] = IF BothHashes(r) THEN "asking" ELSE @]
    /\ rangeRows' = rangeRows \cup {<<r, "call">>}
    /\ Stop(r) /\ rangeStep' = Shown(rangeStep, "confirmed") /\ rangeScreen' = "accepted"
    /\ UNCHANGED <<chainVars, rangeProps, rangeError, didSwap, rangeDeposit, fresh,
                   rangeOverlapped>>

\* Some browsers word it "All promises were rejected", as if a prompt had been.
BothRangeFail(r) ==
    Racing(r) /\ Lost(rangeRuns[r].race) /\ \E rejected \in BOOLEAN : CatchRange(r, rejected)

\* tagGroup asks up to five times while the indexer knows one of the orders only, and
\* gives up at once while it knows none or when the first of them was tagged before.
TagGroup(r) ==
    /\ tags[r] = "asking" /\ \E end \in {"grouped", "given up"} : tags' = [tags EXCEPT ![r] = end]
    /\ UNCHANGED <<chainVars, rangeProps, rangeScreen, modalState, fresh, rangeRuns, rangeRows,
                   rangeOverlapped>>

RangeProgress(r) ==
    \/ RangeReadFails(r) \/ ReadBalances(r) \/ ReadRouterAllowance(r) \/ ReceiptArrives(r)
    \/ ReceiptTimesOut(r) \/ ReadCallBalance(r) \/ \E leg \in Legs : PrepareLeg(r, leg)
    \/ PollRange(r) \/ PutConfirmed(r) \/ CallConfirmed(r) \/ BothRangeFail(r) \/ TagGroup(r)

RangeNext ==
    \/ OpenRange \/ AcceptRangeRefused \/ CloseRange \/ CloseRangeDeposit \/ ExpireQuote
    \/ \E r \in RangeRuns : HandleRange(r) \/ SignRange(r) \/ RefuseRange(r) \/ RangeProgress(r)
    \/ rangeScreen # "menu" /\ Mine /\ UNCHANGED rangeVars

\* The dialog by itself.
RangeSpec == AnyAccount /\ RangeInit /\ [][RangeNext]_<<chainVars, rangeVars>>

----------------------------------------------------------------------------
\* Types; the dialog only asks for deposits of what can be deposited.
RangeTypeOK ==
    /\ rangeScreen \in {"menu", "modal", "accepted"}
    /\ rangeStep \in {"idle", "swapping", "executing-put", "executing-call", "confirmed",
                     "partial-put-only"}
    /\ hashes \subseteq Legs /\ fresh \subseteq Legs /\ didSwap \in BOOLEAN
    /\ rangeDeposit \in {"none", "usdc", "okb"}
    /\ rangeRows \subseteq RangeRuns \X Legs
    /\ tags \in [RangeRuns -> {"none", "asking", "grouped", "given up"}]

\* Nothing outside the one run under way moves the balances its polls compare.
Undisturbed == ~rangeOverlapped /\ outside = 0

LegSent(leg) ==
    \E i \in DOMAIN sent : sent[i].call = "order" /\ sent[i].token = LegToken(leg)

\* The legs go in order: over every failure and retry no more upper sides are sent
\* than lower sides before them.  (A retry may take an earlier run's lower side for
\* its own.)  What is sent need not land: the run goes on with a hash and no receipt,
\* so a lower side may revert when its upper side is on the way and lands alone.
CallNeedsPut ==
    LET orders(i, leg) == Cardinality({j \in 1..i : sent[j].call = "order"
                                                    /\ sent[j].token = LegToken(leg)})
    IN  Undisturbed => \A i \in DOMAIN sent : orders(i, "call") <= orders(i, "put")

\* "Lower side completed but upper side failed", and the same for an expired
\* quote, are said only when a lower side was sent and no upper side was; whether it
\* landed the dialog does not know.
PartialIsTrue ==
    Undisturbed /\ rangeScreen = "modal" /\ rangeStep = "partial-put-only" =>
        LegSent("put") /\ ~LegSent("call")

\* Positions are grouped only when both their orders were sent by one run.
GroupsArePairs ==
    \A r \in RangeRuns : tags[r] = "grouped" => Cardinality(OrdersSent(r)) >= 2

\* The dialog sends no upper side without a lower side, and asks to group no order
\* without another.
RangesAreWhole == CallNeedsPut /\ GroupsArePairs

\* Only an unanswered prompt keeps the dialog busy, or a receipt that came too late.
RangeEnds ==
    RangeLoading ~> (~RangeLoading \/ rangeScreen # "modal" \/ rangeError = "timed out"
                     \/ \E r \in RangeRuns : rangeRuns[r].race.asks # <<>>)
=============================================================================
