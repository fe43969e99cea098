---------------------------- MODULE ExpirySettler ----------------------------
(***************************************************************************)
(* The expiry settler bot (backend/src/bots/xlayer_expiry_settler.py) with *)
(* the contracts and the order_events table it drives.  A cycle of         *)
(* settle_once fetches the unsettled rows, drops those already settled on  *)
(* chain, sets the expiry price, settles the vaults in batches and marks   *)
(* their rows (phase 1), then delivers the positions that are in the money *)
(* with retries and marks the outcome (phase 2).  Between any two of its   *)
(* steps transactions land, others act, or the process restarts.           *)
(*                                                                         *)
(* All positions expired at the same time and write one unit each to one   *)
(* market maker.  The operator's transactions carry consecutive nonces, so *)
(* they land in the order sent, and the one the bot waits for is the last. *)
(*                                                                         *)
(* Bounds: MaxBatch and MaxRetries stand for 50 and settlement_max_retries,*)
(* MaxCrashes bounds restarts, MaxMempool unconfirmed transactions.        *)
(***************************************************************************)
EXTENDS Naturals, Sequences, FiniteSets

CONSTANTS
    Vaults,
    OTokens,
    OTokenOf,       \* vault |-> the oToken it wrote
    Strike,         \* oToken |-> strike price
    IsPut,          \* oToken |-> BOOLEAN
    Prices,         \* prices the feed may show
    MaxBatch,
    MaxRetries,
    MaxCrashes,
    MaxMempool,
    Allowed         \* which of Hazards can happen

(* rpc: a read or a send fails.  receipt: waiting for a receipt times out.  *)
(* db: an update fails.  crash: the process restarts.  settle: an owner     *)
(* calls settleVault.  price: the oracle's owner sets the price.  redeem:   *)
(* the market maker's oTokens are redeemed.                                 *)
Hazards == {"rpc", "receipt", "db", "crash", "settle", "price", "redeem"}

NoPrice == 0

ASSUME SettlerBotAssumption ==
    /\ IsFiniteSet(Vaults)
    /\ OTokenOf \in [Vaults -> OTokens]
    /\ Strike \in [OTokens -> Nat]
    /\ IsPut \in [OTokens -> BOOLEAN]
    /\ Prices \subseteq Nat \ {NoPrice}
    /\ MaxBatch \in Nat \ {0} /\ MaxRetries \in Nat \ {0}
    /\ MaxCrashes \in Nat /\ MaxMempool \in Nat
    /\ Allowed \subseteq Hazards

VARIABLES
    settled,        \* Controller.vaultSettled
    price,          \* Oracle.expiryPrice of the expiry
    delivered,      \* vault |-> physical deliveries made for it
    ledger,         \* oToken |-> the market maker's custodied balance
    mempool,        \* the operator's transactions not yet included
    status,         \* receipt status of the last one included
    rows,           \* vault |-> its row of order_events
    pc,
    todo,           \* what is left of the loop the bot is in
    positions,      \* settle_once: positions
    done,           \* settle_once: settled_positions
    itm,            \* settle_once: itm_positions
    attempt,        \* _physical_redeem_with_retry: attempt
    crashes,
    others          \* history: an owner settled or the market maker redeemed

chainVars == <<settled, price, delivered, ledger, mempool, status>>
botVars == <<pc, todo, positions, done, itm, attempt>>
systemVars == <<chainVars, rows, botVars, crashes>>
vars == <<systemVars, others>>

PhaseOne == {"reconcile", "price", "price_wait", "settle", "settle_wait", "mark"}
PhaseTwo == {"identify", "deliver", "deliver_wait", "delivered", "failed", "otm"}

Row == [is_settled: BOOLEAN,
        settlement_type: {"none", "cash", "physical", "physical_failed"},
        is_itm: {"unknown", "yes", "no"}]

Txs == [kind: {"price"}, arg: Prices] \cup [kind: {"settle"}, arg: SUBSET Vaults]
       \cup [kind: {"deliver"}, arg: Vaults]

\* The type invariant of the settler.
TypeOK ==
    /\ settled \subseteq Vaults
    /\ price \in Prices \cup {NoPrice}
    /\ delivered \in [Vaults -> Nat]
    /\ ledger \in [OTokens -> Nat]
    /\ mempool \in Seq(Txs)
    /\ status \in {"ok", "reverted"}
    /\ rows \in [Vaults -> Row]
    /\ pc \in {"idle"} \cup PhaseOne \cup PhaseTwo
    /\ todo \subseteq Vaults /\ positions \subseteq Vaults
    /\ done \subseteq Vaults /\ itm \subseteq done
    /\ attempt \in 0 .. MaxRetries
    /\ crashes \in 0 .. MaxCrashes

Written(o) == Cardinality({v \in Vaults : OTokenOf[v] = o})

IdleBot ==
    /\ pc' = "idle" /\ todo' = {} /\ positions' = {} /\ done' = {} /\ itm' = {}
    /\ attempt' = 0

Init ==
    /\ settled = {} /\ price = NoPrice /\ mempool = <<>> /\ status = "ok"
    /\ delivered = [v \in Vaults |-> 0]
    /\ ledger = [o \in OTokens |-> Written(o)]
    /\ rows = [v \in Vaults |-> [is_settled |-> FALSE, settlement_type |-> "none",
                                 is_itm |-> "unknown"]]
    /\ pc = "idle" /\ todo = {} /\ positions = {} /\ done = {} /\ itm = {}
    /\ attempt = 0 /\ crashes = 0 /\ others = FALSE

-----------------------------------------------------------------------------
(* The chain.                                                               *)

InTheMoney(v, p) ==
    LET o == OTokenOf[v] IN IF IsPut[o] THEN p < Strike[o] ELSE p > Strike[o]

Deliverable(v) ==
    price # NoPrice /\ InTheMoney(v, price) /\ ledger[OTokenOf[v]] > 0

\* A vault whose settlement reverts does not stop the others of its batch.
LandSettle(batch) ==
    /\ settled' = IF price = NoPrice THEN settled ELSE settled \cup batch
    /\ status' = "ok"
    /\ UNCHANGED <<price, delivered, ledger>>

LandPrice(p) ==
    /\ price' = IF price = NoPrice THEN p ELSE price
    /\ status' = IF price = NoPrice THEN "ok" ELSE "reverted"
    /\ UNCHANGED <<settled, delivered, ledger>>

LandDeliver(v) ==
    /\ \/ /\ Deliverable(v) /\ status' = "ok"
          /\ delivered' = [delivered EXCEPT ![v] = @ + 1]
          /\ ledger' = [ledger EXCEPT ![OTokenOf[v]] = @ - 1]
       \/ ~Deliverable(v) /\ status' = "reverted" /\ UNCHANGED <<delivered, ledger>>
    /\ UNCHANGED <<settled, price>>

Land ==
    /\ mempool # <<>>
    /\ mempool' = Tail(mempool)
    /\ LET tx == Head(mempool)
       IN  \/ tx.kind = "settle" /\ LandSettle(tx.arg)
           \/ tx.kind = "price" /\ LandPrice(tx.arg)
           \/ tx.kind = "deliver" /\ LandDeliver(tx.arg)
    /\ UNCHANGED <<rows, botVars, crashes>>

\* build_and_send_xlayer_tx up to the wait for the receipt.
Send(kind, arg) ==
    /\ Len(mempool) < MaxMempool
    /\ mempool' = Append(mempool, [kind |-> kind, arg |-> arg])
    /\ UNCHANGED <<settled, price, delivered, ledger, status, rows, crashes>>

Confirmed == mempool = <<>> /\ status = "ok"
Reverted == mempool = <<>> /\ status = "reverted"
TimedOut == "receipt" \in Allowed

Fails(hazard) == hazard \in Allowed

-----------------------------------------------------------------------------
(* Phase 1.                                                                 *)

Fetch ==
    LET found == {v \in Vaults : ~rows[v].is_settled}
    IN  /\ pc = "idle" /\ found # {}
        /\ pc' = "reconcile" /\ todo' = found /\ positions' = found
        /\ UNCHANGED <<chainVars, rows, done, itm, attempt, crashes>>

\* _db_update: the fields are written, or the update fails.
Update(v, row) ==
    \/ rows' = [rows EXCEPT ![v] = row]
    \/ Fails("db") /\ UNCHANGED rows

MarkedNothing(v) == rows[v]

MarkedSettled(v) == [rows[v] EXCEPT !.is_settled = TRUE]

MarkedCash(v) == [rows[v] EXCEPT !.is_settled = TRUE, !.settlement_type = "cash"]

ReconcileKeepsSettled(v) ==
    /\ pc = "reconcile" /\ v \in todo
    /\ todo' = todo \ {v}
    /\ \/ v \in settled /\ Update(v, MarkedSettled(v))
       \/ v \notin settled /\ UNCHANGED rows
    /\ UNCHANGED <<chainVars, pc, positions, done, itm, attempt, crashes>>

\* An unreadable position stays; a settled one is dropped, marked or not.
Reconcile(v) ==
    /\ pc = "reconcile" /\ v \in todo
    /\ todo' = todo \ {v}
    /\ \/ /\ v \in settled
          /\ positions' = positions \ {v}
          /\ Update(v, MarkedSettled(v))
       \/ /\ v \notin settled \/ Fails("rpc")
          /\ UNCHANGED <<positions, rows>>
    /\ UNCHANGED <<chainVars, pc, done, itm, attempt, crashes>>

Reconciled ==
    /\ pc = "reconcile" /\ todo = {}
    /\ \/ positions = {} /\ IdleBot
       \/ /\ positions # {} /\ pc' = "price"
          /\ UNCHANGED <<todo, positions, done, itm, attempt>>
    /\ UNCHANGED <<chainVars, rows, crashes>>

BeginSettling ==
    /\ pc' = "settle" /\ todo' = positions
    /\ UNCHANGED <<positions, done, itm, attempt>>

\* Every failure to set the price is logged and the cycle goes on.
SendPrice ==
    /\ pc = "price" /\ price = NoPrice
    /\ \E p \in Prices : Send("price", p)
    /\ pc' = "price_wait"
    /\ UNCHANGED <<todo, positions, done, itm, attempt>>

PriceDone ==
    /\ \/ pc = "price" /\ (price # NoPrice \/ Fails("rpc"))
       \/ pc = "price_wait" /\ (mempool = <<>> \/ TimedOut)
    /\ BeginSettling
    /\ UNCHANGED <<chainVars, rows, crashes>>

Least(a, b) == IF a < b THEN a ELSE b

SendSettle ==
    /\ pc = "settle" /\ todo # {}
    /\ \E batch \in SUBSET todo :
           /\ Cardinality(batch) = Least(MaxBatch, Cardinality(todo))
           /\ Send("settle", batch)
           /\ todo' = batch
    /\ pc' = "settle_wait"
    /\ UNCHANGED <<positions, done, itm, attempt>>

\* The transaction went through: whole batch counted and marked as settled.
BatchConfirmed ==
    /\ pc = "settle_wait" /\ Confirmed
    /\ pc' = "mark" /\ done' = done \cup todo
    /\ UNCHANGED <<chainVars, rows, todo, positions, itm, attempt, crashes>>

EndPhaseOneInverted ==
    \/ done # {} /\ IdleBot
    \/ done = {} /\ pc' = "identify" /\ todo' = {}
       /\ UNCHANGED <<positions, done, itm, attempt>>

EndPhaseOne ==
    \/ done = {} /\ IdleBot
    \/ done # {} /\ pc' = "identify" /\ todo' = {}
       /\ UNCHANGED <<positions, done, itm, attempt>>

\* A batch that cannot be sent or confirmed ends phase 1.
BatchFailed ==
    /\ \/ pc = "settle" /\ Fails("rpc")
       \/ pc = "settle_wait" /\ (Reverted \/ TimedOut)
    /\ EndPhaseOne
    /\ UNCHANGED <<chainVars, rows, crashes>>

Mark(v) ==
    /\ pc = "mark" /\ v \in todo
    /\ Update(v, MarkedCash(v))
    /\ todo' = todo \ {v}
    /\ UNCHANGED <<chainVars, pc, positions, done, itm, attempt, crashes>>

Marked ==
    /\ pc = "mark" /\ todo = {}
    /\ \/ /\ positions \ done # {}
          /\ pc' = "settle" /\ todo' = positions \ done
          /\ UNCHANGED <<positions, done, itm, attempt>>
       \/ positions \subseteq done /\ EndPhaseOne
    /\ UNCHANGED <<chainVars, rows, crashes>>

-----------------------------------------------------------------------------
(* Phase 2.  Positions whose price cannot be read are skipped.              *)

BeginDelivery(found, skipped) ==
    /\ pc' = "deliver" /\ itm' = found /\ done' = done \ skipped /\ todo' = found
    /\ UNCHANGED <<positions, attempt>>

IdentifyNothingSkipped ==
    /\ pc = "identify"
    /\ \/ /\ price # NoPrice
          /\ BeginDelivery({v \in done : InTheMoney(v, price)}, {})
       \/ (price = NoPrice \/ Fails("rpc")) /\ BeginDelivery({}, {})
    /\ UNCHANGED <<chainVars, rows, crashes>>

Identify ==
    /\ pc = "identify"
    /\ \/ /\ price # NoPrice
          /\ BeginDelivery({v \in done : InTheMoney(v, price)}, {})
       \/ (price = NoPrice \/ Fails("rpc")) /\ BeginDelivery({}, done)
    /\ UNCHANGED <<chainVars, rows, crashes>>

\* positions holds the position being delivered from here on.
SendDeliver(v) ==
    /\ pc = "deliver" /\ attempt < MaxRetries
    /\ IF attempt = 0 THEN v \in todo ELSE positions = {v}
    /\ positions' = {v} /\ attempt' = attempt + 1
    /\ \/ /\ Deliverable(v)
          /\ Send("deliver", v) /\ pc' = "deliver_wait"
       \/ /\ ~Deliverable(v) \/ Fails("rpc")
          /\ pc' = IF attempt' < MaxRetries THEN "deliver" ELSE "failed"
          /\ UNCHANGED <<chainVars, rows, crashes>>
    /\ UNCHANGED <<todo, done, itm>>

DeliverConfirmed ==
    /\ pc = "deliver_wait" /\ Confirmed /\ pc' = "delivered"
    /\ UNCHANGED <<chainVars, rows, todo, positions, done, itm, attempt, crashes>>

DeliverFailedOnce ==
    /\ pc = "deliver_wait" /\ (Reverted \/ TimedOut)
    /\ pc' = IF attempt < MaxRetries THEN "deliver" ELSE "failed"
    /\ UNCHANGED <<chainVars, rows, todo, positions, done, itm, attempt, crashes>>

RecordsUnconfirmed(v) ==
    [rows[v] EXCEPT !.settlement_type = "physical", !.is_itm = "yes"]

Recorded(v) ==
    [rows[v] EXCEPT
        !.settlement_type = IF pc = "delivered" THEN "physical" ELSE "physical_failed",
        !.is_itm = "yes"]

RecordDelivery(v) ==
    /\ pc \in {"delivered", "failed"} /\ positions = {v}
    /\ Update(v, Recorded(v))
    /\ pc' = "deliver" /\ todo' = todo \ {v} /\ attempt' = 0
    /\ UNCHANGED <<chainVars, positions, done, itm, crashes>>

BeginOtm ==
    /\ pc = "deliver" /\ todo = {}
    /\ pc' = "otm" /\ todo' = done \ itm
    /\ UNCHANGED <<chainVars, rows, positions, done, itm, attempt, crashes>>

MarkOtm(v) ==
    /\ pc = "otm" /\ v \in todo
    /\ Update(v, [rows[v] EXCEPT !.is_itm = "no"])
    /\ todo' = todo \ {v}
    /\ UNCHANGED <<chainVars, pc, positions, done, itm, attempt, crashes>>

EndCycle == pc = "otm" /\ todo = {} /\ IdleBot /\ UNCHANGED <<chainVars, rows, crashes>>

-----------------------------------------------------------------------------
(* What happens around the bot.                                             *)

Crash ==
    /\ "crash" \in Allowed /\ crashes < MaxCrashes /\ pc # "idle"
    /\ crashes' = crashes + 1 /\ IdleBot
    /\ UNCHANGED <<chainVars, rows>>

OwnerSettles(v) ==
    /\ "settle" \in Allowed /\ price # NoPrice /\ v \notin settled
    /\ settled' = settled \cup {v} /\ others' = TRUE
    /\ UNCHANGED <<price, delivered, ledger, mempool, status, rows, botVars, crashes>>

OracleOwnerSetsPrice ==
    /\ "price" \in Allowed /\ price = NoPrice
    /\ price' \in Prices
    /\ UNCHANGED <<settled, delivered, ledger, mempool, status, rows, botVars, crashes>>

MakerRedeems(o) ==
    /\ "redeem" \in Allowed /\ price # NoPrice /\ ledger[o] > 0
    /\ ledger' = [ledger EXCEPT ![o] = @ - 1] /\ others' = TRUE
    /\ UNCHANGED <<settled, price, delivered, mempool, status, rows, botVars, crashes>>

-----------------------------------------------------------------------------
BotStep ==
    \/ Fetch \/ Reconciled \/ SendPrice \/ PriceDone
    \/ SendSettle \/ BatchConfirmed \/ BatchFailed \/ Marked
    \/ Identify \/ DeliverConfirmed \/ DeliverFailedOnce \/ BeginOtm \/ EndCycle
    \/ \E v \in Vaults :
           Reconcile(v) \/ Mark(v) \/ SendDeliver(v) \/ RecordDelivery(v) \/ MarkOtm(v)

Outsiders ==
    \/ \E v \in Vaults : OwnerSettles(v)
    \/ \E o \in OTokens : MakerRedeems(o)

Next ==
    \/ (BotStep \/ Land \/ Crash \/ OracleOwnerSetsPrice) /\ UNCHANGED others
    \/ Outsiders

(* The bot's loop and the network keep running, and what can fail does not  *)
(* fail for ever: a price, a batch and a mark tried again and again succeed *)
(* in the end.  Between cycles the bot sleeps settlement_sweep_interval,    *)
(* long enough for what it sent to land before some later cycle.            *)
Fairness ==
    /\ WF_systemVars(BotStep) /\ WF_systemVars(Land)
    /\ []<>(pc = "idle" /\ mempool = <<>>)
    /\ SF_systemVars(SendPrice) /\ SF_systemVars(SendSettle) /\ SF_systemVars(BatchConfirmed)
    /\ \A v \in Vaults :
           /\ SF_systemVars(Reconcile(v) /\ rows' # rows)
           /\ SF_systemVars(Mark(v) /\ rows' # rows)

Spec == Init /\ [][Next]_vars
FairSpec == Spec /\ Fairness

-----------------------------------------------------------------------------
(* Properties.                                                              *)

\* A row says "physical" only when a delivery for that position has gone
\* through on chain, whatever fails, is retried or restarts.
PhysicalMeansDelivered ==
    \A v \in Vaults : rows[v].settlement_type = "physical" => delivered[v] > 0

\* A row's is_itm agrees with the expiry price the oracle holds, also when the
\* price came late, from somebody else, or could not be read.
RowsTellMoneyness ==
    \A v \in Vaults :
        /\ rows[v].is_itm = "yes" => price # NoPrice /\ InTheMoney(v, price)
        /\ rows[v].is_itm = "no" => price # NoPrice /\ ~InTheMoney(v, price)

\* As long as every receipt arrives and the vaults can be read, nobody is
\* delivered to twice and a delivery given up was never made: a second one would
\* be paid for with oTokens another position wrote.  Restarts and failed marks
\* do not break this, because a settled vault never reaches phase 2 again.
DeliveredAtMostOnce ==
    \A v \in Vaults :
        /\ delivered[v] <= 1
        /\ rows[v].settlement_type = "physical_failed" => delivered[v] = 0

\* Every position is settled, on chain and in its row, and delivered exactly when it
\* is in the money, if the process is not restarted and no one settles or redeems
\* before the bot; updates may fail and the oracle's owner may set the price.
EveryPositionFinishes ==
    [](crashes = 0 /\ ~others) =>
        \A v \in Vaults :
            <>[](/\ v \in settled /\ rows[v].is_settled
                 /\ delivered[v] = IF InTheMoney(v, price) THEN 1 ELSE 0)

\* Updates may fail, owners may settle first and the process may restart, but
\* every expired row is in the end marked as settled and leaves the queue.
QueueDrains == <>[](\A v \in Vaults : rows[v].is_settled)

\* Order.is_settled, "Whether this position has been settled": a row so marked
\* belongs to a vault settled on chain.
SettledRowsAreSettled == \A v \in Vaults : rows[v].is_settled => v \in settled

\* "ITM = physical delivery": every position in the money is delivered.
InTheMoneyIsDelivered ==
    \A v \in Vaults :
        [](price # NoPrice /\ InTheMoney(v, price) => <>(delivered[v] > 0))
=============================================================================
