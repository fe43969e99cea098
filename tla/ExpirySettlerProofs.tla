------------------------- MODULE ExpirySettlerProofs -------------------------
(***************************************************************************)
(* Theorems about the settler bot, for any number of positions, series,      *)
(* batches, retries, failures and restarts.                                  *)
(***************************************************************************)
EXTENDS ExpirySettler, FiniteSetTheorems, SequenceTheorems, TLAPS

Delivery(v) == [kind |-> "deliver", arg |-> v]

\* What the operator sent last is still to land.
LastIs(tx) == mempool # <<>> /\ mempool[Len(mempool)] = tx

BeforeDelivery == {"idle", "identify"} \cup PhaseOne
Delivering == {"deliver", "deliver_wait", "delivered", "failed"}

\* The position in positions is being delivered.
Trying == pc \in {"deliver_wait", "delivered", "failed"} \/ (pc = "deliver" /\ attempt # 0)

-----------------------------------------------------------------------------
(* Types.                                                                    *)

LEMMA IdleTypes == ASSUME TypeOK, IdleBot PROVE
    /\ pc' = "idle" /\ todo' \subseteq Vaults /\ positions' \subseteq Vaults
    /\ done' \subseteq Vaults /\ itm' \subseteq done' /\ attempt' \in 0 .. MaxRetries
<1>1. 0 \in 0 .. MaxRetries
  BY SettlerBotAssumption
<1>2. QED
  BY <1>1 DEF IdleBot

LEMMA InitTypes == ASSUME Init PROVE TypeOK
<1>1. 0 \in 0 .. MaxRetries /\ 0 \in 0 .. MaxCrashes
  BY SettlerBotAssumption
<1>2. ASSUME NEW o \in OTokens PROVE Written(o) \in Nat
  <2>1. IsFiniteSet({v \in Vaults : OTokenOf[v] = o})
    BY SettlerBotAssumption, FS_Subset
  <2>2. QED
    BY <2>1, FS_CardinalityType DEF Written
<1>3. rows \in [Vaults -> Row]
  BY DEF Init, Row
<1>4. ledger \in [OTokens -> Nat] /\ delivered \in [Vaults -> Nat]
  BY <1>2 DEF Init
<1>5. mempool \in Seq(Txs)
  BY DEF Init
<1>6. QED
  BY <1>1, <1>3, <1>4, <1>5 DEF Init, TypeOK

LEMMA SentTypes ==
    ASSUME TypeOK, NEW kind, NEW arg, [kind |-> kind, arg |-> arg] \in Txs, Send(kind, arg)
    PROVE  mempool' \in Seq(Txs) /\ LastIs([kind |-> kind, arg |-> arg])'
           /\ UNCHANGED <<settled, price, delivered, ledger, status, rows, crashes>>
<1> DEFINE tx == [kind |-> kind, arg |-> arg]
<1>1. mempool \in Seq(Txs) /\ tx \in Txs /\ mempool' = Append(mempool, tx)
  BY DEF TypeOK, Send
<1> HIDE DEF tx
<1>2. /\ mempool' \in Seq(Txs) /\ mempool' # <<>> /\ mempool'[Len(mempool')] = tx
  BY <1>1
<1>3. QED
  BY <1>2 DEF LastIs, tx, Send

LEMMA UpdatedTypes ==
    ASSUME TypeOK, NEW v \in Vaults, NEW row \in Row, Update(v, row)
    PROVE  rows' \in [Vaults -> Row]
  BY DEF TypeOK, Update

LEMMA ChainTypes ==
    ASSUME TypeOK,
           Land \/ OracleOwnerSetsPrice \/ (\E v \in Vaults : OwnerSettles(v))
               \/ (\E o \in OTokens : MakerRedeems(o))
    PROVE  TypeOK'
<1>1. UNCHANGED <<rows, pc, todo, positions, done, itm, attempt, crashes>>
  BY DEF Land, OracleOwnerSetsPrice, OwnerSettles, MakerRedeems, botVars
<1>2. SUFFICES /\ settled' \subseteq Vaults /\ price' \in Prices \cup {NoPrice}
               /\ delivered' \in [Vaults -> Nat] /\ ledger' \in [OTokens -> Nat]
               /\ mempool' \in Seq(Txs) /\ status' \in {"ok", "reverted"}
  BY <1>1 DEF TypeOK
<1>3. CASE Land
  <2>1. Head(mempool) \in Txs /\ mempool' \in Seq(Txs)
    BY <1>3 DEF Land, TypeOK
  <2> DEFINE tx == Head(mempool)
  <2>2. CASE tx.kind = "settle" /\ LandSettle(tx.arg)
    <3>1. tx.arg \in SUBSET Vaults
      BY <2>1, <2>2 DEF Txs
    <3>2. QED
      BY <2>1, <2>2, <3>1 DEF LandSettle, TypeOK
  <2>3. CASE tx.kind = "price" /\ LandPrice(tx.arg)
    <3>1. tx.arg \in Prices
      BY <2>1, <2>3 DEF Txs
    <3>2. QED
      BY <2>1, <2>3, <3>1 DEF LandPrice, TypeOK
  <2>4. CASE tx.kind = "deliver" /\ LandDeliver(tx.arg)
    <3>1. tx.arg \in Vaults
      BY <2>1, <2>4 DEF Txs
    <3>2. CASE ~Deliverable(tx.arg)
      BY <2>1, <2>4, <3>2 DEF LandDeliver, TypeOK
    <3>3. CASE Deliverable(tx.arg)
      <4>1. OTokenOf[tx.arg] \in OTokens /\ ledger[OTokenOf[tx.arg]] > 0
        BY <3>1, <3>3, SettlerBotAssumption DEF Deliverable
      <4>2. /\ status' = "ok" /\ UNCHANGED <<settled, price>>
            /\ delivered' = [delivered EXCEPT ![tx.arg] = @ + 1]
            /\ ledger' = [ledger EXCEPT ![OTokenOf[tx.arg]] = @ - 1]
        BY <2>4, <3>3 DEF LandDeliver
      <4>3. ledger' \in [OTokens -> Nat]
        BY <4>1, <4>2 DEF TypeOK
      <4>4. QED
        BY <2>1, <3>1, <4>2, <4>3 DEF TypeOK
    <3>4. QED
      BY <3>2, <3>3
  <2>5. QED
    BY <1>3, <2>2, <2>3, <2>4 DEF Land
<1>4. CASE OracleOwnerSetsPrice
  BY <1>4 DEF OracleOwnerSetsPrice, TypeOK
<1>5. ASSUME NEW v \in Vaults, OwnerSettles(v)
      PROVE /\ settled' \subseteq Vaults /\ price' \in Prices \cup {NoPrice}
            /\ delivered' \in [Vaults -> Nat] /\ ledger' \in [OTokens -> Nat]
            /\ mempool' \in Seq(Txs) /\ status' \in {"ok", "reverted"}
  BY <1>5 DEF OwnerSettles, TypeOK
<1>6. ASSUME NEW o \in OTokens, MakerRedeems(o)
      PROVE /\ settled' \subseteq Vaults /\ price' \in Prices \cup {NoPrice}
            /\ delivered' \in [Vaults -> Nat] /\ ledger' \in [OTokens -> Nat]
            /\ mempool' \in Seq(Txs) /\ status' \in {"ok", "reverted"}
  BY <1>6 DEF MakerRedeems, TypeOK
<1>7. QED
  BY <1>3, <1>4, <1>5, <1>6

\* A step of the bot that sends nothing and writes no row.
LEMMA QuietTypes ==
    ASSUME TypeOK,
           \/ Fetch \/ Reconciled \/ PriceDone \/ BatchConfirmed \/ BatchFailed \/ Marked
           \/ Identify \/ DeliverConfirmed \/ DeliverFailedOnce \/ BeginOtm \/ EndCycle \/ Crash
    PROVE  TypeOK'
<1>1. UNCHANGED <<chainVars, rows>>
  BY DEF Fetch, Reconciled, PriceDone, BatchConfirmed, BatchFailed, Marked, Identify,
         DeliverConfirmed, DeliverFailedOnce, BeginOtm, EndCycle, Crash
<1>2. crashes' \in 0 .. MaxCrashes
  <2>1. CASE Crash
    <3>1. crashes \in 0 .. MaxCrashes /\ crashes < MaxCrashes /\ crashes' = crashes + 1
      BY <2>1 DEF Crash, TypeOK
    <3>2. QED
      BY <3>1, SettlerBotAssumption
  <2>2. CASE ~Crash
    <3>1. crashes' = crashes
      BY <2>2 DEF Fetch, Reconciled, PriceDone, BatchConfirmed, BatchFailed, Marked, Identify,
             DeliverConfirmed, DeliverFailedOnce, BeginOtm, EndCycle
    <3>2. QED
      BY <3>1 DEF TypeOK
  <2>3. QED
    BY <2>1, <2>2
<1>3. SUFFICES /\ pc' \in {"idle"} \cup PhaseOne \cup PhaseTwo
               /\ todo' \subseteq Vaults /\ positions' \subseteq Vaults
               /\ done' \subseteq Vaults /\ itm' \subseteq done'
               /\ attempt' \in 0 .. MaxRetries
  BY <1>1, <1>2 DEF TypeOK, chainVars
<1> DEFINE Goal == /\ pc' \in {"idle"} \cup PhaseOne \cup PhaseTwo
                   /\ todo' \subseteq Vaults /\ positions' \subseteq Vaults
                   /\ done' \subseteq Vaults /\ itm' \subseteq done'
                   /\ attempt' \in 0 .. MaxRetries
<1>4. CASE IdleBot
  BY <1>4, IdleTypes
<1>5. CASE Fetch \/ (Reconciled /\ ~IdleBot) \/ PriceDone \/ BatchConfirmed
  BY <1>5 DEF Fetch, Reconciled, PriceDone, BeginSettling, BatchConfirmed, TypeOK, PhaseOne
<1>6. CASE (BatchFailed \/ Marked) /\ ~IdleBot
  BY <1>6 DEF BatchFailed, Marked, EndPhaseOne, TypeOK, PhaseOne, PhaseTwo
<1>7. CASE Identify
  BY <1>7 DEF Identify, BeginDelivery, TypeOK, PhaseTwo
<1>8. CASE DeliverConfirmed \/ DeliverFailedOnce \/ BeginOtm
  BY <1>8 DEF DeliverConfirmed, DeliverFailedOnce, BeginOtm, TypeOK, PhaseTwo
<1>9. EndCycle \/ Crash => IdleBot
  BY DEF EndCycle, Crash
<1>10. QED
  BY <1>4, <1>5, <1>6, <1>7, <1>8, <1>9

LEMMA SendTypes ==
    ASSUME TypeOK, SendPrice \/ SendSettle \/ \E v \in Vaults : SendDeliver(v)
    PROVE  TypeOK'
<1>1. CASE SendPrice
  <2>1. PICK p \in Prices : Send("price", p)
    BY <1>1 DEF SendPrice
  <2>2. [kind |-> "price", arg |-> p] \in Txs
    BY DEF Txs
  <2>3. mempool' \in Seq(Txs) /\ UNCHANGED <<settled, price, delivered, ledger, status, rows, crashes>>
    BY <2>1, <2>2, SentTypes
  <2>4. QED
    BY <1>1, <2>3 DEF SendPrice, TypeOK, PhaseOne
<1>2. CASE SendSettle
  <2>1. PICK batch \in SUBSET todo : Send("settle", batch) /\ todo' = batch
    BY <1>2 DEF SendSettle
  <2>2. [kind |-> "settle", arg |-> batch] \in Txs
    BY DEF Txs, TypeOK
  <2>3. mempool' \in Seq(Txs) /\ UNCHANGED <<settled, price, delivered, ledger, status, rows, crashes>>
    BY <2>1, <2>2, SentTypes
  <2>4. QED
    BY <1>2, <2>1, <2>3 DEF SendSettle, TypeOK, PhaseOne
<1>3. ASSUME NEW v \in Vaults, SendDeliver(v) PROVE TypeOK'
  <2>1. attempt' \in 0 .. MaxRetries
    <3>1. attempt \in 0 .. MaxRetries /\ attempt < MaxRetries /\ attempt' = attempt + 1
      BY <1>3 DEF SendDeliver, TypeOK
    <3>2. QED
      BY <3>1, SettlerBotAssumption
  <2>2. /\ mempool' \in Seq(Txs) /\ UNCHANGED <<settled, price, delivered, ledger, status, rows, crashes>>
        /\ pc' \in Delivering
    <3>1. CASE Send("deliver", v) /\ pc' = "deliver_wait"
      <4>1. [kind |-> "deliver", arg |-> v] \in Txs
        BY DEF Txs
      <4>2. QED
        BY <3>1, <4>1, SentTypes DEF Delivering
    <3>2. CASE UNCHANGED <<chainVars, rows, crashes>> /\ pc' \in {"deliver", "failed"}
      BY <3>2 DEF chainVars, TypeOK, Delivering
    <3>3. QED
      BY <1>3, <3>1, <3>2 DEF SendDeliver
  <2>3. QED
    BY <1>3, <2>1, <2>2 DEF SendDeliver, TypeOK, Delivering, PhaseTwo
<1>4. QED
  BY <1>1, <1>2, <1>3

LEMMA WriteTypes ==
    ASSUME TypeOK, NEW v \in Vaults,
           Reconcile(v) \/ Mark(v) \/ RecordDelivery(v) \/ MarkOtm(v)
    PROVE  TypeOK'
<1>1. /\ MarkedSettled(v) \in Row /\ MarkedCash(v) \in Row
      /\ [rows[v] EXCEPT !.is_itm = "no"] \in Row
  BY DEF MarkedSettled, MarkedCash, TypeOK, Row
<1>2. Recorded(v) \in Row
  BY DEF Recorded, TypeOK, Row
<1>3. rows' \in [Vaults -> Row]
  <2>1. rows' = rows \/ \E row \in Row : Update(v, row)
    BY <1>1, <1>2 DEF Reconcile, Mark, RecordDelivery, MarkOtm
  <2>2. QED
    BY <2>1, UpdatedTypes DEF TypeOK
<1>4. 0 \in 0 .. MaxRetries
  BY SettlerBotAssumption
<1>5. QED
  BY <1>3, <1>4 DEF Reconcile, Mark, RecordDelivery, MarkOtm, TypeOK, chainVars, PhaseTwo

LEMMA StepTypes == ASSUME TypeOK, [Next]_vars PROVE TypeOK'
<1>1. CASE UNCHANGED vars
  BY <1>1 DEF vars, systemVars, chainVars, botVars, TypeOK
<1>2. CASE BotStep
  BY <1>2, QuietTypes, SendTypes, WriteTypes DEF BotStep
<1>3. CASE Crash
  BY <1>3, QuietTypes
<1>4. CASE Land \/ OracleOwnerSetsPrice \/ Outsiders
  BY <1>4, ChainTypes DEF Outsiders
<1>5. QED
  BY <1>1, <1>2, <1>3, <1>4 DEF Next

\* The variables of the bot, the table and the chain keep their types: in particular
\* no delivery or redemption takes a custodied balance below zero.
THEOREM TypeCorrect == Spec => []TypeOK
<1>1. Init => TypeOK
  BY InitTypes
<1>2. TypeOK /\ [Next]_vars => TypeOK'
  BY StepTypes
<1>3. QED
  BY <1>1, <1>2, PTL DEF Spec

-----------------------------------------------------------------------------
(* What the rows tell.  Rows get a moneyness and a delivery only from what    *)
(* the bot knows in phase 2: the sides of Identify, and a receipt that was    *)
(* that of the delivery it waited for.                                        *)

\* What the bot takes for in and out of the money is so.
SidesAreRight ==
    pc \in Delivering \cup {"otm"} =>
        /\ \A v \in itm : price # NoPrice /\ InTheMoney(v, price)
        /\ \A v \in done \ itm : price # NoPrice /\ ~InTheMoney(v, price)

\* It works on positions of the right side, and tries none before phase 2.
WorksOnSides ==
    /\ pc \in BeforeDelivery => attempt = 0
    /\ pc \in Delivering => todo \subseteq itm
    /\ Trying => positions \subseteq itm
    /\ pc = "otm" => todo \subseteq done \ itm

\* The receipt it waits for is that of the delivery it sent.
AwaitsDelivery ==
    /\ pc = "deliver_wait" => \A v \in positions :
           LastIs(Delivery(v)) \/ (mempool = <<>> /\ (status = "ok" => delivered[v] > 0))
    /\ pc = "delivered" => \A v \in positions : delivered[v] > 0

RowsInv == /\ TypeOK /\ SidesAreRight /\ WorksOnSides /\ AwaitsDelivery
           /\ PhysicalMeansDelivered /\ RowsTellMoneyness

\* The chain only goes forward.
LEMMA ChainForward ==
    ASSUME TypeOK, [Next]_vars
    PROVE  /\ price # NoPrice => price' = price
           /\ \A v \in Vaults : delivered[v] > 0 => delivered'[v] > 0
<1>1. CASE UNCHANGED <<price, delivered>>
  BY <1>1
<1>2. CASE Land
  <2> DEFINE tx == Head(mempool)
  <2>1. tx \in Txs
    BY <1>2 DEF Land, TypeOK
  <2>2. CASE LandSettle(tx.arg)
    BY <2>2 DEF LandSettle
  <2>3. CASE LandPrice(tx.arg)
    BY <2>3 DEF LandPrice
  <2>4. CASE tx.kind = "deliver" /\ LandDeliver(tx.arg)
    <3>1. CASE UNCHANGED <<price, delivered>>
      BY <3>1
    <3>2. CASE price' = price /\ delivered' = [delivered EXCEPT ![tx.arg] = @ + 1]
      BY <3>2 DEF TypeOK
    <3>3. QED
      BY <2>4, <3>1, <3>2 DEF LandDeliver
  <2>5. QED
    BY <1>2, <2>2, <2>3, <2>4 DEF Land
<1>3. CASE OracleOwnerSetsPrice
  BY <1>3 DEF OracleOwnerSetsPrice
<1>4. Outsiders => UNCHANGED <<price, delivered>>
  BY DEF Outsiders, OwnerSettles, MakerRedeems
<1>5. BotStep \/ Crash => UNCHANGED <<price, delivered>>
  BY DEF BotStep, Crash, Fetch, Reconciled, SendPrice, PriceDone, SendSettle, BatchConfirmed,
         BatchFailed, Marked, Identify, DeliverConfirmed, DeliverFailedOnce, BeginOtm, EndCycle,
         Reconcile, Mark, SendDeliver, RecordDelivery, MarkOtm, Send, chainVars
<1>6. QED
  BY <1>1, <1>2, <1>3, <1>4, <1>5 DEF Next, vars, systemVars, chainVars

\* Where a row's words come from.
LEMMA RowsWritten ==
    ASSUME TypeOK, [Next]_vars, NEW v \in Vaults
    PROVE  /\ rows'[v].settlement_type = "physical" =>
                  rows[v].settlement_type = "physical" \/ (pc = "delivered" /\ positions = {v})
           /\ rows'[v].settlement_type = "physical_failed" =>
                  rows[v].settlement_type = "physical_failed" \/ (pc = "failed" /\ positions = {v})
           /\ rows'[v].is_itm = "yes" =>
                  rows[v].is_itm = "yes" \/ (pc \in {"delivered", "failed"} /\ positions = {v})
           /\ rows'[v].is_itm = "no" =>
                  rows[v].is_itm = "no" \/ (pc = "otm" /\ v \in todo)
<1>1. CASE UNCHANGED rows
  BY <1>1
<1>2. rows[v] \in Row
  BY DEF TypeOK
<1>3. ASSUME NEW w \in Vaults, NEW row, rows' = [rows EXCEPT ![w] = row]
      PROVE  rows'[v] = IF v = w THEN row ELSE rows[v]
  BY <1>3 DEF TypeOK
<1>4. ASSUME NEW w \in Vaults, Reconcile(w) /\ ~UNCHANGED rows
      PROVE  rows' = [rows EXCEPT ![w] = MarkedSettled(w)]
  BY <1>4 DEF Reconcile, Update
<1>5. ASSUME NEW w \in Vaults, Mark(w) /\ ~UNCHANGED rows
      PROVE  rows' = [rows EXCEPT ![w] = MarkedCash(w)]
  BY <1>5 DEF Mark, Update
<1>6. ASSUME NEW w \in Vaults, RecordDelivery(w) /\ ~UNCHANGED rows
      PROVE  rows' = [rows EXCEPT ![w] = Recorded(w)] /\ pc \in {"delivered", "failed"}
             /\ positions = {w}
  BY <1>6 DEF RecordDelivery, Update
<1>7. ASSUME NEW w \in Vaults, MarkOtm(w) /\ ~UNCHANGED rows
      PROVE  rows' = [rows EXCEPT ![w] = [rows[w] EXCEPT !.is_itm = "no"]] /\ pc = "otm"
             /\ w \in todo
  BY <1>7 DEF MarkOtm, Update
<1>8. ASSUME NEW w \in Vaults, Reconcile(w) \/ Mark(w), ~UNCHANGED rows
      PROVE  rows'[v].settlement_type \in {rows[v].settlement_type, "cash"}
             /\ rows'[v].is_itm = rows[v].is_itm
  <2>1. CASE v = w
    <3>1. CASE Reconcile(w)
      <4>1. rows'[v] = MarkedSettled(v)
        BY <1>3, <1>4, <1>8, <2>1, <3>1
      <4>2. QED
        BY <1>2, <4>1 DEF MarkedSettled, Row
    <3>2. CASE Mark(w)
      <4>1. rows'[v] = MarkedCash(v)
        BY <1>3, <1>5, <1>8, <2>1, <3>2
      <4>2. QED
        BY <1>2, <4>1 DEF MarkedCash, Row
    <3>3. QED
      BY <1>8, <3>1, <3>2
  <2>2. CASE v # w
    BY <1>3, <1>4, <1>5, <1>8, <2>2
  <2>3. QED
    BY <2>1, <2>2
<1>9. CASE \E w \in Vaults : Reconcile(w) \/ Mark(w)
  BY <1>1, <1>8, <1>9
<1>10. CASE \E w \in Vaults : RecordDelivery(w)
  <2>1. PICK w \in Vaults : RecordDelivery(w)
    BY <1>10
  <2>2. CASE v = w /\ ~UNCHANGED rows
    <3>1. rows'[v] = Recorded(v) /\ pc \in {"delivered", "failed"} /\ positions = {v}
      BY <1>3, <1>6, <2>1, <2>2
    <3>2. rows'[v].is_itm = "yes"
          /\ rows'[v].settlement_type = IF pc = "delivered" THEN "physical" ELSE "physical_failed"
      BY <1>2, <3>1 DEF Recorded, Row
    <3>3. QED
      BY <3>1, <3>2
  <2>3. CASE v # w /\ ~UNCHANGED rows
    BY <1>3, <1>6, <2>1, <2>3
  <2>4. QED
    BY <1>1, <2>2, <2>3
<1>11. CASE \E w \in Vaults : MarkOtm(w)
  <2>1. PICK w \in Vaults : MarkOtm(w)
    BY <1>11
  <2>2. CASE v = w /\ ~UNCHANGED rows
    <3>1. rows'[v] = [rows[v] EXCEPT !.is_itm = "no"] /\ pc = "otm" /\ v \in todo
      BY <1>3, <1>7, <2>1, <2>2
    <3>2. rows'[v].is_itm = "no" /\ rows'[v].settlement_type = rows[v].settlement_type
      BY <1>2, <3>1 DEF Row
    <3>3. QED
      BY <3>1, <3>2
  <2>3. CASE v # w /\ ~UNCHANGED rows
    BY <1>3, <1>7, <2>1, <2>3
  <2>4. QED
    BY <1>1, <2>2, <2>3
<1>12. Outsiders \/ Land \/ Crash \/ OracleOwnerSetsPrice => UNCHANGED rows
  BY DEF Outsiders, OwnerSettles, MakerRedeems, Land, Crash, OracleOwnerSetsPrice
<1>13. Fetch \/ Reconciled \/ SendPrice \/ PriceDone \/ SendSettle \/ BatchConfirmed \/ BatchFailed
       \/ Marked \/ Identify \/ DeliverConfirmed \/ DeliverFailedOnce \/ BeginOtm \/ EndCycle
       \/ (\E w \in Vaults : SendDeliver(w)) => UNCHANGED rows
  BY DEF Fetch, Reconciled, SendPrice, PriceDone, SendSettle, BatchConfirmed, BatchFailed, Marked,
         Identify, DeliverConfirmed, DeliverFailedOnce, BeginOtm, EndCycle, SendDeliver, Send
<1>14. QED
  BY <1>1, <1>9, <1>10, <1>11, <1>12, <1>13 DEF Next, BotStep, vars, systemVars

LEMMA RowsTrue ==
    ASSUME RowsInv, [Next]_vars
    PROVE  PhysicalMeansDelivered' /\ RowsTellMoneyness'
<1>1. TypeOK
  BY DEF RowsInv
<1>2. ASSUME NEW v \in Vaults, rows'[v].settlement_type = "physical" PROVE delivered'[v] > 0
  <2>1. delivered[v] > 0
    BY <1>1, <1>2, RowsWritten DEF RowsInv, PhysicalMeansDelivered, AwaitsDelivery
  <2>2. QED
    BY <1>1, <2>1, ChainForward
<1>3. ASSUME NEW v \in Vaults, rows'[v].is_itm = "yes" PROVE price' # NoPrice /\ InTheMoney(v, price')
  <2>1. CASE rows[v].is_itm = "yes"
    BY <1>1, <2>1, ChainForward DEF RowsInv, RowsTellMoneyness
  <2>2. CASE pc \in {"delivered", "failed"} /\ positions = {v}
    <3>1. v \in itm
      BY <2>2 DEF RowsInv, WorksOnSides, Trying
    <3>2. price # NoPrice /\ InTheMoney(v, price)
      BY <2>2, <3>1 DEF RowsInv, SidesAreRight, Delivering
    <3>3. QED
      BY <1>1, <3>2, ChainForward
  <2>3. QED
    BY <1>1, <1>3, <2>1, <2>2, RowsWritten
<1>4. ASSUME NEW v \in Vaults, rows'[v].is_itm = "no" PROVE price' # NoPrice /\ ~InTheMoney(v, price')
  <2>1. CASE rows[v].is_itm = "no"
    BY <1>1, <2>1, ChainForward DEF RowsInv, RowsTellMoneyness
  <2>2. CASE pc = "otm" /\ v \in todo
    <3>1. price # NoPrice /\ ~InTheMoney(v, price)
      BY <2>2 DEF RowsInv, WorksOnSides, SidesAreRight
    <3>2. QED
      BY <1>1, <3>1, ChainForward
  <2>3. QED
    BY <1>1, <1>4, <2>1, <2>2, RowsWritten
<1>5. QED
  BY <1>2, <1>3, <1>4 DEF PhysicalMeansDelivered, RowsTellMoneyness

\* Before phase 2 the bot has tried nothing and reads no sides.
LEMMA EarlySteps ==
    ASSUME TypeOK, WorksOnSides,
           \/ Fetch \/ Reconciled \/ SendPrice \/ PriceDone \/ SendSettle \/ BatchConfirmed
           \/ BatchFailed \/ Marked \/ EndCycle \/ Crash \/ (\E v \in Vaults : Reconcile(v) \/ Mark(v))
    PROVE  pc' \in BeforeDelivery /\ attempt' = 0
<1>1. CASE IdleBot
  BY <1>1 DEF IdleBot, BeforeDelivery
<1>2. CASE ~IdleBot
  <2>1. EndCycle \/ Crash => FALSE
    BY <1>2 DEF EndCycle, Crash
  <2>2. pc \in BeforeDelivery /\ pc' \in BeforeDelivery /\ attempt' = attempt
    <3>1. CASE Fetch \/ Reconciled \/ SendPrice \/ PriceDone \/ SendSettle \/ BatchConfirmed
      BY <1>2, <3>1 DEF Fetch, Reconciled, SendPrice, PriceDone, BeginSettling, SendSettle,
                        BatchConfirmed, BeforeDelivery, PhaseOne
    <3>2. CASE BatchFailed \/ Marked \/ (\E v \in Vaults : Reconcile(v) \/ Mark(v))
      BY <1>2, <3>2 DEF BatchFailed, Marked, EndPhaseOne, Reconcile, Mark, BeforeDelivery, PhaseOne
    <3>3. QED
      BY <2>1, <3>1, <3>2
  <2>3. QED
    BY <2>2 DEF WorksOnSides
<1>3. QED
  BY <1>1, <1>2

LEMMA EarlyStepsInv ==
    ASSUME pc' \in BeforeDelivery, attempt' = 0
    PROVE  SidesAreRight' /\ WorksOnSides' /\ AwaitsDelivery'
<1>1. pc' \notin Delivering /\ pc' # "otm" /\ ~Trying'
  BY DEF BeforeDelivery, PhaseOne, Delivering, Trying
<1>2. QED
  BY <1>1 DEF SidesAreRight, WorksOnSides, AwaitsDelivery, Delivering

LEMMA IdentifyInv == ASSUME RowsInv, Identify PROVE SidesAreRight' /\ WorksOnSides' /\ AwaitsDelivery'
<1>1. pc = "identify" /\ pc' = "deliver" /\ price' = price /\ attempt' = attempt /\ attempt = 0
  BY DEF Identify, BeginDelivery, chainVars, RowsInv, WorksOnSides, BeforeDelivery
<1>2. todo' = itm' /\ ~Trying'
  BY <1>1 DEF Identify, BeginDelivery, Trying
<1>3. /\ \A v \in itm' : price # NoPrice /\ InTheMoney(v, price)
      /\ \A v \in done' \ itm' : price # NoPrice /\ ~InTheMoney(v, price)
  BY DEF Identify, BeginDelivery
<1>4. QED
  BY <1>1, <1>2, <1>3 DEF SidesAreRight, WorksOnSides, AwaitsDelivery, BeforeDelivery, PhaseOne,
                          Delivering

\* The sides stay what they are while the bot works on them.
LEMMA SidesKept ==
    ASSUME RowsInv, [Next]_vars, UNCHANGED <<done, itm>>,
           pc' \in Delivering \cup {"otm"} => pc \in Delivering \cup {"otm"}
    PROVE  SidesAreRight'
<1>1. price # NoPrice => price' = price
  BY ChainForward DEF RowsInv
<1>2. SUFFICES ASSUME pc \in Delivering \cup {"otm"}
               PROVE  /\ \A v \in itm : price' # NoPrice /\ InTheMoney(v, price')
                      /\ \A v \in done \ itm : price' # NoPrice /\ ~InTheMoney(v, price')
  BY DEF SidesAreRight
<1>3. QED
  BY <1>1, <1>2 DEF RowsInv, SidesAreRight

LEMMA SendDeliverInv ==
    ASSUME RowsInv, NEW v \in Vaults, SendDeliver(v)
    PROVE  SidesAreRight' /\ WorksOnSides' /\ AwaitsDelivery'
<1>1. /\ pc = "deliver" /\ positions' = {v} /\ attempt' = attempt + 1
      /\ UNCHANGED <<todo, done, itm>> /\ pc' \in {"deliver", "deliver_wait", "failed"}
      /\ (IF attempt = 0 THEN v \in todo ELSE positions = {v})
  BY DEF SendDeliver
<1>2. TypeOK /\ SidesAreRight /\ WorksOnSides
  BY DEF RowsInv
<1>3. price' = price
  BY DEF SendDeliver, Send, chainVars
<1>4. v \in itm
  <2>1. CASE attempt = 0
    BY <1>1, <1>2, <2>1 DEF WorksOnSides, Delivering
  <2>2. CASE attempt # 0
    BY <1>1, <1>2, <2>2 DEF WorksOnSides, Trying
  <2>3. QED
    BY <2>1, <2>2
<1>5. SidesAreRight'
  BY <1>1, <1>2, <1>3 DEF SidesAreRight, Delivering
<1>6. WorksOnSides'
  BY <1>1, <1>2, <1>4 DEF WorksOnSides, Delivering, BeforeDelivery, PhaseOne
<1>7. AwaitsDelivery'
  <2>1. CASE pc' # "deliver_wait"
    BY <1>1, <2>1 DEF AwaitsDelivery
  <2>2. CASE pc' = "deliver_wait"
    <3>1. Send("deliver", v) /\ [kind |-> "deliver", arg |-> v] \in Txs
      BY <2>2 DEF SendDeliver, Txs
    <3>2. LastIs([kind |-> "deliver", arg |-> v])'
      BY <1>2, <3>1, SentTypes
    <3>3. QED
      BY <1>1, <2>2, <3>2 DEF AwaitsDelivery, Delivery, LastIs
  <2>3. QED
    BY <2>1, <2>2
<1>8. QED
  BY <1>5, <1>6, <1>7

\* The other steps of phase 2.
LEMMA LateSteps ==
    ASSUME RowsInv, [Next]_vars,
           \/ DeliverConfirmed \/ DeliverFailedOnce \/ BeginOtm
           \/ \E v \in Vaults : RecordDelivery(v) \/ MarkOtm(v)
    PROVE  SidesAreRight' /\ WorksOnSides' /\ AwaitsDelivery'
<1>1. UNCHANGED <<done, itm, positions>>
  BY DEF DeliverConfirmed, DeliverFailedOnce, BeginOtm, RecordDelivery, MarkOtm
<1>2. TypeOK /\ WorksOnSides /\ AwaitsDelivery
  BY DEF RowsInv
<1>3. CASE DeliverConfirmed
  <2>1. /\ pc = "deliver_wait" /\ pc' = "delivered" /\ UNCHANGED <<todo, delivered>>
        /\ mempool = <<>> /\ status = "ok"
    BY <1>3 DEF DeliverConfirmed, Confirmed, chainVars
  <2>2. WorksOnSides'
    BY <1>1, <1>2, <2>1 DEF WorksOnSides, Delivering, Trying, BeforeDelivery, PhaseOne
  <2>3. AwaitsDelivery'
    BY <1>1, <1>2, <2>1 DEF AwaitsDelivery, LastIs
  <2>4. QED
    BY <1>1, <2>1, <2>2, <2>3, SidesKept DEF Delivering
<1>4. CASE DeliverFailedOnce
  <2>1. pc = "deliver_wait" /\ pc' \in {"deliver", "failed"} /\ UNCHANGED todo
    BY <1>4 DEF DeliverFailedOnce
  <2>2. WorksOnSides'
    BY <1>1, <1>2, <2>1 DEF WorksOnSides, Delivering, Trying, BeforeDelivery, PhaseOne
  <2>3. QED
    BY <1>1, <2>1, <2>2, SidesKept DEF Delivering, AwaitsDelivery
<1>5. CASE BeginOtm
  <2>1. pc = "deliver" /\ pc' = "otm" /\ todo' = done \ itm
    BY <1>5 DEF BeginOtm
  <2>2. WorksOnSides'
    BY <1>1, <2>1 DEF WorksOnSides, Delivering, Trying, BeforeDelivery, PhaseOne
  <2>3. QED
    BY <1>1, <2>1, <2>2, SidesKept DEF Delivering, AwaitsDelivery
<1>6. ASSUME NEW v \in Vaults, RecordDelivery(v)
      PROVE  SidesAreRight' /\ WorksOnSides' /\ AwaitsDelivery'
  <2>1. /\ pc \in {"delivered", "failed"} /\ pc' = "deliver" /\ todo' = todo \ {v}
        /\ attempt' = 0
    BY <1>6 DEF RecordDelivery
  <2>2. WorksOnSides'
    BY <1>1, <1>2, <2>1 DEF WorksOnSides, Delivering, Trying, BeforeDelivery, PhaseOne
  <2>3. QED
    BY <1>1, <2>1, <2>2, SidesKept DEF Delivering, AwaitsDelivery
<1>7. ASSUME NEW v \in Vaults, MarkOtm(v)
      PROVE  SidesAreRight' /\ WorksOnSides' /\ AwaitsDelivery'
  <2>1. pc = "otm" /\ pc' = "otm" /\ todo' = todo \ {v}
    BY <1>7 DEF MarkOtm
  <2>2. WorksOnSides'
    BY <1>1, <1>2, <2>1 DEF WorksOnSides, Delivering, Trying, BeforeDelivery, PhaseOne
  <2>3. QED
    BY <1>1, <2>1, <2>2, SidesKept DEF AwaitsDelivery
<1>8. QED
  BY <1>3, <1>4, <1>5, <1>6, <1>7

\* Taking the first of a sequence of transactions: the last stays the last, or it is
\* the one that lands.
LEMMA LastOfTail ==
    ASSUME TypeOK, NEW tx, LastIs(tx), mempool' = Tail(mempool)
    PROVE  LastIs(tx)' \/ (mempool' = <<>> /\ Head(mempool) = tx)
<1>1. mempool \in Seq(Txs) /\ mempool # <<>> /\ mempool[Len(mempool)] = tx
  BY DEF TypeOK, LastIs
<1>2. /\ Len(mempool') = Len(mempool) - 1 /\ mempool' \in Seq(Txs)
      /\ \A i \in 1 .. Len(mempool') : mempool'[i] = mempool[i + 1]
  BY <1>1, HeadTailProperties
<1>3. Len(mempool) \in Nat \ {0} /\ Head(mempool) = mempool[1]
  BY <1>1
<1>4. CASE Len(mempool) = 1
  BY <1>1, <1>2, <1>3, <1>4
<1>5. CASE Len(mempool) # 1
  <2>1. Len(mempool') \in 1 .. Len(mempool') /\ Len(mempool') + 1 = Len(mempool)
    <3>1. ASSUME NEW n \in Nat \ {0}, n # 1, NEW k, k = n - 1 PROVE k \in 1 .. k /\ k + 1 = n
      BY <3>1
    <3>2. QED
      BY <1>2, <1>3, <1>5, <3>1
  <2>2. mempool'[Len(mempool')] = mempool[Len(mempool)]
    BY <1>2, <2>1
  <2>3. mempool' # <<>>
    <3>1. ASSUME mempool' = <<>> PROVE FALSE
      <4>1. Len(<<>>) = 0
        OBVIOUS
      <4>2. Len(mempool') = 0
        BY <3>1, <4>1, Zenon
      <4>3. 0 \in 1 .. 0
        BY <2>1, <4>2, Zenon
      <4>4. QED
        BY <4>3
    <3>2. QED
      BY <3>1
  <2>4. QED
    BY <1>1, <2>2, <2>3 DEF LastIs
<1>6. QED
  BY <1>4, <1>5

LEMMA ChainSteps ==
    ASSUME RowsInv, [Next]_vars,
           \/ Land \/ OracleOwnerSetsPrice
           \/ (\E v \in Vaults : OwnerSettles(v)) \/ (\E o \in OTokens : MakerRedeems(o))
    PROVE  SidesAreRight' /\ WorksOnSides' /\ AwaitsDelivery'
<1>1. UNCHANGED <<pc, todo, positions, done, itm, attempt>>
  BY DEF Land, OracleOwnerSetsPrice, OwnerSettles, MakerRedeems, botVars
<1>2. TypeOK /\ WorksOnSides /\ AwaitsDelivery
  BY DEF RowsInv
<1>3. WorksOnSides'
  BY <1>1, <1>2 DEF WorksOnSides, Trying
<1>4. \A v \in Vaults : delivered[v] > 0 => delivered'[v] > 0
  BY <1>2, ChainForward
<1>5. AwaitsDelivery'
  <2>1. CASE ~Land
    <3>1. UNCHANGED <<delivered, mempool, status>>
      BY <2>1 DEF OracleOwnerSetsPrice, OwnerSettles, MakerRedeems
    <3>2. QED
      BY <1>1, <1>2, <3>1 DEF AwaitsDelivery, LastIs
  <2>2. CASE Land
    <3>1. mempool # <<>> /\ mempool' = Tail(mempool)
      BY <2>2 DEF Land
    <3>2. ASSUME NEW v \in positions, pc = "deliver_wait"
          PROVE  LastIs(Delivery(v))' \/ (mempool' = <<>> /\ (status' = "ok" => delivered'[v] > 0))
      <4>1. LastIs(Delivery(v))
        BY <1>2, <3>1, <3>2 DEF AwaitsDelivery
      <4>2. CASE LastIs(Delivery(v))'
        BY <4>2
      <4>3. CASE mempool' = <<>> /\ Head(mempool) = Delivery(v)
        <5>1. LandDeliver(v)
          BY <2>2, <4>3 DEF Land, Delivery
        <5>2. v \in Vaults /\ delivered[v] \in Nat
          BY <1>2 DEF TypeOK
        <5>3. status' = "ok" => delivered' = [delivered EXCEPT ![v] = @ + 1]
          BY <5>1 DEF LandDeliver
        <5>4. status' = "ok" => delivered'[v] > 0
          BY <1>2, <5>2, <5>3 DEF TypeOK
        <5>5. QED
          BY <4>3, <5>4
      <4>4. QED
        BY <1>2, <3>1, <4>1, <4>2, <4>3, LastOfTail
    <3>3. ASSUME NEW v \in positions, pc = "delivered" PROVE delivered'[v] > 0
      <4>1. v \in Vaults /\ delivered[v] > 0
        BY <1>2, <3>3 DEF AwaitsDelivery, TypeOK
      <4>2. QED
        BY <1>4, <4>1
    <3>4. QED
      BY <1>1, <3>2, <3>3 DEF AwaitsDelivery, LastIs
  <2>3. QED
    BY <2>1, <2>2
<1>6. QED
  BY <1>1, <1>3, <1>5, SidesKept

LEMMA RowsStep == ASSUME RowsInv, [Next]_vars PROVE RowsInv'
<1>1. TypeOK /\ WorksOnSides
  BY DEF RowsInv
<1>2. TypeOK' /\ PhysicalMeansDelivered' /\ RowsTellMoneyness'
  BY <1>1, StepTypes, RowsTrue
<1>3. SidesAreRight' /\ WorksOnSides' /\ AwaitsDelivery'
  <2>1. CASE UNCHANGED vars
    BY <2>1 DEF vars, systemVars, chainVars, botVars, RowsInv, SidesAreRight, WorksOnSides, Trying,
                AwaitsDelivery, LastIs
  <2>2. CASE BotStep
    <3>1. CASE Identify
      BY <3>1, IdentifyInv
    <3>2. CASE \E v \in Vaults : SendDeliver(v)
      BY <3>2, SendDeliverInv
    <3>3. CASE \/ DeliverConfirmed \/ DeliverFailedOnce \/ BeginOtm
               \/ \E v \in Vaults : RecordDelivery(v) \/ MarkOtm(v)
      BY <3>3, LateSteps
    <3>4. CASE \/ Fetch \/ Reconciled \/ SendPrice \/ PriceDone \/ SendSettle \/ BatchConfirmed
               \/ BatchFailed \/ Marked \/ EndCycle \/ (\E v \in Vaults : Reconcile(v) \/ Mark(v))
      BY <1>1, <3>4, EarlySteps, EarlyStepsInv
    <3>5. QED
      BY <2>2, <3>1, <3>2, <3>3, <3>4 DEF BotStep
  <2>3. CASE Crash
    BY <1>1, <2>3, EarlySteps, EarlyStepsInv
  <2>4. CASE Land \/ OracleOwnerSetsPrice \/ Outsiders
    BY <2>4, ChainSteps DEF Outsiders
  <2>5. QED
    BY <2>1, <2>2, <2>3, <2>4 DEF Next
<1>4. QED
  BY <1>2, <1>3 DEF RowsInv

LEMMA RowsInit == ASSUME Init PROVE RowsInv
<1>1. TypeOK
  BY InitTypes
<1>2. pc = "idle" /\ attempt = 0
  BY DEF Init
<1>3. SidesAreRight /\ WorksOnSides /\ AwaitsDelivery
  BY <1>2 DEF SidesAreRight, WorksOnSides, AwaitsDelivery, Trying, Delivering
<1>4. PhysicalMeansDelivered /\ RowsTellMoneyness
  BY DEF Init, PhysicalMeansDelivered, RowsTellMoneyness
<1>5. QED
  BY <1>1, <1>3, <1>4 DEF RowsInv

THEOREM RowsInvariance == Spec => []RowsInv
<1>1. Init => RowsInv
  BY RowsInit
<1>2. RowsInv /\ [Next]_vars => RowsInv'
  BY RowsStep
<1>3. QED
  BY <1>1, <1>2, PTL DEF Spec

\* No row says "physical" without a delivery on chain, whatever fails, times out,
\* lands late or restarts.
THEOREM PhysicalIsDelivered == Spec => []PhysicalMeansDelivered
<1>1. RowsInv => PhysicalMeansDelivered
  BY DEF RowsInv
<1>2. QED
  BY <1>1, RowsInvariance, PTL

\* No row's moneyness contradicts the expiry price, whoever sets it and when.
THEOREM MoneynessIsTold == Spec => []RowsTellMoneyness
<1>1. RowsInv => RowsTellMoneyness
  BY DEF RowsInv
<1>2. QED
  BY <1>1, RowsInvariance, PTL

-----------------------------------------------------------------------------
(* Nobody is delivered to twice, as long as receipts arrive and reads work.   *)
(* A vault a delivery was sent for, or given up for, is settled, so that      *)
(* reconciliation keeps it out of every later phase 2; within phase 2 a       *)
(* retry follows a receipt that says the last try did nothing.                *)

Sure == "rpc" \notin Allowed /\ "receipt" \notin Allowed

\* Where the deliveries of v are among the operator's transactions.
Places(v) == {i \in 1 .. Len(mempool) : mempool[i] = Delivery(v)}

GivenUp(v) == rows[v].settlement_type = "physical_failed"

Fresh(v) == delivered[v] = 0 /\ Places(v) = {} /\ ~GivenUp(v)

Once(v) ==
    /\ delivered[v] <= 1
    /\ Places(v) # {} => delivered[v] = 0
    /\ \A i, j \in Places(v) : i = j
    /\ GivenUp(v) => delivered[v] = 0 /\ Places(v) = {}
    /\ v \in settled \/ Fresh(v)

AfterPrice == {"settle", "settle_wait", "mark", "identify"}

\* What is settled in phase 1 is fresh, and settled when phase 2 begins.
SettlesFresh ==
    /\ pc \in {"idle", "reconcile", "price", "price_wait"} => done = {}
    /\ pc = "reconcile" => \A v \in positions : v \in todo \/ Fresh(v)
    /\ pc \in {"price", "price_wait"} \cup AfterPrice => \A v \in positions : Fresh(v)
    /\ pc = "price_wait" =>
           price # NoPrice \/ \E p \in Prices : LastIs([kind |-> "price", arg |-> p])
    /\ pc \in AfterPrice => price # NoPrice /\ todo \subseteq positions /\ done \subseteq positions
    /\ pc = "settle_wait" =>
           \/ todo \subseteq settled
           \/ \E b \in SUBSET Vaults : b = todo /\ LastIs([kind |-> "settle", arg |-> b])
    /\ done \subseteq settled

\* What is delivered in phase 2 is fresh or what is being tried, and what is being
\* tried has not been delivered before its last try.
DeliversFresh ==
    /\ pc \in Delivering => \A v \in todo : (Trying /\ v \in positions) \/ Fresh(v)
    /\ Trying => \A v \in positions : ~GivenUp(v)
    /\ pc = "deliver_wait" => \A v \in positions :
           LastIs(Delivery(v)) \/ (mempool = <<>> /\ (status = "reverted" => delivered[v] = 0))
    /\ pc = "failed" \/ (pc = "deliver" /\ attempt # 0) => \A v \in positions : Fresh(v)

OnceInv == RowsInv /\ (\A v \in Vaults : Once(v)) /\ SettlesFresh /\ DeliversFresh

LEMMA PlacesSent ==
    ASSUME TypeOK, NEW kind, NEW arg, [kind |-> kind, arg |-> arg] \in Txs, Send(kind, arg), NEW v
    PROVE  Places(v)' = IF [kind |-> kind, arg |-> arg] = Delivery(v)
                        THEN Places(v) \cup {Len(mempool) + 1} ELSE Places(v)
<1> DEFINE tx == [kind |-> kind, arg |-> arg]
<1>1. mempool \in Seq(Txs) /\ tx \in Txs /\ mempool' = Append(mempool, tx)
  BY DEF TypeOK, Send
<1> HIDE DEF tx
<1>2. /\ Len(mempool') = Len(mempool) + 1 /\ Len(mempool) \in Nat
      /\ \A i \in 1 .. Len(mempool) : mempool'[i] = mempool[i]
      /\ mempool'[Len(mempool) + 1] = tx
  BY <1>1
<1>3. 1 .. Len(mempool') = (1 .. Len(mempool)) \cup {Len(mempool) + 1}
  BY <1>2
<1>4. Places(v)' = IF tx = Delivery(v) THEN Places(v) \cup {Len(mempool) + 1} ELSE Places(v)
  <2>1. Places(v)' = {i \in 1 .. Len(mempool') : mempool'[i] = Delivery(v)}
    BY DEF Places, Delivery
  <2>2. QED
    BY <1>2, <1>3, <2>1 DEF Places
<1>5. QED
  BY <1>4 DEF tx

LEMMA PlacesTail ==
    ASSUME TypeOK, mempool # <<>>, mempool' = Tail(mempool), NEW v
    PROVE  /\ \A i \in Places(v)' : i \in Nat \ {0} /\ i + 1 \in Places(v)
           /\ 1 \in Places(v) <=> Head(mempool) = Delivery(v)
<1>1. mempool \in Seq(Txs)
  BY DEF TypeOK
<1>2. /\ Len(mempool') = Len(mempool) - 1
      /\ \A i \in 1 .. Len(mempool') : mempool'[i] = mempool[i + 1]
  BY <1>1, HeadTailProperties
<1>3. Len(mempool) \in Nat \ {0} /\ Head(mempool) = mempool[1]
  BY <1>1
<1>4. ASSUME NEW i \in Places(v)' PROVE i \in Nat \ {0} /\ i + 1 \in Places(v)
  <2>1. i \in 1 .. Len(mempool') /\ mempool'[i] = Delivery(v)
    BY <1>4 DEF Places, Delivery
  <2>2. i \in Nat \ {0} /\ i + 1 \in 1 .. Len(mempool)
    BY <1>2, <1>3, <2>1
  <2>3. QED
    BY <1>2, <2>1, <2>2 DEF Places
<1>5. 1 \in Places(v) <=> Head(mempool) = Delivery(v)
  BY <1>3 DEF Places
<1>6. QED
  BY <1>4, <1>5

\* A step of the bot that sends nothing leaves the deliveries alone, on chain and
\* among the transactions.
LEMMA BotSends ==
    ASSUME BotStep \/ Crash
    PROVE  /\ UNCHANGED <<settled, price, delivered>>
           /\ UNCHANGED <<mempool, status>> \/ SendPrice \/ SendSettle
              \/ \E v \in Vaults : SendDeliver(v) /\ Send("deliver", v)
<1>1. UNCHANGED <<settled, price, delivered>>
  BY DEF BotStep, Crash, Fetch, Reconciled, SendPrice, PriceDone, SendSettle, BatchConfirmed,
         BatchFailed, Marked, Identify, DeliverConfirmed, DeliverFailedOnce, BeginOtm, EndCycle,
         Reconcile, Mark, SendDeliver, RecordDelivery, MarkOtm, Send, chainVars
<1>2. (\E v \in Vaults : SendDeliver(v)) =>
          UNCHANGED <<mempool, status>> \/ \E v \in Vaults : SendDeliver(v) /\ Send("deliver", v)
  BY DEF SendDeliver, chainVars
<1>3. \/ Fetch \/ Reconciled \/ PriceDone \/ BatchConfirmed \/ BatchFailed \/ Marked
      \/ Identify \/ DeliverConfirmed \/ DeliverFailedOnce \/ BeginOtm \/ EndCycle \/ Crash
      \/ (\E v \in Vaults : Reconcile(v) \/ Mark(v) \/ RecordDelivery(v) \/ MarkOtm(v))
      => UNCHANGED <<mempool, status>>
  BY DEF Crash, Fetch, Reconciled, PriceDone, BatchConfirmed,
         BatchFailed, Marked, Identify, DeliverConfirmed, DeliverFailedOnce, BeginOtm, EndCycle,
         Reconcile, Mark, RecordDelivery, MarkOtm, chainVars
<1>4. QED
  BY <1>1, <1>2, <1>3 DEF BotStep

\* The deliveries of v sent so far, and one more if the bot sends it now.
LEMMA BotPlaces ==
    ASSUME TypeOK, BotStep \/ Crash, NEW v \in Vaults
    PROVE  Places(v)' = Places(v) \/ (/\ SendDeliver(v) /\ Send("deliver", v)
                                      /\ Places(v)' = Places(v) \cup {Len(mempool) + 1})
<1>1. CASE UNCHANGED mempool
  BY <1>1 DEF Places, Delivery
<1>2. CASE SendPrice
  <2>1. PICK p \in Prices : Send("price", p)
    BY <1>2 DEF SendPrice
  <2>2. [kind |-> "price", arg |-> p] \in Txs /\ [kind |-> "price", arg |-> p] # Delivery(v)
    BY DEF Txs, Delivery
  <2>3. QED
    BY <2>1, <2>2, PlacesSent
<1>3. CASE SendSettle
  <2>1. PICK batch \in SUBSET todo : Send("settle", batch)
    BY <1>3 DEF SendSettle
  <2>2. [kind |-> "settle", arg |-> batch] \in Txs /\ [kind |-> "settle", arg |-> batch] # Delivery(v)
    BY DEF Txs, Delivery, TypeOK
  <2>3. QED
    BY <2>1, <2>2, PlacesSent
<1>4. ASSUME NEW w \in Vaults, SendDeliver(w), Send("deliver", w)
      PROVE  Places(v)' = Places(v) \/ (/\ SendDeliver(v) /\ Send("deliver", v)
                                        /\ Places(v)' = Places(v) \cup {Len(mempool) + 1})
  <2>1. [kind |-> "deliver", arg |-> w] \in Txs
    BY DEF Txs
  <2>2. [kind |-> "deliver", arg |-> w] = Delivery(v) <=> w = v
    BY DEF Delivery
  <2>3. QED
    BY <1>4, <2>1, <2>2, PlacesSent
<1>5. QED
  BY <1>1, <1>2, <1>3, <1>4, BotSends

\* A step of the bot makes a vault no longer fresh only by sending its delivery or
\* giving up on it.
LEMMA BotKeepsFresh ==
    ASSUME TypeOK, [Next]_vars, BotStep \/ Crash, NEW v \in Vaults, Fresh(v)
    PROVE  Fresh(v)' \/ SendDeliver(v) \/ (pc = "failed" /\ positions = {v})
<1>1. delivered' = delivered
  BY BotSends
<1>2. Places(v)' = Places(v) \/ SendDeliver(v)
  BY BotPlaces
<1>3. GivenUp(v)' => GivenUp(v) \/ (pc = "failed" /\ positions = {v})
  BY RowsWritten DEF GivenUp
<1>4. QED
  BY <1>1, <1>2, <1>3 DEF Fresh

LEMMA OutsideOnce ==
    ASSUME OnceInv, [Next]_vars, OracleOwnerSetsPrice \/ Outsiders, NEW v \in Vaults
    PROVE  Once(v)' /\ (Fresh(v) <=> Fresh(v)')
<1>1. /\ UNCHANGED <<delivered, mempool, rows>> /\ settled \subseteq settled'
  BY DEF OracleOwnerSetsPrice, Outsiders, OwnerSettles, MakerRedeems
<1>2. UNCHANGED <<Places(v), GivenUp(v)>>
  BY <1>1 DEF Places, Delivery, GivenUp
<1>3. Fresh(v) <=> Fresh(v)'
  BY <1>1, <1>2 DEF Fresh
<1>4. Once(v)
  BY DEF OnceInv
<1>5. QED
  BY <1>1, <1>2, <1>3, <1>4 DEF Once

LEMMA LandOnce ==
    ASSUME OnceInv, Land, NEW v \in Vaults
    PROVE  Once(v)' /\ (Fresh(v) => Fresh(v)')
<1>1. /\ mempool # <<>> /\ mempool' = Tail(mempool) /\ rows' = rows
      /\ TypeOK /\ Once(v) /\ delivered[v] \in Nat
  BY DEF Land, OnceInv, RowsInv, TypeOK
<1>2. /\ \A i \in Places(v)' : i \in Nat \ {0} /\ i + 1 \in Places(v)
      /\ 1 \in Places(v) <=> Head(mempool) = Delivery(v)
  BY <1>1, PlacesTail
<1>3. GivenUp(v)' = GivenUp(v)
  BY <1>1 DEF GivenUp
<1>4. settled \subseteq settled'
  BY DEF Land, LandSettle, LandPrice, LandDeliver
<1>5. \A i, j \in Places(v)' : i = j
  <2>1. ASSUME NEW i \in Places(v)', NEW j \in Places(v)' PROVE i = j
    <3>1. i \in Nat /\ j \in Nat /\ i + 1 = j + 1
      BY <1>1, <1>2, <2>1 DEF Once
    <3>2. QED
      BY <3>1
  <2>2. QED
    BY <2>1
<1>6. Places(v) = {} => Places(v)' = {}
  BY <1>2
<1>7. CASE 1 \in Places(v)
  <2>1. Places(v)' = {}
    <3>1. ASSUME NEW i \in Places(v)' PROVE FALSE
      <4>1. i \in Nat \ {0} /\ i + 1 = 1
        BY <1>1, <1>2, <1>7, <3>1 DEF Once
      <4>2. QED
        BY <4>1
    <3>2. QED
      BY <3>1
  <2>2. ~Fresh(v) /\ delivered[v] = 0 /\ ~GivenUp(v) /\ v \in settled
    BY <1>1, <1>7 DEF Once, Fresh
  <2>3. LandDeliver(v)
    BY <1>2, <1>7 DEF Land, Delivery
  <2>4. delivered' = delivered \/ delivered' = [delivered EXCEPT ![v] = @ + 1]
    BY <2>3 DEF LandDeliver
  <2>5. delivered'[v] \in {0, 1}
    BY <1>1, <2>2, <2>4 DEF TypeOK
  <2>6. delivered'[v] <= 1
    BY <2>5
  <2>7. QED
    BY <1>3, <1>4, <1>5, <2>1, <2>2, <2>6 DEF Once
<1>8. CASE 1 \notin Places(v)
  <2>1. delivered'[v] = delivered[v]
    <3>1. CASE delivered' = delivered
      BY <3>1
    <3>2. CASE Head(mempool).kind = "deliver" /\ LandDeliver(Head(mempool).arg)
      <4>1. PICK w \in Vaults : Head(mempool) = Delivery(w)
        <5>1. Head(mempool) \in Txs
          BY <1>1, HeadTailProperties DEF TypeOK
        <5>2. QED
          BY <3>2, <5>1 DEF Txs, Delivery
      <4>2. w # v /\ LandDeliver(w)
        BY <1>2, <1>8, <3>2, <4>1 DEF Delivery
      <4>3. delivered' = delivered \/ delivered' = [delivered EXCEPT ![w] = @ + 1]
        BY <4>2 DEF LandDeliver
      <4>4. QED
        BY <1>1, <4>2, <4>3 DEF TypeOK
    <3>3. QED
      BY <3>1, <3>2 DEF Land, LandSettle, LandPrice
  <2>2. Places(v)' # {} => Places(v) # {}
    BY <1>6
  <2>3. Fresh(v) => Fresh(v)'
    BY <1>3, <1>6, <2>1 DEF Fresh
  <2>4. QED
    BY <1>1, <1>3, <1>4, <1>5, <1>6, <2>1, <2>3 DEF Once
<1>9. QED
  BY <1>7, <1>8

\* What the bot tries for the first or the next time is fresh and settled.
LEMMA TriesFresh ==
    ASSUME OnceInv, NEW v \in Vaults, SendDeliver(v)
    PROVE  Fresh(v) /\ v \in settled /\ v \in itm
<1>1. /\ pc = "deliver" /\ (IF attempt = 0 THEN v \in todo ELSE positions = {v})
      /\ todo \subseteq itm /\ (Trying => positions \subseteq itm) /\ itm \subseteq done
      /\ done \subseteq settled
  BY DEF SendDeliver, OnceInv, RowsInv, WorksOnSides, Delivering, TypeOK, SettlesFresh
<1>2. CASE attempt = 0
  <2>1. ~Trying /\ v \in todo /\ pc \in Delivering
    BY <1>1, <1>2 DEF Trying, Delivering
  <2>2. QED
    BY <1>1, <2>1 DEF OnceInv, DeliversFresh
<1>3. CASE attempt # 0
  <2>1. Trying /\ positions = {v}
    BY <1>1, <1>3 DEF Trying
  <2>2. QED
    BY <1>1, <1>3, <2>1 DEF OnceInv, DeliversFresh
<1>4. QED
  BY <1>2, <1>3

LEMMA BotOnce ==
    ASSUME OnceInv, [Next]_vars, BotStep \/ Crash, NEW v \in Vaults
    PROVE  Once(v)'
<1>1. /\ TypeOK /\ Once(v) /\ DeliversFresh /\ WorksOnSides /\ done \subseteq settled
      /\ itm \subseteq done
  BY DEF OnceInv, RowsInv, SettlesFresh, TypeOK
<1>2. UNCHANGED <<settled, delivered>>
  BY BotSends
<1>3. CASE SendDeliver(v) /\ Send("deliver", v)
  <2>1. Fresh(v) /\ v \in settled
    BY <1>3, TriesFresh
  <2>2. Places(v)' \subseteq {Len(mempool) + 1}
    BY <1>1, <2>1, BotPlaces DEF Fresh
  <2>3. ~GivenUp(v)'
    BY <1>3, <2>1 DEF Send, GivenUp, Fresh
  <2>4. QED
    BY <1>2, <2>1, <2>2, <2>3 DEF Once, Fresh
<1>4. CASE ~(SendDeliver(v) /\ Send("deliver", v))
  <2>1. Places(v)' = Places(v)
    BY <1>1, <1>4, BotPlaces
  <2>2. CASE GivenUp(v)' => GivenUp(v)
    <3>1. Fresh(v) => Fresh(v)'
      BY <1>2, <2>1, <2>2 DEF Fresh
    <3>2. QED
      BY <1>1, <1>2, <2>1, <2>2, <3>1 DEF Once
  <2>3. CASE GivenUp(v)' /\ ~GivenUp(v)
    <3>1. pc = "failed" /\ positions = {v}
      BY <1>1, <2>3, RowsWritten DEF GivenUp
    <3>2. Fresh(v) /\ v \in itm
      BY <1>1, <3>1 DEF DeliversFresh, WorksOnSides, Trying
    <3>3. QED
      BY <1>1, <1>2, <2>1, <3>2 DEF Once, Fresh
  <2>4. QED
    BY <2>2, <2>3
<1>5. QED
  BY <1>3, <1>4

LEMMA AroundSettles ==
    ASSUME OnceInv, [Next]_vars, Land \/ OracleOwnerSetsPrice \/ Outsiders
    PROVE  SettlesFresh'
<1>1. UNCHANGED <<pc, todo, positions, done, attempt>>
  BY DEF Land, OracleOwnerSetsPrice, Outsiders, OwnerSettles, MakerRedeems, botVars
<1>2. TypeOK /\ SettlesFresh
  BY DEF OnceInv, RowsInv
<1>3. price # NoPrice => price' = price
  BY <1>2, ChainForward
<1>4. /\ \A v \in Vaults : Fresh(v) => Fresh(v)'
      /\ settled \subseteq settled'
  <2>1. \A v \in Vaults : Fresh(v) => Fresh(v)'
    BY OutsideOnce, LandOnce
  <2>2. Land => settled \subseteq settled'
    BY DEF Land, LandSettle, LandPrice, LandDeliver
  <2>3. OracleOwnerSetsPrice \/ Outsiders => settled \subseteq settled'
    BY DEF OracleOwnerSetsPrice, Outsiders, OwnerSettles, MakerRedeems
  <2>4. QED
    BY <2>1, <2>2, <2>3
<1>5. positions \subseteq Vaults
  BY <1>2 DEF TypeOK
<1>6. mempool' = mempool \/ (Land /\ mempool # <<>> /\ mempool' = Tail(mempool))
  BY DEF Land, OracleOwnerSetsPrice, Outsiders, OwnerSettles, MakerRedeems
<1>7. ASSUME NEW p \in Prices, LastIs([kind |-> "price", arg |-> p])
      PROVE  price' # NoPrice \/ LastIs([kind |-> "price", arg |-> p])'
  <2>1. CASE mempool' = mempool
    BY <1>7, <2>1 DEF LastIs
  <2>2. CASE Land /\ mempool # <<>> /\ mempool' = Tail(mempool)
    <3>1. CASE Head(mempool) = [kind |-> "price", arg |-> p]
      <4>1. LandPrice(p)
        BY <2>2, <3>1 DEF Land
      <4>2. price' = (IF price = NoPrice THEN p ELSE price) /\ p # NoPrice
        BY <4>1, SettlerBotAssumption DEF LandPrice
      <4>3. QED
        BY <4>2
    <3>2. CASE Head(mempool) # [kind |-> "price", arg |-> p]
      BY <1>2, <1>7, <2>2, <3>2, LastOfTail
    <3>3. QED
      BY <3>1, <3>2
  <2>3. QED
    BY <1>6, <2>1, <2>2
<1>8. ASSUME price # NoPrice, NEW b \in SUBSET Vaults, LastIs([kind |-> "settle", arg |-> b])
      PROVE  b \subseteq settled' \/ LastIs([kind |-> "settle", arg |-> b])'
  <2>1. CASE mempool' = mempool
    BY <1>8, <2>1 DEF LastIs
  <2>2. CASE Land /\ mempool # <<>> /\ mempool' = Tail(mempool)
    <3>1. CASE Head(mempool) = [kind |-> "settle", arg |-> b]
      <4>1. LandSettle(b)
        BY <2>2, <3>1 DEF Land
      <4>2. QED
        BY <1>8, <4>1 DEF LandSettle
    <3>2. CASE Head(mempool) # [kind |-> "settle", arg |-> b]
      BY <1>2, <1>8, <2>2, <3>2, LastOfTail
    <3>3. QED
      BY <3>1, <3>2
  <2>3. QED
    BY <1>6, <2>1, <2>2
<1>9. /\ (pc \in {"idle", "reconcile", "price", "price_wait"} => done = {})'
      /\ (pc = "reconcile" => \A v \in positions : v \in todo \/ Fresh(v))'
      /\ (pc \in {"price", "price_wait"} \cup AfterPrice => \A v \in positions : Fresh(v))'
      /\ (pc \in AfterPrice => price # NoPrice /\ todo \subseteq positions /\ done \subseteq positions)'
      /\ (done \subseteq settled)'
  <2>1. (pc = "reconcile" => \A v \in positions : v \in todo \/ Fresh(v))'
    BY <1>1, <1>2, <1>4, <1>5 DEF SettlesFresh
  <2>2. (pc \in {"price", "price_wait"} \cup AfterPrice => \A v \in positions : Fresh(v))'
    BY <1>1, <1>2, <1>4, <1>5 DEF SettlesFresh, AfterPrice
  <2>3. QED
    BY <1>1, <1>2, <1>3, <1>4, <2>1, <2>2 DEF SettlesFresh, AfterPrice
<1>10. (pc = "price_wait" =>
           price # NoPrice \/ \E p \in Prices : LastIs([kind |-> "price", arg |-> p]))'
  BY <1>1, <1>2, <1>3, <1>7 DEF SettlesFresh
<1>11. (pc = "settle_wait" =>
           \/ todo \subseteq settled
           \/ \E b \in SUBSET Vaults : b = todo /\ LastIs([kind |-> "settle", arg |-> b]))'
  BY <1>1, <1>2, <1>4, <1>8 DEF SettlesFresh, AfterPrice
<1>12. QED
  BY <1>9, <1>10, <1>11 DEF SettlesFresh

LEMMA AroundDelivers ==
    ASSUME OnceInv, [Next]_vars, Land \/ OracleOwnerSetsPrice \/ Outsiders
    PROVE  DeliversFresh'
<1>1. UNCHANGED <<pc, todo, positions, done, attempt, rows>>
  BY DEF Land, OracleOwnerSetsPrice, Outsiders, OwnerSettles, MakerRedeems, botVars
<1>2. TypeOK /\ DeliversFresh /\ positions \subseteq Vaults /\ todo \subseteq Vaults
  BY DEF OnceInv, RowsInv, TypeOK
<1>3. \A v \in Vaults : Fresh(v) => Fresh(v)'
  BY OutsideOnce, LandOnce
<1>4. Trying' = Trying /\ \A v \in Vaults : GivenUp(v)' = GivenUp(v)
  BY <1>1 DEF Trying, GivenUp
<1>5. ASSUME NEW v \in positions, pc = "deliver_wait"
      PROVE  LastIs(Delivery(v))' \/ (mempool' = <<>> /\ (status' = "reverted" => delivered'[v] = 0))
  <2>1. CASE UNCHANGED <<mempool, status, delivered>>
    BY <1>2, <1>5, <2>1 DEF DeliversFresh, LastIs
  <2>2. CASE Land /\ mempool # <<>> /\ mempool' = Tail(mempool)
    <3>1. LastIs(Delivery(v))
      BY <1>2, <1>5, <2>2 DEF DeliversFresh
    <3>2. CASE Head(mempool) # Delivery(v)
      BY <1>2, <2>2, <3>1, <3>2, LastOfTail
    <3>3. CASE Head(mempool) = Delivery(v)
      <4>1. LandDeliver(v)
        BY <2>2, <3>3 DEF Land, Delivery
      <4>2. v \in Vaults /\ Once(v) /\ Places(v) # {}
        BY <1>2, <2>2, <3>3, PlacesTail DEF OnceInv
      <4>3. delivered[v] = 0
        BY <4>2 DEF Once
      <4>4. status' = "reverted" => delivered'[v] = 0
        BY <4>1, <4>3 DEF LandDeliver
      <4>5. QED
        BY <1>2, <2>2, <3>1, <4>4, LastOfTail
    <3>4. QED
      BY <3>2, <3>3
  <2>3. QED
    BY <2>1, <2>2 DEF Land, OracleOwnerSetsPrice, Outsiders, OwnerSettles, MakerRedeems
<1>6. (pc \in Delivering => \A v \in todo : (Trying /\ v \in positions) \/ Fresh(v))'
  BY <1>1, <1>2, <1>3, <1>4 DEF DeliversFresh
<1>7. (Trying => \A v \in positions : ~GivenUp(v))'
  BY <1>1, <1>2, <1>4 DEF DeliversFresh
<1>8. (pc = "failed" \/ (pc = "deliver" /\ attempt # 0) => \A v \in positions : Fresh(v))'
  BY <1>1, <1>2, <1>3 DEF DeliversFresh
<1>9. (pc = "deliver_wait" => \A v \in positions :
           LastIs(Delivery(v)) \/ (mempool = <<>> /\ (status = "reverted" => delivered[v] = 0)))'
  BY <1>1, <1>5 DEF LastIs, Delivery
<1>10. QED
  BY <1>6, <1>7, <1>8, <1>9 DEF DeliversFresh

\* A step of phase 1 keeps what is fresh.
LEMMA EarlyFresh ==
    ASSUME OnceInv, [Next]_vars, BotStep \/ Crash, pc \in BeforeDelivery, NEW v \in Vaults, Fresh(v)
    PROVE  Fresh(v)'
<1>1. pc # "failed" /\ pc # "deliver"
  BY DEF BeforeDelivery, PhaseOne
<1>2. ~SendDeliver(v)
  BY <1>1 DEF SendDeliver
<1>3. TypeOK
  BY DEF OnceInv, RowsInv
<1>4. QED
  BY <1>1, <1>2, <1>3, BotKeepsFresh

\* Reconciliation, the price and the first batch.
LEMMA SettlingBegins ==
    ASSUME OnceInv, Sure, [Next]_vars,
           \/ Fetch \/ (\E v \in Vaults : Reconcile(v)) \/ Reconciled \/ SendPrice \/ PriceDone
    PROVE  SettlesFresh'
<1>1. TypeOK /\ SettlesFresh /\ positions \subseteq Vaults
  BY DEF OnceInv, RowsInv, TypeOK
<1>2. BotStep
  BY DEF BotStep
<1>3. UNCHANGED <<settled, price>> /\ (IdleBot \/ done' = done)
  BY DEF Fetch, Reconcile, Reconciled, SendPrice, PriceDone, BeginSettling, Send, chainVars
<1>4. pc \in BeforeDelivery
  BY DEF Fetch, Reconcile, Reconciled, SendPrice, PriceDone, BeforeDelivery, PhaseOne
<1>5. \A v \in Vaults : Fresh(v) => Fresh(v)'
  BY <1>2, <1>4, EarlyFresh
<1>6. CASE IdleBot
  BY <1>6 DEF IdleBot, SettlesFresh, AfterPrice
<1>7. CASE Fetch
  <2>1. pc = "idle" /\ pc' = "reconcile" /\ todo' = positions' /\ done' = done
    BY <1>7 DEF Fetch
  <2>2. QED
    BY <1>1, <2>1 DEF SettlesFresh, AfterPrice
<1>8. ASSUME NEW w \in Vaults, Reconcile(w) PROVE SettlesFresh'
  <2>1. pc = "reconcile" /\ pc' = pc /\ todo' = todo \ {w} /\ done' = done
    BY <1>8 DEF Reconcile
  <2>2. (w \in settled /\ positions' = positions \ {w}) \/ (w \notin settled /\ positions' = positions)
    BY <1>8 DEF Reconcile, Sure, Fails
  <2>3. w \notin settled => Fresh(w)
    BY DEF OnceInv, Once
  <2>4. ASSUME NEW v \in positions' PROVE v \in todo' \/ Fresh(v)'
    <3>1. v \in positions /\ (v = w => Fresh(w))
      BY <2>2, <2>3, <2>4
    <3>2. v \in todo \/ Fresh(v)
      BY <1>1, <2>1, <3>1 DEF SettlesFresh
    <3>3. QED
      BY <1>1, <1>5, <2>1, <3>1, <3>2
  <2>5. QED
    BY <1>1, <1>3, <2>1, <2>4 DEF SettlesFresh, AfterPrice
<1>9. CASE Reconciled /\ ~IdleBot
  <2>1. pc = "reconcile" /\ todo = {} /\ pc' = "price" /\ positions' = positions /\ done' = done
    BY <1>9 DEF Reconciled
  <2>2. \A v \in positions' : Fresh(v)'
    BY <1>1, <1>5, <2>1 DEF SettlesFresh
  <2>3. QED
    BY <1>1, <2>1, <2>2 DEF SettlesFresh, AfterPrice
<1>10. CASE SendPrice
  <2>1. pc = "price" /\ pc' = "price_wait" /\ positions' = positions /\ done' = done
    BY <1>10 DEF SendPrice
  <2>2. PICK p \in Prices : Send("price", p)
    BY <1>10 DEF SendPrice
  <2>3. LastIs([kind |-> "price", arg |-> p])'
    BY <1>1, <2>2, SentTypes DEF Txs
  <2>4. \A v \in positions' : Fresh(v)'
    BY <1>1, <1>5, <2>1 DEF SettlesFresh
  <2>5. (\E p_1 \in Prices : LastIs([kind |-> "price", arg |-> p_1]))'
    BY <2>3 DEF LastIs
  <2>6. QED
    BY <1>1, <1>3, <2>1, <2>4, <2>5 DEF SettlesFresh, AfterPrice
<1>11. CASE PriceDone
  <2>1. /\ pc \in {"price", "price_wait"} /\ pc' = "settle" /\ todo' = positions
        /\ positions' = positions /\ done' = done /\ price' = price
    BY <1>11 DEF PriceDone, BeginSettling, chainVars
  <2>2. price # NoPrice
    <3>1. (pc = "price" /\ price # NoPrice) \/ (pc = "price_wait" /\ mempool = <<>>)
      BY <1>11 DEF PriceDone, Sure, Fails, TimedOut
    <3>2. QED
      BY <1>1, <3>1 DEF SettlesFresh, LastIs
  <2>3. \A v \in positions' : Fresh(v)'
    BY <1>1, <1>5, <2>1 DEF SettlesFresh
  <2>4. done = {}
    BY <1>1, <2>1 DEF SettlesFresh
  <2>5. QED
    BY <1>1, <2>1, <2>2, <2>3, <2>4 DEF SettlesFresh, AfterPrice
<1>12. QED
  BY <1>6, <1>7, <1>8, <1>9, <1>10, <1>11

\* Batches and marks.
LEMMA SettlingEnds ==
    ASSUME OnceInv, Sure, [Next]_vars,
           SendSettle \/ BatchConfirmed \/ BatchFailed \/ (\E v \in Vaults : Mark(v)) \/ Marked
    PROVE  SettlesFresh'
<1>1. TypeOK /\ SettlesFresh /\ positions \subseteq Vaults
  BY DEF OnceInv, RowsInv, TypeOK
<1>2. BotStep
  BY DEF BotStep
<1>3. /\ UNCHANGED <<settled, price>> /\ (IdleBot \/ positions' = positions)
      /\ pc \in AfterPrice
  BY DEF SendSettle, BatchConfirmed, BatchFailed, Mark, Marked, EndPhaseOne, Send, chainVars,
         AfterPrice
<1>4. /\ price # NoPrice /\ todo \subseteq positions /\ done \subseteq positions
      /\ done \subseteq settled /\ \A v \in positions : Fresh(v)
  BY <1>1, <1>3 DEF SettlesFresh
<1>5. \A v \in positions : Fresh(v)'
  <2>1. pc \in BeforeDelivery
    BY <1>3 DEF AfterPrice, BeforeDelivery, PhaseOne
  <2>2. QED
    BY <1>1, <1>2, <1>4, <2>1, EarlyFresh
<1>6. CASE IdleBot
  BY <1>6 DEF IdleBot, SettlesFresh, AfterPrice
<1>7. ASSUME ~IdleBot, todo' \subseteq positions, done' \subseteq positions, done' \subseteq settled,
             pc' \in {"settle", "mark", "identify"}
      PROVE  SettlesFresh'
  BY <1>3, <1>4, <1>5, <1>7 DEF SettlesFresh, AfterPrice
<1>8. CASE SendSettle /\ ~IdleBot
  <2>1. pc' = "settle_wait" /\ done' = done
    BY <1>8 DEF SendSettle
  <2>2. PICK batch \in SUBSET todo : Send("settle", batch) /\ todo' = batch
    BY <1>8 DEF SendSettle
  <2>3. batch \in SUBSET Vaults
    BY <1>1, <1>4
  <2>4. LastIs([kind |-> "settle", arg |-> batch])'
    BY <1>1, <2>2, <2>3, SentTypes DEF Txs
  <2>5. (\E b \in SUBSET Vaults : b = todo /\ LastIs([kind |-> "settle", arg |-> b]))'
    BY <2>2, <2>3, <2>4 DEF LastIs
  <2>6. QED
    BY <1>3, <1>4, <1>5, <1>8, <2>1, <2>2, <2>5 DEF SettlesFresh, AfterPrice
<1>9. CASE BatchConfirmed /\ ~IdleBot
  <2>1. /\ pc = "settle_wait" /\ mempool = <<>> /\ pc' = "mark" /\ done' = done \cup todo
        /\ todo' = todo
    BY <1>9 DEF BatchConfirmed, Confirmed
  <2>2. todo \subseteq settled
    BY <1>1, <2>1 DEF SettlesFresh, LastIs
  <2>3. QED
    BY <1>4, <1>7, <1>9, <2>1, <2>2
<1>10. CASE BatchFailed /\ ~IdleBot
  BY <1>4, <1>7, <1>10 DEF BatchFailed, EndPhaseOne
<1>11. CASE (\E v \in Vaults : Mark(v)) /\ ~IdleBot
  BY <1>4, <1>7, <1>11 DEF Mark
<1>12. CASE Marked /\ ~IdleBot
  BY <1>4, <1>7, <1>12 DEF Marked, EndPhaseOne
<1>13. QED
  BY <1>6, <1>8, <1>9, <1>10, <1>11, <1>12

\* From phase 2 on there is nothing left to say of phase 1.
LEMMA SettlingOver ==
    ASSUME OnceInv,
           \/ Identify \/ DeliverConfirmed \/ DeliverFailedOnce \/ BeginOtm \/ EndCycle \/ Crash
           \/ \E v \in Vaults : SendDeliver(v) \/ RecordDelivery(v) \/ MarkOtm(v)
    PROVE  SettlesFresh'
<1>1. SettlesFresh
  BY DEF OnceInv
<1>2. settled' = settled
  BY DEF Identify, DeliverConfirmed, DeliverFailedOnce, BeginOtm, EndCycle, Crash, SendDeliver,
         RecordDelivery, MarkOtm, Send, chainVars
<1>3. CASE IdleBot
  BY <1>3 DEF IdleBot, SettlesFresh, AfterPrice
<1>4. CASE ~IdleBot
  <2>1. pc' \in Delivering \cup {"otm"} /\ done' \subseteq done
    BY <1>4 DEF Identify, BeginDelivery, DeliverConfirmed, DeliverFailedOnce, BeginOtm, EndCycle,
                Crash, SendDeliver, RecordDelivery, MarkOtm, Delivering
  <2>2. QED
    BY <1>1, <1>2, <2>1 DEF SettlesFresh, AfterPrice, Delivering
<1>5. QED
  BY <1>3, <1>4

LEMMA NothingTried ==
    ASSUME pc' \in BeforeDelivery \cup {"otm"}
    PROVE  DeliversFresh'
  BY DEF BeforeDelivery, PhaseOne, DeliversFresh, Delivering, Trying

LEMMA IdentifyFresh ==
    ASSUME OnceInv, [Next]_vars, Identify
    PROVE  DeliversFresh'
<1>1. /\ pc = "identify" /\ pc' = "deliver" /\ todo' \subseteq done /\ attempt' = attempt
      /\ attempt = 0
  BY DEF Identify, BeginDelivery, OnceInv, RowsInv, WorksOnSides, BeforeDelivery
<1>2. done \subseteq positions /\ positions \subseteq Vaults /\ \A v \in positions : Fresh(v)
  BY <1>1 DEF OnceInv, RowsInv, TypeOK, SettlesFresh, AfterPrice
<1>3. \A v \in positions : Fresh(v)'
  BY <1>1, <1>2, EarlyFresh DEF BotStep, BeforeDelivery
<1>4. QED
  BY <1>1, <1>2, <1>3 DEF DeliversFresh, Trying

LEMMA TryFresh ==
    ASSUME OnceInv, [Next]_vars, NEW v \in Vaults, SendDeliver(v)
    PROVE  DeliversFresh'
<1>1. /\ pc = "deliver" /\ positions' = {v} /\ attempt' = attempt + 1 /\ todo' = todo
      /\ pc' \in {"deliver", "deliver_wait", "failed"} /\ rows' = rows
      /\ (IF attempt = 0 THEN v \in todo ELSE positions = {v})
  BY DEF SendDeliver, Send, chainVars
<1>2. /\ TypeOK /\ DeliversFresh /\ todo \subseteq Vaults /\ attempt \in Nat
  BY SettlerBotAssumption DEF OnceInv, RowsInv, TypeOK
<1>3. Fresh(v)
  BY TriesFresh
<1>4. Trying'
  BY <1>1, <1>2 DEF Trying
<1>5. ASSUME NEW w \in todo, w # v PROVE Fresh(w)'
  <2>1. Fresh(w)
    <3>1. CASE attempt = 0
      BY <1>1, <1>2, <1>5, <3>1 DEF DeliversFresh, Delivering, Trying
    <3>2. CASE attempt # 0
      BY <1>1, <1>2, <1>5, <3>2 DEF DeliversFresh, Delivering
    <3>3. QED
      BY <3>1, <3>2
  <2>2. ~SendDeliver(w)
    BY <1>1, <1>5 DEF SendDeliver
  <2>3. BotStep
    BY DEF BotStep
  <2>4. QED
    BY <1>1, <1>2, <1>5, <2>1, <2>2, <2>3, BotKeepsFresh
<1>6. (pc \in Delivering => \A w \in todo : (Trying /\ w \in positions) \/ Fresh(w))'
  BY <1>1, <1>4, <1>5
<1>7. (Trying => \A w \in positions : ~GivenUp(w))'
  BY <1>1, <1>3 DEF Fresh, GivenUp
<1>8. CASE pc' = "deliver_wait"
  <2>1. Send("deliver", v)
    BY <1>8 DEF SendDeliver
  <2>2. LastIs([kind |-> "deliver", arg |-> v])'
    BY <1>2, <2>1, SentTypes DEF Txs
  <2>3. (\A w \in positions : LastIs(Delivery(w)))'
    BY <1>1, <2>2 DEF LastIs, Delivery
  <2>4. QED
    BY <1>6, <1>7, <1>8, <2>3 DEF DeliversFresh
<1>9. CASE pc' # "deliver_wait"
  <2>1. UNCHANGED <<delivered, mempool>>
    BY <1>9 DEF SendDeliver, chainVars
  <2>2. Fresh(v)'
    BY <1>1, <1>3, <2>1 DEF Fresh, Places, Delivery, GivenUp
  <2>3. QED
    BY <1>1, <1>6, <1>7, <1>9, <2>2 DEF DeliversFresh
<1>10. QED
  BY <1>8, <1>9

LEMMA AnswerFresh ==
    ASSUME OnceInv, Sure, [Next]_vars,
           DeliverConfirmed \/ DeliverFailedOnce \/ (\E v \in Vaults : RecordDelivery(v))
    PROVE  DeliversFresh'
<1>1. /\ TypeOK /\ DeliversFresh /\ todo \subseteq Vaults /\ positions \subseteq Vaults
      /\ positions' = positions
  BY DEF OnceInv, RowsInv, TypeOK, DeliverConfirmed, DeliverFailedOnce, RecordDelivery
<1>2. BotStep /\ pc \in {"deliver_wait", "delivered", "failed"} /\ pc \in Delivering /\ Trying
  BY DEF BotStep, DeliverConfirmed, DeliverFailedOnce, RecordDelivery, Delivering, Trying
<1>3. \A w \in Vaults : ~SendDeliver(w)
  BY <1>2 DEF SendDeliver
<1>4. ASSUME NEW w \in Vaults, Fresh(w), pc # "failed" \/ positions # {w} PROVE Fresh(w)'
  BY <1>1, <1>2, <1>3, <1>4, BotKeepsFresh
<1>5. CASE DeliverConfirmed
  <2>1. pc = "deliver_wait" /\ pc' = "delivered" /\ todo' = todo /\ rows' = rows
    BY <1>5 DEF DeliverConfirmed
  <2>2. Trying' /\ \A w \in positions : ~GivenUp(w)'
    BY <1>1, <1>2, <2>1 DEF DeliversFresh, GivenUp, Trying
  <2>3. \A w \in todo : w \in positions \/ Fresh(w)'
    BY <1>1, <1>2, <1>4, <2>1 DEF DeliversFresh
  <2>4. QED
    BY <1>1, <2>1, <2>2, <2>3 DEF DeliversFresh
<1>6. CASE DeliverFailedOnce
  <2>1. /\ pc = "deliver_wait" /\ pc' \in {"deliver", "failed"} /\ todo' = todo /\ rows' = rows
        /\ mempool = <<>> /\ status = "reverted"
    BY <1>6 DEF DeliverFailedOnce, Sure, TimedOut, Reverted
  <2>2. ASSUME NEW w \in positions PROVE Fresh(w)
    <3>1. delivered[w] = 0
      BY <1>1, <2>1, <2>2 DEF DeliversFresh, LastIs
    <3>2. Places(w) = {}
      BY <2>1 DEF Places
    <3>3. ~GivenUp(w)
      BY <1>1, <1>2, <2>2 DEF DeliversFresh
    <3>4. QED
      BY <3>1, <3>2, <3>3 DEF Fresh
  <2>3. \A w \in positions : Fresh(w)'
    BY <1>1, <1>4, <2>1, <2>2
  <2>4. \A w \in todo : Fresh(w)'
    BY <1>1, <1>2, <1>4, <2>1, <2>2 DEF DeliversFresh
  <2>5. QED
    BY <1>1, <2>1, <2>3, <2>4 DEF DeliversFresh, Fresh
<1>7. ASSUME NEW v \in Vaults, RecordDelivery(v) PROVE DeliversFresh'
  <2>1. pc' = "deliver" /\ attempt' = 0 /\ todo' = todo \ {v} /\ positions = {v}
    BY <1>7 DEF RecordDelivery
  <2>2. \A w \in todo' : Fresh(w)'
    BY <1>1, <1>2, <1>4, <2>1 DEF DeliversFresh
  <2>3. QED
    BY <2>1, <2>2 DEF DeliversFresh, Trying
<1>8. QED
  BY <1>5, <1>6, <1>7

LEMMA BotDelivers ==
    ASSUME OnceInv, Sure, [Next]_vars, BotStep \/ Crash
    PROVE  DeliversFresh'
<1>1. CASE Identify
  BY <1>1, IdentifyFresh
<1>2. CASE \E v \in Vaults : SendDeliver(v)
  BY <1>2, TryFresh
<1>3. CASE DeliverConfirmed \/ DeliverFailedOnce \/ (\E v \in Vaults : RecordDelivery(v))
  BY <1>3, AnswerFresh
<1>4. CASE BeginOtm \/ (\E v \in Vaults : MarkOtm(v))
  BY <1>4, NothingTried DEF BeginOtm, MarkOtm
<1>5. CASE \/ Fetch \/ Reconciled \/ SendPrice \/ PriceDone \/ SendSettle \/ BatchConfirmed
           \/ BatchFailed \/ Marked \/ EndCycle \/ Crash
           \/ (\E v \in Vaults : Reconcile(v) \/ Mark(v))
  BY <1>5, EarlySteps, NothingTried DEF OnceInv, RowsInv
<1>6. QED
  BY <1>1, <1>2, <1>3, <1>4, <1>5 DEF BotStep

LEMMA OnceStep == ASSUME OnceInv, Sure, [Next]_vars PROVE OnceInv'
<1>1. RowsInv'
  BY RowsStep DEF OnceInv
<1>2. CASE UNCHANGED vars
  <2>1. /\ UNCHANGED <<settled, price, delivered, mempool, status, rows, pc, todo, positions, done,
                       attempt>>
    BY <1>2 DEF vars, systemVars, chainVars, botVars
  <2>2. \A v \in Vaults : Places(v)' = Places(v) /\ GivenUp(v)' = GivenUp(v)
    BY <2>1 DEF Places, Delivery, GivenUp
  <2>3. \A v \in Vaults : (Fresh(v)' <=> Fresh(v)) /\ Once(v)'
    BY <2>1, <2>2 DEF OnceInv, Once, Fresh
  <2>4. SettlesFresh'
    BY <2>1, <2>3 DEF OnceInv, RowsInv, TypeOK, SettlesFresh, LastIs
  <2>5. DeliversFresh'
    <3>1. todo \subseteq Vaults /\ positions \subseteq Vaults /\ DeliversFresh
      BY DEF OnceInv, RowsInv, TypeOK
    <3>2. QED
      BY <2>1, <2>2, <2>3, <3>1 DEF DeliversFresh, LastIs, Trying, Delivery
  <2>6. QED
    BY <1>1, <2>3, <2>4, <2>5 DEF OnceInv
<1>3. CASE BotStep \/ Crash
  <2>1. SettlesFresh'
    BY <1>3, SettlingBegins, SettlingEnds, SettlingOver DEF BotStep
  <2>2. QED
    BY <1>1, <1>3, <2>1, BotOnce, BotDelivers DEF OnceInv
<1>4. CASE Land \/ OracleOwnerSetsPrice \/ Outsiders
  BY <1>1, <1>4, LandOnce, OutsideOnce, AroundSettles, AroundDelivers DEF OnceInv
<1>5. QED
  BY <1>2, <1>3, <1>4 DEF Next

LEMMA OnceInit == ASSUME Init PROVE OnceInv
<1>1. RowsInv
  BY RowsInit
<1>2. mempool = <<>> /\ pc = "idle" /\ done = {} /\ settled = {}
  BY DEF Init
<1>3. ASSUME NEW v \in Vaults PROVE delivered[v] = 0 /\ Places(v) = {} /\ ~GivenUp(v)
  <2>1. delivered[v] = 0 /\ ~GivenUp(v)
    BY DEF Init, GivenUp
  <2>2. Places(v) = {}
    BY <1>2 DEF Places
  <2>3. QED
    BY <2>1, <2>2
<1>4. \A v \in Vaults : Once(v)
  BY <1>3 DEF Once, Fresh
<1>5. SettlesFresh /\ DeliversFresh
  BY <1>2 DEF SettlesFresh, DeliversFresh, AfterPrice, Delivering, Trying
<1>6. QED
  BY <1>1, <1>4, <1>5 DEF OnceInv

\* As long as receipts arrive and reads and sends work, nobody is delivered to twice
\* and what is given up was not delivered, through failed updates, restarts, owners who
\* settle first and redemptions that make deliveries revert.
THEOREM NeverDeliveredTwice == ASSUME Sure PROVE Spec => []DeliveredAtMostOnce
<1>1. Init => OnceInv
  BY OnceInit
<1>2. OnceInv /\ [Next]_vars => OnceInv'
  BY OnceStep
<1>3. OnceInv => DeliveredAtMostOnce
  BY DEF OnceInv, Once, GivenUp, DeliveredAtMostOnce
<1>4. QED
  BY <1>1, <1>2, <1>3, PTL DEF Spec
=============================================================================
