---------------------------- MODULE AcceptProofs ----------------------------
(***************************************************************************)
(* Theorems about the two dialogs that send orders, the one that accepts a   *)
(* quote and the one that accepts a range, each for any number of runs,      *)
(* failures and transactions.                                               *)
(***************************************************************************)
EXTENDS OrderFlow, RangeFlow, SequenceTheorems, FiniteSetTheorems, WellFoundedInduction,
        NaturalsInduction, TLAPS

Reading == {"read balance", "read allowance", "read before"}

CallType == [call : {"approve", "order"}, token : {"usdc", "okb"}, amount : Nat]
RaceType == [asks : Seq(CallType), fire : {"off", "asking", "hash", "refused"},
             poll : {"off", "on", "seen", "gave up"}, before : Nat]
RunType == [pc : {"none", "racing", "ended"} \cup Reading, mount : Nat, approves : BOOLEAN,
            race : RaceType]
TxType == [by : Runs, call : {"approve", "order"}, token : {"usdc", "okb"}, amount : Nat,
           status : {"pending", "landed", "reverted"}]

ScreenTypes ==
    /\ screen \in {"modal", "menu", "accepted"} /\ mount \in 0..MaxMounts
    /\ step \in {"idle", "executing", "confirmed"} /\ txHash \in BOOLEAN
    /\ error \in {"none", "not available", "could not read", "no funds were moved"}
    /\ deposit \in {"none", "usdc", "okb"}
    /\ rows \subseteq Runs

FlowTypes ==
    /\ props \in [side : {"buy", "sell"}, amount : Nat, complete : BOOLEAN]
    /\ held \in [Tokens -> Nat] /\ sent \in Seq(TxType) /\ runs \in [Runs -> RunType]

\* The wallet is asked for the order last.
AskedLast(asks) == \A i \in 1..Len(asks) : asks[i].call = "order" <=> i = Len(asks)

\* What a run still has to ask has not been refused, and is asked in its race.
AsksInOrder(run) ==
    /\ AskedLast(run.race.asks)
    /\ run.race.asks # <<>> => run.pc \in {"racing", "ended"}
    /\ run.race.asks # <<>> /\ run.pc = "racing" => run.race.fire = "asking"

\* A run that may send an order yet, and one that keeps the button disabled in time
\* for its order: it may, or it has.
MaySend(run) == run.pc \in Reading \/ run.race.asks # <<>>
Holding(run) == run.pc \notin {"none", "ended"} /\ (MaySend(run) \/ run.race.fire = "hash")

Ordered == \E i \in DOMAIN sent : sent[i].call = "order"

Untouched ==
    mount = 0 => sent = <<>> /\ outside = 0 /\ screen = "menu" /\ \A r \in Runs : runs[r].pc = "none"

\* Without overlap there is one order, sent or to come, and while there is, the
\* dialog is away or waits for it.
OneOrder ==
    ~overlapped =>
        /\ \A i, j \in DOMAIN sent : sent[i].call = "order" /\ sent[j].call = "order" => i = j
        /\ Ordered => \A r \in Runs : ~MaySend(runs[r])
        /\ \A r, q \in Runs : MaySend(runs[r]) /\ MaySend(runs[q]) => r = q
        /\ screen = "modal" /\ (Ordered \/ \E r \in Runs : MaySend(runs[r]))
               => \E q \in Runs : Holding(runs[q])

\* Without orders and other apps no poll sees less than there was.
NothingMoved ==
    ~Ordered /\ outside = 0 =>
        /\ screen # "accepted"
        /\ \A r \in Runs : runs[r].pc = "racing" =>
               /\ runs[r].race.before = held[Token]
               /\ runs[r].race.poll # "seen" /\ runs[r].race.fire # "hash"

\* Without overlap an order that was sent while a run is under way, or can be, is its own.
OwnOrders ==
    ~overlapped => \A r \in Runs : Under(r) =>
        /\ \A i \in DOMAIN sent : sent[i].call = "order" => sent[i].by = r
        /\ \A q \in Runs : MaySend(runs[q]) => q = r

OrderInv ==
    /\ ScreenTypes /\ FlowTypes /\ outside \in Nat /\ Untouched /\ OneOrder /\ NothingMoved
    /\ OwnOrders /\ RowsHaveOrders
    /\ \A r \in Runs : AsksInOrder(runs[r])

LEMMA InvOrder ==
    ASSUME OrderInv
    PROVE  OrderTypeOK /\ RetryNeverDoubles /\ AcceptedMeansSent /\ RowsHaveOrders
<1>1. OrderTypeOK
  BY DEF OrderInv, ScreenTypes, FlowTypes, OrderTypeOK
<1>2. RetryNeverDoubles
  BY DEF OrderInv, OneOrder, RetryNeverDoubles
<1>3. AcceptedMeansSent
  BY DEF OrderInv, NothingMoved, Ordered, AcceptedMeansSent
<1>4. QED
  BY <1>1, <1>2, <1>3 DEF OrderInv

LEMMA FreshRunType ==
    FreshRun \in RunType /\ AsksInOrder(FreshRun) /\ ~MaySend(FreshRun) /\ FreshRun.pc = "none"
<1>1. NoRace \in RaceType /\ NoRace.asks = <<>>
  BY DEF NoRace, RaceType
<1>2. FreshRun \in RunType /\ FreshRun.race = NoRace /\ FreshRun.pc = "none"
  BY <1>1 DEF FreshRun, RunType
<1>3. AskedLast(<<>>)
  BY DEF AskedLast
<1>4. QED
  BY <1>1, <1>2, <1>3 DEF AsksInOrder, MaySend, Reading

LEMMA InitOrder ==
    ASSUME sent = <<>>, outside = 0, held \in [Tokens -> Nat], OrderInit
    PROVE  OrderInv
<1>1. \A r \in Runs : runs[r] = FreshRun
  BY DEF OrderInit
<1>2. ScreenTypes
  <2>1. 0 \in 0..MaxMounts /\ FALSE \in BOOLEAN
    BY OrderAssumption
  <2>2. QED
    BY <2>1, Zenon DEF OrderInit, ScreenTypes
<1>3. FlowTypes
  <2>1. runs \in [Runs -> RunType]
    BY FreshRunType DEF OrderInit
  <2>2. QED
    BY <2>1 DEF OrderInit, FlowTypes
<1>4. Untouched /\ ~Ordered
  BY <1>1, FreshRunType DEF OrderInit, Untouched, Ordered
<1>5. OneOrder
  BY <1>1, <1>4, FreshRunType DEF OneOrder
<1>6. NothingMoved
  BY <1>1, FreshRunType DEF NothingMoved, OrderInit
<1>7. OwnOrders /\ RowsHaveOrders
  BY <1>1, FreshRunType DEF OwnOrders, Under, RowsHaveOrders, OrderInit
<1>8. QED
  BY <1>1, <1>2, <1>3, <1>4, <1>5, <1>6, <1>7, FreshRunType DEF OrderInv

-----------------------------------------------------------------------------
(* Steps at the dialog that change no run.                                   *)

LEMMA DialogSteps ==
    ASSUME OrderInv, OpenOrder \/ AcceptRefused \/ Close \/ CloseDeposit \/ Remount
    PROVE  OrderInv'
<1> USE DEF OrderInv
<1>1. UNCHANGED <<sent, held, outside, runs, overlapped>>
  BY DEF OpenOrder, AcceptRefused, Close, CloseDeposit, Remount, chainVars
<1>5. OwnOrders' /\ RowsHaveOrders'
  <2>1. rows' = rows
    BY DEF OpenOrder, AcceptRefused, Close, CloseDeposit, Remount
  <2>2. QED
    BY <1>1, <2>1 DEF OwnOrders, Under, RowsHaveOrders, OrdersSent
<1>2. CASE OpenOrder
  <2>1. mount = 0 /\ mount' = 1 /\ screen' = "modal"
        /\ UNCHANGED <<step, txHash, error, deposit, rows>>
        /\ props' \in [side : {"buy", "sell"}, amount : Amounts, complete : BOOLEAN]
    BY <1>2 DEF OpenOrder
  <2>2. \A r \in Runs : runs[r].pc = "none" /\ ~MaySend(runs[r])
    BY <2>1 DEF Untouched, AsksInOrder, MaySend, Reading
  <2>3. ~Ordered
    BY <2>1 DEF Untouched, Ordered
  <2>4. mount' \in 0..MaxMounts
    BY <2>1, OrderAssumption
  <2>5. ScreenTypes'
    BY <2>1, <2>4 DEF ScreenTypes
  <2>6. FlowTypes'
    BY <1>1, <2>1, OrderAssumption DEF FlowTypes
  <2>7. Untouched' /\ OneOrder' /\ NothingMoved'
    BY <1>1, <2>1, <2>2, <2>3 DEF Untouched, OneOrder, NothingMoved, Ordered
  <2>8. QED
    BY <1>1, <1>5, <2>5, <2>6, <2>7
<1>3. CASE AcceptRefused \/ Close \/ CloseDeposit \/ Remount
  <2>1. props' = props /\ (mount' = 0 => mount = 0) /\ screen' \in {screen, "menu"}
    <3>1. CASE AcceptRefused \/ Close \/ CloseDeposit
      BY <3>1 DEF AcceptRefused, Close, CloseDeposit, modalVars
    <3>2. CASE Remount
      <4>1. mount' # 0
        BY <3>2, OrderAssumption DEF Remount
      <4>2. QED
        BY <3>2, <4>1 DEF Remount
    <3>3. QED
      BY <1>3, <3>1, <3>2
  <2>2. ScreenTypes'
    <3>1. CASE AcceptRefused
      BY <3>1 DEF AcceptRefused, ScreenTypes, Token
    <3>2. CASE Close
      BY <3>2 DEF Close, ScreenTypes, modalVars
    <3>3. CASE CloseDeposit
      BY <3>3 DEF CloseDeposit, ScreenTypes
    <3>4. CASE Remount
      <4>1. mount' \in 0..MaxMounts
        BY <3>4, OrderAssumption DEF Remount
      <4>2. txHash' \in BOOLEAN
        BY <3>4 DEF Remount
      <4>3. QED
        BY <3>4, <4>1, <4>2 DEF Remount, ScreenTypes
    <3>5. QED
      BY <1>3, <3>1, <3>2, <3>3, <3>4
  <2>3. FlowTypes' /\ Untouched'
    BY <1>1, <2>1 DEF FlowTypes, Untouched
  <2>4. OneOrder'
    BY <1>1, <2>1 DEF OneOrder, Ordered
  <2>5. NothingMoved'
    BY <1>1, <2>1 DEF NothingMoved, Ordered, Token
  <2>6. QED
    BY <1>1, <1>5, <2>2, <2>3, <2>4, <2>5
<1>4. QED
  BY <1>2, <1>3

-----------------------------------------------------------------------------
(* A run that goes on or ends.                                               *)

\* What every step of a run but its start and its transactions has in common.
RunChanges(r, n) ==
    /\ runs' = [runs EXCEPT ![r] = n] /\ n \in RunType /\ AsksInOrder(n)
    /\ runs[r].pc # "none" /\ UNCHANGED <<chainVars, props, mount, overlapped>>
    /\ MaySend(n) => MaySend(runs[r])
    /\ Holding(runs[r]) => Holding(n) \/ screen' # "modal" \/ (MaySend(runs[r]) /\ ~MaySend(n))
    /\ screen' \in {screen, "accepted"}
    /\ n.pc = "racing" =>
           /\ n.race.before = IF runs[r].pc = "racing" THEN runs[r].race.before ELSE held[Token]
           /\ n.race.fire = "hash" => runs[r].pc = "racing" /\ runs[r].race.fire = "hash"
           /\ n.race.poll = "seen" =>
                  runs[r].pc = "racing" /\ (runs[r].race.poll = "seen" \/ held[Token] # n.race.before)
    /\ screen' # screen => runs[r].pc = "racing" /\ Won(runs[r].race)
    /\ runs[r].pc = "ended" => n.pc = "ended"
    /\ rows' # rows => rows' = rows \cup {r} /\ runs[r].pc = "racing" /\ Won(runs[r].race)

LEMMA RunChanged ==
    ASSUME OrderInv, NEW r \in Runs, NEW n, RunChanges(r, n), ScreenTypes'
    PROVE  OrderInv'
<1> USE DEF OrderInv
<1>1. /\ runs' = [runs EXCEPT ![r] = n] /\ n \in RunType /\ AsksInOrder(n)
      /\ UNCHANGED <<sent, held, approved, outside, props, mount, overlapped>>
  BY DEF RunChanges, chainVars
<1>2. /\ runs' \in [Runs -> RunType] /\ runs'[r] = n
      /\ \A q \in Runs : q # r => runs'[q] = runs[q]
  BY <1>1 DEF FlowTypes
<1>3. FlowTypes' /\ outside' \in Nat /\ \A q \in Runs : AsksInOrder(runs'[q])
  BY <1>1, <1>2 DEF FlowTypes
<1>4. Untouched'
  BY <1>1 DEF Untouched, RunChanges
<1>5. Ordered' = Ordered
  BY <1>1 DEF Ordered
<1>6. OneOrder'
  <2>1. SUFFICES ASSUME ~overlapped
                 PROVE /\ Ordered => \A q \in Runs : ~MaySend(runs'[q])
                       /\ \A p, q \in Runs : MaySend(runs'[p]) /\ MaySend(runs'[q]) => p = q
                       /\ screen' = "modal" /\ (Ordered \/ \E q \in Runs : MaySend(runs'[q]))
                              => \E q \in Runs : Holding(runs'[q])
    BY <1>1, <1>5 DEF OneOrder, Ordered
  <2>2. \A q \in Runs : MaySend(runs'[q]) => MaySend(runs[q])
    BY <1>2 DEF RunChanges
  <2>3. Ordered => \A q \in Runs : ~MaySend(runs'[q])
    BY <2>1, <2>2 DEF OneOrder
  <2>4. \A p, q \in Runs : MaySend(runs'[p]) /\ MaySend(runs'[q]) => p = q
    BY <2>1, <2>2 DEF OneOrder
  <2>5. ASSUME screen' = "modal", Ordered \/ \E q \in Runs : MaySend(runs'[q])
        PROVE  \E q \in Runs : Holding(runs'[q])
    <3>1. PICK q \in Runs : Holding(runs[q])
      BY <2>1, <2>2, <2>5 DEF OneOrder, RunChanges
    <3>2. CASE q # r
      BY <1>2, <3>1, <3>2
    <3>3. CASE q = r /\ ~Holding(n)
      <4>1. MaySend(runs[r]) /\ ~MaySend(n)
        BY <2>5, <3>1, <3>3 DEF RunChanges
      <4>2. ~Ordered /\ \A p \in Runs : ~MaySend(runs'[p])
        BY <1>2, <2>1, <2>2, <4>1 DEF OneOrder
      <4>3. QED
        BY <2>5, <4>2
    <3>4. QED
      BY <1>2, <3>1, <3>2, <3>3
  <2>6. QED
    BY <2>3, <2>4, <2>5
<1>7. NothingMoved'
  <2>1. SUFFICES ASSUME ~Ordered, outside = 0
                 PROVE /\ screen' # "accepted"
                       /\ \A q \in Runs : runs'[q].pc = "racing" =>
                              /\ runs'[q].race.before = held[Token]
                              /\ runs'[q].race.poll # "seen" /\ runs'[q].race.fire # "hash"
    BY <1>1, <1>5 DEF NothingMoved, Token
  <2>2. screen' # "accepted"
    BY <2>1 DEF NothingMoved, RunChanges, Won
  <2>3. n.pc = "racing" => /\ n.race.before = held[Token]
                           /\ n.race.poll # "seen" /\ n.race.fire # "hash"
    BY <2>1 DEF NothingMoved, RunChanges
  <2>4. QED
    BY <1>2, <2>1, <2>2, <2>3 DEF NothingMoved
<1>8. OwnOrders'
  <2>1. \A q \in Runs : /\ MaySend(runs'[q]) => MaySend(runs[q])
                        /\ Under(q)' => Under(q)
    BY <1>2 DEF RunChanges, Under
  <2>2. QED
    BY <1>1, <2>1 DEF OwnOrders
<1>9. RowsHaveOrders'
  <2>1. SUFFICES ASSUME ~overlapped, outside = 0, NEW q \in rows'
                 PROVE  OrdersSent(q)' # {}
    BY <1>1 DEF RowsHaveOrders
  <2>2. OrdersSent(q)' = OrdersSent(q)
    BY <1>1 DEF OrdersSent
  <2>3. CASE q \in rows
    BY <1>1, <2>1, <2>2, <2>3 DEF RowsHaveOrders
  <2>4. CASE q \notin rows
    <3>1. q = r /\ runs[r].pc = "racing" /\ Won(runs[r].race)
      BY <2>1, <2>4 DEF RunChanges
    <3>2. PICK i \in DOMAIN sent : sent[i].call = "order"
      BY <2>1, <3>1 DEF NothingMoved, Ordered, Won
    <3>3. sent[i].by = r
      BY <2>1, <3>1, <3>2 DEF OwnOrders, Under
    <3>4. QED
      BY <2>2, <3>1, <3>2, <3>3 DEF OrdersSent
  <2>5. QED
    BY <2>3, <2>4
<1>10. QED
  BY <1>3, <1>4, <1>6, <1>7, <1>8, <1>9

\* Ending a run leaves the prompts that are open.
LEMMA EndedRun ==
    ASSUME OrderInv, NEW r \in Runs, runs[r].pc \notin {"none", "ended"}, Ends(r)
    PROVE  \E n : /\ runs' = [runs EXCEPT ![r] = n] /\ n \in RunType /\ AsksInOrder(n)
                   /\ n.pc = "ended" /\ n.race.asks = runs[r].race.asks
<1> DEFINE race == [NoRace EXCEPT !.asks = runs[r].race.asks]
           n == [FreshRun EXCEPT !.pc = "ended", !.race = race]
<1>1. runs[r] \in RunType /\ runs[r].race \in RaceType /\ AskedLast(runs[r].race.asks)
  BY DEF OrderInv, FlowTypes, RunType, AsksInOrder
<1>2. race \in RaceType /\ race.asks = runs[r].race.asks
  BY <1>1 DEF NoRace, RaceType
<1> HIDE DEF race
<1>3. n \in RunType /\ n.pc = "ended" /\ n.race = race
  BY <1>2 DEF FreshRun, RunType
<1>4. AsksInOrder(n)
  BY <1>1, <1>2, <1>3 DEF AsksInOrder
<1>5. runs' = [runs EXCEPT ![r] = n]
  BY DEF Ends, FreshRun, race
<1>6. QED
  BY <1>2, <1>3, <1>4, <1>5

LEMMA CatchTypes ==
    ASSUME ScreenTypes, NEW r \in Runs, NEW what \in {"could not read", "no funds were moved"},
           CatchError(r, what)
    PROVE  ScreenTypes'
  BY DEF CatchError, Set, ScreenTypes

\* A run whose reads fail has asked for nothing; one that both sides failed has been
\* refused.
LEMMA FailingSteps ==
    ASSUME OrderInv, NEW r \in Runs, ReadFails(r) \/ BothFail(r)
    PROVE  OrderInv'
<1>1. PICK what \in {"could not read", "no funds were moved"} : CatchError(r, what)
  BY DEF ReadFails, BothFail
<1>2. /\ runs[r].pc \in Reading \/ (runs[r].pc = "racing" /\ runs[r].race.fire = "refused")
      /\ runs[r] \in RunType
  BY DEF ReadFails, BothFail, Lost, Reading, OrderInv, FlowTypes
<1>3. runs[r].race.asks = <<>> /\ (Holding(runs[r]) => MaySend(runs[r]))
  BY <1>2 DEF OrderInv, AsksInOrder, Holding, MaySend, Reading
<1>4. PICK n : /\ runs' = [runs EXCEPT ![r] = n] /\ n \in RunType /\ AsksInOrder(n)
               /\ n.pc = "ended" /\ n.race.asks = runs[r].race.asks
  BY <1>1, <1>2, EndedRun DEF CatchError, Reading
<1>5. ~MaySend(n)
  BY <1>3, <1>4 DEF MaySend, Reading
<1>6. RunChanges(r, n)
  BY <1>1, <1>2, <1>3, <1>4, <1>5 DEF RunChanges, CatchError, Reading
<1>7. ScreenTypes'
  BY <1>1, CatchTypes DEF OrderInv
<1>8. QED
  BY <1>4, <1>6, <1>7, RunChanged

\* The reads before the race.
LEMMA ReadingSteps ==
    ASSUME OrderInv, NEW r \in Runs, ReadBalance(r) \/ ReadAllowance(r)
    PROVE  OrderInv'
<1>1. /\ runs[r].pc \in Reading /\ runs[r] \in RunType /\ AsksInOrder(runs[r])
      /\ UNCHANGED <<chainVars, props, screen, mount, rows, overlapped>>
  BY DEF ReadBalance, ReadAllowance, Reading, OrderInv, FlowTypes
<1>2. runs[r].race.asks = <<>> /\ MaySend(runs[r])
  BY <1>1 DEF AsksInOrder, MaySend, Reading
<1>3. ScreenTypes'
  BY DEF ReadBalance, ReadAllowance, Set, ScreenTypes, OrderInv
<1>4. CASE Ends(r)
  <2>1. PICK n : /\ runs' = [runs EXCEPT ![r] = n] /\ n \in RunType /\ AsksInOrder(n)
                 /\ n.pc = "ended" /\ n.race.asks = runs[r].race.asks
    BY <1>1, <1>4, EndedRun DEF Reading
  <2>2. ~MaySend(n)
    BY <1>2, <2>1 DEF MaySend, Reading
  <2>3. RunChanges(r, n)
    BY <1>1, <1>2, <2>1, <2>2 DEF RunChanges, Reading
  <2>4. QED
    BY <1>3, <2>1, <2>3, RunChanged
<1>5. CASE ~Ends(r)
  <2>1. PICK pc \in Reading, a \in BOOLEAN :
            runs' = [runs EXCEPT ![r] = [runs[r] EXCEPT !.pc = pc, !.approves = a]]
    <3>1. CASE ReadBalance(r)
      <4>1. runs' = [runs EXCEPT ![r] = [runs[r] EXCEPT !.pc = "read allowance"]]
        BY <1>5, <3>1 DEF ReadBalance, Goes
      <4>2. [runs[r] EXCEPT !.pc = "read allowance"]
                = [runs[r] EXCEPT !.pc = "read allowance", !.approves = runs[r].approves]
        BY <1>1 DEF RunType
      <4>3. runs[r].approves \in BOOLEAN
        BY <1>1 DEF RunType
      <4>4. QED
        BY <4>1, <4>2, <4>3 DEF Reading
    <3>2. CASE ReadAllowance(r)
      <4>1. runs' = [runs EXCEPT ![r] = [runs[r] EXCEPT !.pc = "read before",
                                                        !.approves = Token \notin approved]]
        BY <3>2 DEF ReadAllowance
      <4>2. (Token \notin approved) \in BOOLEAN
        OBVIOUS
      <4>3. QED
        BY <4>1, <4>2 DEF Reading
    <3>3. QED
      BY <3>1, <3>2
  <2> DEFINE n == [runs[r] EXCEPT !.pc = pc, !.approves = a]
  <2>2. n \in RunType /\ n.pc = pc /\ n.race = runs[r].race
    BY <1>1 DEF RunType
  <2>3. runs' = [runs EXCEPT ![r] = n]
    BY <2>1
  <2> HIDE DEF n
  <2>4. AsksInOrder(n) /\ Holding(n)
    BY <1>1, <1>2, <2>2 DEF AsksInOrder, Holding, MaySend, Reading
  <2>5. RunChanges(r, n)
    BY <1>1, <1>2, <2>2, <2>3, <2>4 DEF RunChanges, Reading
  <2>6. QED
    BY <1>3, <2>5, RunChanged
<1>6. QED
  BY <1>4, <1>5

LEMMA Pair == ASSUME NEW a, NEW b PROVE <<a>> \o <<b>> = <<a, b>>
<1>1. <<a>> \in Seq({a, b}) /\ <<b>> \in Seq({a, b}) /\ Len(<<a>>) = 1 /\ Len(<<b>>) = 1
  OBVIOUS
<1>2. <<a>> \o <<b>> \in Seq({a, b}) /\ Len(<<a>> \o <<b>>) = 2
  BY <1>1
<1>3. (<<a>> \o <<b>>)[1] = a /\ (<<a>> \o <<b>>)[2] = b
  BY <1>1
<1>4. \A s \in Seq({a, b}) : Len(s) = 2 => s = <<s[1], s[2]>>
  OBVIOUS
<1>5. QED
  BY <1>2, <1>3, <1>4

LEMMA BatchOrder ==
    ASSUME OrderInv, NEW r \in Runs
    PROVE  Batch(r) \in Seq(CallType) /\ AskedLast(Batch(r)) /\ Batch(r) # <<>>
<1> DEFINE order == Call("order", Token, props.amount)
           approval == Call("approve", Token, 0)
<1>1. order \in CallType /\ order.call = "order" /\ approval \in CallType
      /\ approval.call = "approve"
  BY DEF OrderInv, FlowTypes, Call, CallType, Token, Tokens
<1>2. Batch(r) = (IF runs[r].approves THEN <<approval>> ELSE <<>>) \o <<order>>
  BY DEF Batch
<1> HIDE DEF order, approval
<1>6. Batch(r) = <<order>> \/ Batch(r) = <<approval, order>>
  <2>1. CASE runs[r].approves
    <3>1. Batch(r) = <<approval>> \o <<order>>
      BY <1>2, <2>1
    <3>2. <<approval>> \o <<order>> = <<approval, order>>
      BY Pair
    <3>3. QED
      BY <3>1, <3>2
  <2>2. CASE ~runs[r].approves
    <3>1. Batch(r) = <<>> \o <<order>>
      BY <1>2, <2>2
    <3>2. QED
      BY <3>1
  <2>3. QED
    BY <2>1, <2>2
<1>3. AskedLast(<<order>>) /\ AskedLast(<<approval, order>>)
  BY <1>1 DEF AskedLast
<1>4. <<order>> \in Seq(CallType) /\ <<approval, order>> \in Seq(CallType)
  BY <1>1
<1>5. <<order>> # <<>> /\ <<approval, order>> # <<>>
  OBVIOUS
<1>7. QED
  <2>1. CASE Batch(r) = <<order>>
    BY <1>3, <1>4, <1>5, <2>1
  <2>2. CASE Batch(r) = <<approval, order>>
    BY <1>3, <1>4, <1>5, <2>2
  <2>3. QED
    BY <1>6, <2>1, <2>2

LEMMA RaceStep ==
    ASSUME OrderInv, NEW r \in Runs, ReadBefore(r)
    PROVE  OrderInv'
<1> DEFINE race == StartRace(Batch(r), held[Token])
           n == [runs[r] EXCEPT !.pc = "racing", !.race = race]
<1>1. /\ runs[r].pc = "read before" /\ runs[r] \in RunType
      /\ runs' = [runs EXCEPT ![r] = n]
      /\ UNCHANGED <<chainVars, props, screen, modalVars, connected, rows, overlapped>>
  BY DEF ReadBefore, OrderInv, FlowTypes
<1>2. /\ race \in RaceType /\ race.asks = Batch(r) /\ race.fire = "asking" /\ race.poll = "on"
      /\ race.before = held[Token]
  BY BatchOrder DEF StartRace, RaceType, OrderInv, FlowTypes, Token, Tokens
<1> HIDE DEF race
<1>3. n \in RunType /\ n.pc = "racing" /\ n.race = race
  BY <1>1, <1>2 DEF RunType
<1> HIDE DEF n
<1>4. AsksInOrder(n) /\ Holding(n) /\ MaySend(runs[r])
  BY <1>1, <1>2, <1>3, BatchOrder DEF AsksInOrder, Holding, MaySend, Reading
<1>5. RunChanges(r, n)
  BY <1>1, <1>2, <1>3, <1>4 DEF RunChanges, modalVars
<1>6. ScreenTypes'
  BY <1>1 DEF OrderInv, ScreenTypes, modalVars
<1>7. QED
  BY <1>5, <1>6, RunChanged

LEMMA PollStep ==
    ASSUME OrderInv, NEW r \in Runs, Poll(r)
    PROVE  OrderInv'
<1>1. /\ runs[r].pc = "racing" /\ runs[r] \in RunType /\ AsksInOrder(runs[r])
      /\ UNCHANGED <<chainVars, props, screen, modalVars, connected, rows, overlapped>>
  BY DEF Poll, OrderInv, FlowTypes
<1>2. PICK poll \in {"seen", "gave up"} :
        /\ runs' = [runs EXCEPT ![r].race = [runs[r].race EXCEPT !.poll = poll]]
        /\ poll = "seen" => held[Token] < runs[r].race.before
  BY DEF Poll, PolledRaces
<1> DEFINE race == [runs[r].race EXCEPT !.poll = poll]
           n == [runs[r] EXCEPT !.race = race]
<1>3. /\ race \in RaceType /\ race.asks = runs[r].race.asks /\ race.fire = runs[r].race.fire
      /\ race.before = runs[r].race.before /\ race.poll = poll
  BY <1>1 DEF RunType, RaceType
<1>4. runs' = [runs EXCEPT ![r] = n]
  BY <1>2
<1> HIDE DEF race
<1>5. n \in RunType /\ n.pc = "racing" /\ n.race = race
  BY <1>1, <1>3 DEF RunType
<1> HIDE DEF n
<1>6. AsksInOrder(n) /\ (MaySend(n) <=> MaySend(runs[r])) /\ (Holding(runs[r]) => Holding(n))
  BY <1>1, <1>3, <1>5 DEF AsksInOrder, MaySend, Holding
<1>7. n.race.poll = "seen" => held[Token] # n.race.before
  <2>1. held[Token] \in Nat /\ runs[r].race.before \in Nat
    BY <1>1 DEF OrderInv, FlowTypes, Token, Tokens, RunType, RaceType
  <2>2. QED
    BY <1>2, <1>3, <1>5, <2>1
<1>8. RunChanges(r, n)
  BY <1>1, <1>3, <1>4, <1>5, <1>6, <1>7 DEF RunChanges, modalVars
<1>9. ScreenTypes'
  BY <1>1 DEF OrderInv, ScreenTypes, modalVars
<1>10. QED
  BY <1>8, <1>9, RunChanged

LEMMA RefuseStep ==
    ASSUME OrderInv, NEW r \in Runs, Refuse(r)
    PROVE  OrderInv'
<1>1. /\ runs[r].race.asks # <<>> /\ runs[r] \in RunType /\ AsksInOrder(runs[r])
      /\ runs' = [runs EXCEPT ![r].race = RefusedRace(runs[r].race)]
      /\ UNCHANGED <<chainVars, props, screen, modalVars, connected, rows, overlapped>>
  BY DEF Refuse, OrderInv, FlowTypes
<1> DEFINE race == RefusedRace(runs[r].race)
           n == [runs[r] EXCEPT !.race = race]
<1>2. /\ race \in RaceType /\ race.asks = <<>> /\ race.before = runs[r].race.before
      /\ race.poll = runs[r].race.poll /\ (race.fire = "hash" => runs[r].race.fire = "hash")
  <2>1. runs[r].race \in RaceType /\ <<>> \in Seq(CallType)
    BY <1>1 DEF RunType
  <2>2. CASE runs[r].race.fire = "asking"
    <3>1. race = [runs[r].race EXCEPT !.asks = <<>>, !.fire = "refused"]
      BY <2>2 DEF RefusedRace
    <3>2. QED
      BY <2>1, <3>1 DEF RaceType
  <2>3. CASE runs[r].race.fire # "asking"
    <3>1. race = [runs[r].race EXCEPT !.asks = <<>>, !.fire = runs[r].race.fire]
      BY <2>3 DEF RefusedRace
    <3>2. QED
      BY <2>1, <3>1 DEF RaceType
  <2>4. QED
    BY <2>2, <2>3
<1>3. runs' = [runs EXCEPT ![r] = n]
  BY <1>1
<1> HIDE DEF race
<1>4. n \in RunType /\ n.pc = runs[r].pc /\ n.race = race
  BY <1>1, <1>2 DEF RunType
<1> HIDE DEF n
<1>5. /\ AsksInOrder(n) /\ ~MaySend(n) /\ MaySend(runs[r])
      /\ runs[r].pc \in {"racing", "ended"}
  <2>1. AskedLast(<<>>)
    BY DEF AskedLast
  <2>2. AskedLast(n.race.asks) /\ n.race.asks = <<>>
    BY <1>2, <1>4, <2>1
  <2>3. runs[r].pc \in {"racing", "ended"}
    BY <1>1 DEF AsksInOrder
  <2>4. AsksInOrder(n)
    BY <2>2 DEF AsksInOrder
  <2>5. ~MaySend(n) /\ MaySend(runs[r])
    BY <1>1, <1>4, <2>2, <2>3 DEF MaySend, Reading
  <2>6. QED
    BY <2>3, <2>4, <2>5
<1>6. RunChanges(r, n)
  <2>1. n.pc = "racing" =>
           /\ runs[r].pc = "racing" /\ n.race.before = runs[r].race.before
           /\ n.race.fire = "hash" => runs[r].race.fire = "hash"
           /\ n.race.poll = "seen" => runs[r].race.poll = "seen"
    BY <1>2, <1>4
  <2>2. UNCHANGED <<chainVars, props, mount, overlapped, screen, rows>>
    BY <1>1 DEF modalVars
  <2>3. QED
    BY <1>3, <1>4, <1>5, <2>1, <2>2 DEF RunChanges
<1>7. ScreenTypes'
  BY <1>1 DEF OrderInv, ScreenTypes, modalVars
<1>8. QED
  BY <1>6, <1>7, RunChanged

LEMMA ConfirmStep ==
    ASSUME OrderInv, NEW r \in Runs, Confirm(r)
    PROVE  OrderInv'
<1>1. /\ runs[r].pc = "racing" /\ Won(runs[r].race) /\ Ends(r) /\ screen' = "accepted"
      /\ UNCHANGED <<chainVars, props, mount, error, deposit, connected, overlapped>>
      /\ rows' \in {rows, rows \cup {r}}
      /\ step' \in {step, "confirmed"}
  BY DEF Confirm, Set
<1>2. txHash' \in BOOLEAN
  BY DEF Confirm, Set, OrderInv, ScreenTypes
<1>3. PICK n : /\ runs' = [runs EXCEPT ![r] = n] /\ n \in RunType /\ AsksInOrder(n)
               /\ n.pc = "ended" /\ n.race.asks = runs[r].race.asks
  BY <1>1, EndedRun
<1>4. MaySend(n) => MaySend(runs[r])
  BY <1>3 DEF MaySend, Reading
<1>5. RunChanges(r, n)
  BY <1>1, <1>3, <1>4 DEF RunChanges
<1>6. ScreenTypes'
  BY <1>1, <1>2 DEF OrderInv, ScreenTypes
<1>7. QED
  BY <1>5, <1>6, RunChanged

-----------------------------------------------------------------------------
(* A run begins.                                                             *)

\* The button is enabled only while no run holds it, so without overlap there is
\* no order then, sent or to come.
LEMMA AcceptStep ==
    ASSUME OrderInv, NEW r \in Runs, HandleAccept(r)
    PROVE  OrderInv'
<1> USE DEF OrderInv
<1> DEFINE n == [FreshRun EXCEPT !.pc = "read balance", !.mount = mount]
<1>1. /\ screen = "modal" /\ screen' = screen /\ runs[r].pc = "none"
      /\ runs' = [runs EXCEPT ![r] = n]
      /\ overlapped' = (overlapped \/ \E q \in Runs : Under(q))
      /\ UNCHANGED <<sent, held, approved, outside, props, mount, step, txHash, deposit,
                     connected, rows>>
      /\ error' = "none"
  BY DEF HandleAccept, chainVars
<1>2. mount \in Nat /\ mount # 0
  <2>1. mount # 0
    BY <1>1 DEF Untouched
  <2>2. mount \in 0..MaxMounts
    BY DEF ScreenTypes
  <2>3. QED
    BY <2>1, <2>2
<1>3. /\ n \in RunType /\ n.pc = "read balance" /\ n.race = NoRace
  <2>1. FreshRun \in RunType /\ FreshRun.race = NoRace
    BY FreshRunType DEF FreshRun
  <2>2. QED
    BY <1>2, <2>1 DEF RunType, Reading
<1> HIDE DEF n
<1>4. AsksInOrder(n) /\ MaySend(n) /\ Holding(n)
  <2>1. AskedLast(<<>>)
    BY DEF AskedLast
  <2>2. n.race.asks = <<>>
    <3>1. NoRace.asks = <<>>
      BY DEF NoRace
    <3>2. QED
      BY <1>3, <3>1, Zenon
  <2>3. AskedLast(n.race.asks)
    BY <2>1, <2>2
  <2>4. AsksInOrder(n)
    BY <2>2, <2>3, Zenon DEF AsksInOrder
  <2>5. MaySend(n)
    BY <1>3, Zenon DEF MaySend, Reading
  <2>6. n.pc # "none" /\ n.pc # "ended"
    BY <1>3
  <2>7. QED
    BY <2>4, <2>5, <2>6 DEF Holding
<1>5. /\ runs' \in [Runs -> RunType] /\ runs'[r] = n
      /\ \A q \in Runs : q # r => runs'[q] = runs[q]
  BY <1>1, <1>3 DEF FlowTypes
<1>6. FlowTypes' /\ outside' \in Nat /\ \A q \in Runs : AsksInOrder(runs'[q])
  BY <1>1, <1>4, <1>5 DEF FlowTypes
<1>7. ScreenTypes'
  BY <1>1 DEF ScreenTypes
<1>8. Untouched' /\ Ordered' = Ordered
  BY <1>1, <1>2 DEF Untouched, Ordered
<1>9. OneOrder'
  <2>1. SUFFICES ASSUME ~overlapped, \A q \in Runs : ~Under(q)
                 PROVE  OneOrder'
    BY <1>1 DEF OneOrder
  <2>2. \A q \in Runs : ~Holding(runs[q])
    BY <2>1 DEF Holding, Under
  <2>3. ~Ordered /\ \A q \in Runs : ~MaySend(runs[q])
    BY <1>1, <2>1, <2>2 DEF OneOrder
  <2>4. \A q \in Runs : MaySend(runs'[q]) <=> q = r
    BY <1>4, <1>5, <2>3
  <2>5. QED
    BY <1>1, <1>4, <1>5, <1>8, <2>3, <2>4 DEF OneOrder, Ordered
<1>10. NothingMoved'
  BY <1>1, <1>3, <1>5, <1>8 DEF NothingMoved, Token
<1>11. OwnOrders'
  <2>1. SUFFICES ASSUME ~overlapped, \A q \in Runs : ~Under(q)
                 PROVE  OwnOrders'
    BY <1>1 DEF OwnOrders
  <2>2. \A q \in Runs : ~Holding(runs[q])
    BY <2>1 DEF Holding, Under
  <2>3. ~Ordered /\ \A q \in Runs : ~MaySend(runs[q])
    BY <1>1, <2>1, <2>2 DEF OneOrder
  <2>4. \A q \in Runs : /\ MaySend(runs'[q]) => q = r
                        /\ Under(q)' => q = r
    BY <1>5, <2>1, <2>3 DEF Under
  <2>5. QED
    BY <1>1, <2>3, <2>4 DEF OwnOrders, Ordered
<1>12. RowsHaveOrders'
  <2>1. \A q : OrdersSent(q)' = OrdersSent(q)
    BY <1>1 DEF OrdersSent
  <2>2. RowsHaveOrders
    OBVIOUS
  <2>3. UNCHANGED <<outside, rows>> /\ (overlapped => overlapped')
    BY <1>1
  <2>4. QED
    BY <2>1, <2>2, <2>3 DEF RowsHaveOrders
<1>13. QED
  BY <1>6, <1>7, <1>8, <1>9, <1>10, <1>11, <1>12

-----------------------------------------------------------------------------
(* The wallet's prompts and the chain.                                       *)

LEMMA FirstAsked ==
    ASSUME NEW asks \in Seq(CallType), asks # <<>>, AskedLast(asks)
    PROVE  /\ Head(asks) \in CallType /\ Tail(asks) \in Seq(CallType)
           /\ AskedLast(Tail(asks))
           /\ Head(asks).call = "order" <=> Len(asks) = 1
           /\ Tail(asks) = <<>> <=> Len(asks) = 1
<1>1. Len(asks) \in Nat /\ Len(asks) >= 1 /\ Head(asks) = asks[1]
  OBVIOUS
<1>2. Head(asks) \in CallType
  BY <1>1
<1>3. /\ Tail(asks) \in Seq(CallType) /\ Len(Tail(asks)) = Len(asks) - 1
      /\ \A i \in 1..Len(Tail(asks)) : Tail(asks)[i] = asks[i + 1]
  OBVIOUS
<1>4. AskedLast(Tail(asks))
  <2>1. SUFFICES ASSUME NEW i \in 1..Len(Tail(asks))
                 PROVE  Tail(asks)[i].call = "order" <=> i = Len(Tail(asks))
    BY DEF AskedLast
  <2>2. i + 1 \in 1..Len(asks) /\ (i + 1 = Len(asks) <=> i = Len(Tail(asks)))
    BY <1>1, <1>3
  <2>3. QED
    BY <1>3, <2>2 DEF AskedLast
<1>5. Head(asks).call = "order" <=> 1 = Len(asks)
  <2>1. 1 \in 1..Len(asks)
    BY <1>1
  <2>2. asks[1].call = "order" <=> 1 = Len(asks)
    BY <2>1 DEF AskedLast
  <2>3. QED
    BY <1>1, <2>2
<1>6. Tail(asks) = <<>> <=> Len(asks) = 1
  <2>1. Tail(asks) = <<>> <=> Len(Tail(asks)) = 0
    BY <1>3
  <2>2. QED
    BY <1>1, <1>3, <2>1
<1>7. QED
  BY <1>2, <1>3, <1>4, <1>5, <1>6

LEMMA SignStep ==
    ASSUME OrderInv, NEW r \in Runs, Sign(r)
    PROVE  OrderInv'
<1> USE DEF OrderInv
<1> DEFINE asks == runs[r].race.asks
           call == Head(asks)
           race == SignedRace(runs[r].race)
           n == [runs[r] EXCEPT !.race = race]
           tx == [by |-> r, call |-> call.call, token |-> call.token,
                  amount |-> call.amount, status |-> "pending"]
<1>1. /\ asks # <<>> /\ sent' = Append(sent, tx) /\ runs' = [runs EXCEPT ![r] = n]
      /\ UNCHANGED <<held, approved, outside, props, screen, mount, step, txHash, error,
                     deposit, connected, rows, overlapped>>
  BY DEF Sign, Submit, modalVars
<1>2. runs[r] \in RunType /\ runs[r].race \in RaceType /\ asks \in Seq(CallType)
  BY DEF FlowTypes, RunType, RaceType
<1>3. AskedLast(asks) /\ AsksInOrder(runs[r])
  BY DEF AsksInOrder
<1>4. /\ call \in CallType /\ Tail(asks) \in Seq(CallType) /\ AskedLast(Tail(asks))
      /\ call.call = "order" <=> Len(asks) = 1
      /\ Tail(asks) = <<>> <=> Len(asks) = 1
  BY <1>1, <1>2, <1>3, FirstAsked
<1>5. /\ race \in RaceType /\ race.asks = Tail(asks) /\ race.before = runs[r].race.before
      /\ race.poll = runs[r].race.poll
      /\ race.fire = IF runs[r].race.fire = "asking" /\ Len(asks) = 1 THEN "hash"
                     ELSE runs[r].race.fire
  <2>1. CASE runs[r].race.fire = "asking" /\ Len(asks) = 1
    <3>1. race = [runs[r].race EXCEPT !.asks = Tail(asks), !.fire = "hash"]
      BY <2>1 DEF SignedRace
    <3>2. QED
      BY <1>2, <1>4, <2>1, <3>1 DEF RaceType
  <2>2. CASE ~(runs[r].race.fire = "asking" /\ Len(asks) = 1)
    <3>1. race = [runs[r].race EXCEPT !.asks = Tail(asks), !.fire = runs[r].race.fire]
      BY <2>2 DEF SignedRace
    <3>2. QED
      BY <1>2, <1>4, <2>2, <3>1 DEF RaceType
  <2>3. QED
    BY <2>1, <2>2
<1>6. tx \in TxType /\ tx.call = call.call
  BY <1>4 DEF CallType, TxType
<1> HIDE DEF race, tx, call
<1>7. n \in RunType /\ n.pc = runs[r].pc /\ n.race = race
  BY <1>2, <1>5 DEF RunType
<1> HIDE DEF n
<1>8. MaySend(runs[r]) /\ runs[r].pc \in {"racing", "ended"}
  BY <1>1, <1>3 DEF MaySend, AsksInOrder
<1>9. AsksInOrder(n)
  <2>1. AskedLast(n.race.asks)
    BY <1>4, <1>5, <1>7
  <2>2. ASSUME n.race.asks # <<>>, n.pc = "racing"
        PROVE  n.race.fire = "asking"
    <3>1. runs[r].race.fire = "asking" /\ Len(asks) # 1
      BY <1>1, <1>3, <1>4, <1>5, <1>7, <2>2 DEF AsksInOrder
    <3>2. QED
      BY <1>5, <1>7, <3>1
  <2>3. QED
    BY <1>7, <1>8, <2>1, <2>2 DEF AsksInOrder
<1>10. /\ runs' \in [Runs -> RunType] /\ runs'[r] = n
       /\ \A q \in Runs : q # r => runs'[q] = runs[q]
  BY <1>1, <1>7 DEF FlowTypes
<1>11. /\ sent' \in Seq(TxType) /\ Len(sent') = Len(sent) + 1 /\ sent'[Len(sent) + 1] = tx
       /\ \A i \in 1..Len(sent) : sent'[i] = sent[i]
       /\ DOMAIN sent' = 1..Len(sent) + 1 /\ DOMAIN sent = 1..Len(sent) /\ Len(sent) \in Nat
  BY <1>1, <1>6 DEF FlowTypes
<1>12. FlowTypes' /\ outside' \in Nat /\ \A q \in Runs : AsksInOrder(runs'[q])
  BY <1>1, <1>9, <1>10, <1>11 DEF FlowTypes
<1>13. ScreenTypes'
  BY <1>1 DEF ScreenTypes
<1>14. Untouched'
  BY <1>1, <1>8 DEF Untouched
<1>19. OwnOrders'
  <2>1. SUFFICES ASSUME ~overlapped, NEW q \in Runs, Under(q)
                 PROVE  /\ \A i \in DOMAIN sent' : sent'[i].call = "order" => sent'[i].by = q
                        /\ \A p \in Runs : MaySend(runs'[p]) => p = q
    <3>1. \A p \in Runs : Under(p)' <=> Under(p)
      BY <1>7, <1>10 DEF Under
    <3>2. QED
      BY <1>1, <3>1 DEF OwnOrders
  <2>2. r = q /\ tx.by = q
    BY <1>8, <2>1 DEF OwnOrders, tx
  <2>3. \A p \in Runs : MaySend(runs'[p]) => p = q
    BY <1>10, <2>1, <2>2 DEF OwnOrders
  <2>4. QED
    BY <1>11, <2>1, <2>2, <2>3 DEF OwnOrders
<1>20. RowsHaveOrders'
  <2>1. \A q : OrdersSent(q) \subseteq OrdersSent(q)'
    BY <1>11 DEF OrdersSent
  <2>2. QED
    BY <1>1, <2>1 DEF RowsHaveOrders
<1>15. Holding(runs[r]) /\ call.call # "order" => Holding(n) /\ MaySend(n)
  BY <1>4, <1>5, <1>7 DEF Holding, MaySend
<1>16. CASE call.call = "order"
  <2>1. Ordered'
    BY <1>6, <1>11, <1>16 DEF Ordered
  <2>2. ~MaySend(n) /\ (Holding(runs[r]) => Holding(n))
    <3>1. n.race.asks = <<>> /\ n.pc \notin Reading
      BY <1>4, <1>5, <1>7, <1>8, <1>16 DEF Reading
    <3>2. ASSUME Holding(runs[r])
          PROVE  Holding(n)
      <4>1. runs[r].pc = "racing" /\ runs[r].race.fire = "asking"
        BY <1>1, <1>3, <1>8, <3>2 DEF AsksInOrder, Holding
      <4>2. n.race.fire = "hash"
        BY <1>4, <1>5, <1>7, <1>16, <4>1
      <4>3. QED
        BY <1>7, <4>1, <4>2 DEF Holding
    <3>3. QED
      BY <3>1, <3>2 DEF MaySend
  <2>3. OneOrder'
    <3>1. SUFFICES ASSUME ~overlapped
                   PROVE  /\ \A i, j \in DOMAIN sent' :
                                 sent'[i].call = "order" /\ sent'[j].call = "order" => i = j
                          /\ \A q \in Runs : ~MaySend(runs'[q])
                          /\ screen = "modal" => \E q \in Runs : Holding(runs'[q])
      BY <1>1 DEF OneOrder
    <3>2. ~Ordered /\ \A q \in Runs : MaySend(runs[q]) => q = r
      BY <1>8, <3>1 DEF OneOrder
    <3>3. \A i \in DOMAIN sent' : sent'[i].call = "order" => i = Len(sent) + 1
      BY <1>11, <3>2 DEF Ordered
    <3>4. \A q \in Runs : ~MaySend(runs'[q])
      BY <1>10, <2>2, <3>2
    <3>5. screen = "modal" => \E q \in Runs : Holding(runs'[q])
      BY <1>8, <1>10, <2>2, <3>1 DEF OneOrder
    <3>6. QED
      BY <3>3, <3>4, <3>5
  <2>4. NothingMoved'
    BY <2>1 DEF NothingMoved
  <2>5. QED
    BY <1>12, <1>13, <1>14, <1>19, <1>20, <2>3, <2>4
<1>17. CASE call.call # "order"
  <2>1. \A i \in DOMAIN sent' :
            sent'[i].call = "order" => i \in DOMAIN sent /\ sent[i].call = "order"
    BY <1>6, <1>11, <1>17
  <2>2. Ordered' = Ordered
    <3>1. Ordered' => Ordered
      BY <2>1 DEF Ordered
    <3>2. Ordered => Ordered'
      BY <1>11 DEF Ordered
    <3>3. QED
      BY <3>1, <3>2 DEF Ordered
  <2>3. \A q \in Runs : /\ MaySend(runs'[q]) => MaySend(runs[q])
                        /\ Holding(runs[q]) => Holding(runs'[q])
    BY <1>8, <1>10, <1>15, <1>17
  <2>4. OneOrder'
    <3>1. SUFFICES ASSUME ~overlapped
                   PROVE /\ \A i, j \in DOMAIN sent' :
                                sent'[i].call = "order" /\ sent'[j].call = "order" => i = j
                         /\ Ordered => \A q \in Runs : ~MaySend(runs'[q])
                         /\ \A p, q \in Runs : MaySend(runs'[p]) /\ MaySend(runs'[q]) => p = q
                         /\ screen = "modal" /\ (Ordered \/ \E q \in Runs : MaySend(runs'[q]))
                                => \E q \in Runs : Holding(runs'[q])
      BY <1>1, <2>2 DEF OneOrder
    <3>2. \A i, j \in DOMAIN sent' : sent'[i].call = "order" /\ sent'[j].call = "order" => i = j
      BY <2>1, <3>1 DEF OneOrder
    <3>3. Ordered => \A q \in Runs : ~MaySend(runs'[q])
      BY <2>3, <3>1 DEF OneOrder
    <3>4. \A p, q \in Runs : MaySend(runs'[p]) /\ MaySend(runs'[q]) => p = q
      BY <2>3, <3>1 DEF OneOrder
    <3>5. screen = "modal" /\ (Ordered \/ \E q \in Runs : MaySend(runs'[q]))
              => \E q \in Runs : Holding(runs'[q])
      BY <2>3, <3>1 DEF OneOrder
    <3>6. QED
      BY <3>2, <3>3, <3>4, <3>5
  <2>5. n.race.fire = runs[r].race.fire
    BY <1>4, <1>5, <1>7, <1>17
  <2>6. NothingMoved'
    <3>1. SUFFICES ASSUME ~Ordered, outside = 0
                   PROVE /\ screen # "accepted"
                         /\ \A q \in Runs : runs'[q].pc = "racing" =>
                                /\ runs'[q].race.before = held[Token]
                                /\ runs'[q].race.poll # "seen" /\ runs'[q].race.fire # "hash"
      BY <1>1, <2>2 DEF NothingMoved, Token
    <3>2. QED
      BY <1>5, <1>7, <1>10, <2>5, <3>1 DEF NothingMoved
  <2>7. QED
    BY <1>12, <1>13, <1>14, <1>19, <1>20, <2>4, <2>6
<1>18. QED
  BY <1>16, <1>17

\* Neither the chain nor another app sends an order, and a balance moves only when
\* an order lands or another app spends.
LEMMA ChainStep ==
    ASSUME OrderInv, mount > 0, Mine \/ SpendElsewhere(Token), UNCHANGED orderVars
    PROVE  OrderInv'
<1> USE DEF OrderInv
<1>1. UNCHANGED <<props, screen, mount, step, txHash, error, deposit, connected, runs, rows,
                  overlapped>>
  BY DEF orderVars, modalVars
<1>2. /\ sent' \in Seq(TxType) /\ DOMAIN sent' = DOMAIN sent
      /\ \A i \in DOMAIN sent : sent'[i].call = sent[i].call /\ sent'[i].by = sent[i].by
  <2>1. CASE Mine
    <3>1. PICK i \in DOMAIN sent, status \in {"landed", "reverted"} :
              sent' = [sent EXCEPT ![i].status = status]
      BY <2>1 DEF Mine
    <3>2. sent \in Seq(TxType) /\ sent[i] \in TxType
      BY DEF FlowTypes
    <3>3. [sent[i] EXCEPT !.status = status] \in TxType
          /\ [sent[i] EXCEPT !.status = status].call = sent[i].call
          /\ [sent[i] EXCEPT !.status = status].by = sent[i].by
      BY <3>2 DEF TxType
    <3>4. QED
      BY <3>1, <3>2, <3>3
  <2>2. CASE SpendElsewhere(Token)
    BY <2>2 DEF SpendElsewhere, FlowTypes
  <2>3. QED
    BY <2>1, <2>2
<1>3. Ordered' = Ordered
  BY <1>2 DEF Ordered
<1>4. held' \in [Tokens -> Nat]
  <2>1. CASE Mine
    <3>1. PICK i \in DOMAIN sent : held' = held \/ (Covered(sent[i]) /\ held' = AfterTx(sent[i]))
      BY <2>1 DEF Mine
    <3>2. sent[i] \in TxType /\ held \in [Tokens -> Nat]
      BY DEF FlowTypes
    <3>3. CASE sent[i].call = "approve"
      BY <3>1, <3>2, <3>3 DEF AfterTx
    <3>4. CASE sent[i].call = "order"
      <4>1. Covered(sent[i]) => held[sent[i].token] >= sent[i].amount
        BY <3>4 DEF Covered
      <4>2. AfterTx(sent[i]) = [held EXCEPT ![sent[i].token] = @ - sent[i].amount]
        BY <3>4 DEF AfterTx
      <4>3. QED
        BY <3>1, <3>2, <4>1, <4>2 DEF TxType
    <3>5. QED
      BY <3>2, <3>3, <3>4 DEF TxType
  <2>2. CASE SpendElsewhere(Token)
    <3>1. Token \in Tokens /\ held \in [Tokens -> Nat]
      BY DEF Token, Tokens, FlowTypes
    <3>2. QED
      BY <2>2, <3>1 DEF SpendElsewhere
  <2>3. QED
    BY <2>1, <2>2
<1>5. outside' \in Nat
  BY DEF Mine, SpendElsewhere
<1>6. ScreenTypes' /\ FlowTypes' /\ \A r \in Runs : AsksInOrder(runs'[r])
  BY <1>1, <1>2, <1>4 DEF ScreenTypes, FlowTypes
<1>7. Untouched'
  <2>1. mount' # 0
    BY <1>1
  <2>2. QED
    BY <2>1 DEF Untouched
<1>8. OneOrder'
  BY <1>1, <1>2, <1>3 DEF OneOrder
<1>9. ~Ordered /\ outside' = 0 => held' = held /\ outside = 0
  <2>1. CASE Mine
    <3>1. PICK i \in DOMAIN sent : held' = held \/ held' = AfterTx(sent[i])
      BY <2>1 DEF Mine
    <3>2. sent[i] \in TxType
      BY DEF FlowTypes
    <3>3. ~Ordered => sent[i].call = "approve"
      BY <3>2 DEF Ordered, TxType
    <3>4. QED
      BY <2>1, <3>1, <3>3 DEF AfterTx, Mine
  <2>2. CASE SpendElsewhere(Token)
    BY <2>2 DEF SpendElsewhere
  <2>3. QED
    BY <2>1, <2>2
<1>10. NothingMoved'
  BY <1>1, <1>3, <1>9 DEF NothingMoved, Token
<1>11. OwnOrders'
  BY <1>1, <1>2 DEF OwnOrders, Under
<1>12. RowsHaveOrders'
  <2>1. \A q : OrdersSent(q)' = OrdersSent(q)
    BY <1>2 DEF OrdersSent
  <2>2. outside' = 0 => outside = 0
    BY DEF Mine, SpendElsewhere
  <2>3. outside' > 0 \/ outside' = 0
    BY <1>5
  <2>4. QED
    BY <1>1, <2>1, <2>2, <2>3 DEF RowsHaveOrders
<1>13. QED
  BY <1>5, <1>6, <1>7, <1>8, <1>10, <1>11, <1>12

LEMMA StepOrder == ASSUME OrderInv, [OrderNext]_<<chainVars, orderVars>> PROVE OrderInv'
<1>1. CASE UNCHANGED <<chainVars, orderVars>>
  <2>1. UNCHANGED <<sent, held, outside, props, screen, mount, step, txHash, error, deposit,
                    runs, rows, overlapped>>
    BY <1>1 DEF chainVars, orderVars, modalVars
  <2>2. ScreenTypes' /\ FlowTypes' /\ Untouched' /\ outside' \in Nat
    BY <2>1 DEF OrderInv, ScreenTypes, FlowTypes, Untouched
  <2>3. OneOrder'
    BY <2>1 DEF OrderInv, OneOrder, Ordered
  <2>4. NothingMoved'
    BY <2>1 DEF OrderInv, NothingMoved, Ordered, Token
  <2>5. OwnOrders' /\ RowsHaveOrders'
    BY <2>1 DEF OrderInv, OwnOrders, Under, RowsHaveOrders, OrdersSent
  <2>6. QED
    BY <2>1, <2>2, <2>3, <2>4, <2>5 DEF OrderInv
<1>2. CASE OpenOrder \/ AcceptRefused \/ Close \/ CloseDeposit \/ Remount
  BY <1>2, DialogSteps
<1>3. ASSUME NEW r \in Runs, HandleAccept(r) \/ Sign(r) \/ Refuse(r) \/ OrderProgress(r)
      PROVE  OrderInv'
  <2>1. CASE HandleAccept(r)
    BY <2>1, AcceptStep
  <2>2. CASE Sign(r)
    BY <2>2, SignStep
  <2>3. CASE Refuse(r)
    BY <2>3, RefuseStep
  <2>4. CASE ReadFails(r) \/ BothFail(r)
    BY <2>4, FailingSteps
  <2>5. CASE ReadBalance(r) \/ ReadAllowance(r)
    BY <2>5, ReadingSteps
  <2>6. CASE ReadBefore(r)
    BY <2>6, RaceStep
  <2>7. CASE Poll(r)
    BY <2>7, PollStep
  <2>8. CASE Confirm(r)
    BY <2>8, ConfirmStep
  <2>9. QED
    BY <1>3, <2>1, <2>2, <2>3, <2>4, <2>5, <2>6, <2>7, <2>8 DEF OrderProgress
<1>4. CASE mount > 0 /\ (Mine \/ SpendElsewhere(Token)) /\ UNCHANGED orderVars
  BY <1>4, ChainStep
<1>5. QED
  BY <1>1, <1>2, <1>3, <1>4 DEF OrderNext, OrderStep

\* OrderInv holds whatever the users, the wallets, the nodes and other apps do.
THEOREM OrderInvariance == OrderSpec => []OrderInv
<1>1. AnyAccount /\ OrderInit => OrderInv
  BY InitOrder DEF AnyAccount
<1>2. OrderInv /\ [OrderNext]_<<chainVars, orderVars>> => OrderInv'
  BY StepOrder
<1>3. QED
  BY <1>1, <1>2, PTL DEF OrderSpec

\* Every variable of the dialog has its type, and no order that lands takes a
\* balance below zero.
THEOREM OrderTypeCorrect == OrderSpec => []OrderTypeOK
<1>1. OrderInv => OrderTypeOK
  BY InvOrder
<1>2. QED
  BY <1>1, OrderInvariance, PTL

\* A retry after "No funds were moved" never sends a second order, for any number
\* of retries, dialogs and prompts left open: two orders come only from runs under
\* way together.
THEOREM RetryIsSafe == OrderSpec => []RetryNeverDoubles
<1>1. OrderInv => RetryNeverDoubles
  BY InvOrder
<1>2. QED
  BY <1>1, OrderInvariance, PTL

\* The accepted screen shows an order that was sent, for any number of runs: a poll
\* of an account nobody else spends from sees less only when an order landed.
THEOREM AcceptedIsSent == OrderSpec => []AcceptedMeansSent
<1>1. OrderInv => AcceptedMeansSent
  BY InvOrder
<1>2. QED
  BY <1>1, OrderInvariance, PTL

\* A position shown before the indexer knows it has an order behind it, for any
\* number of runs one after the other, retries and dialogs: what won a run's race
\* was its own order, signed or seen to land.
THEOREM RowsAreOrdered == OrderSpec => []RowsHaveOrders
<1>1. OrderInv => RowsHaveOrders
  BY InvOrder
<1>2. QED
  BY <1>1, OrderInvariance, PTL

-----------------------------------------------------------------------------
(* The dialog that accepts a range: what holds in all its states.           *)

\* The calls the wallet is asked for, for a lower side and an upper side.
IsPut(c) == c.call = "order" /\ c.token = "usdc"
IsCall(c) == c.call = "order" /\ c.token # "usdc"

LegCallType == [call : {"approve", "order", "swap", "wrap"}, token : Tokens \cup {"router"}, amount : Nat]
LegRaceType == [asks : Seq(LegCallType), fire : {"off", "asking", "hash", "refused"},
                poll : {"off", "on", "seen", "gave up"}, before : Nat]
BeforeLegs == {"none", "read balances", "read router", "read call balance", "prepare put"}
AfterPut == {"prepare call", "race call"}
RangeRunType ==
    [pc : BeforeLegs \cup AfterPut \cup {"swap", "wrap", "race put", "ended"}, sawSwap : BOOLEAN,
     short : Nat, put : BOOLEAN, race : LegRaceType]
LegTxType == [by : RangeRuns, call : {"approve", "order", "swap", "wrap"},
              token : Tokens \cup {"router"}, amount : Nat,
              status : {"pending", "landed", "reverted"}]

\* What lands moves tokens only.
MovesTokens(c) == c.call \in {"order", "swap"} => c.token \in Tokens

RangeTypes ==
    /\ rangeProps \in [callToken : {"okb", "weth"}, router : BOOLEAN, complete : BOOLEAN,
                       connected : BOOLEAN]
    /\ held \in [Tokens -> Nat] /\ outside = 0
    /\ sent \in Seq(LegTxType) /\ rangeRuns \in [RangeRuns -> RangeRunType]
    /\ \A i \in DOMAIN sent : MovesTokens(sent[i])

\* Transactions are mined in order, and sent by runs that were started, as the
\* stepper was moved.
MinedInOrder ==
    /\ \A i, j \in DOMAIN sent :
           i < j /\ sent[j].status # "pending" => sent[i].status # "pending"
    /\ \A i \in DOMAIN sent : rangeRuns[sent[i].by].pc # "none"
    /\ rangeStep # "idle" => \E r \in RangeRuns : rangeRuns[r].pc # "none"

\* What a run has the wallet ask for at each of its steps.
AsksForStep(run, asks) ==
    /\ asks # <<>> => run.pc \notin BeforeLegs
    /\ asks # <<>> /\ run.pc \in {"race put", "race call"} => run.race.fire = "asking"
    /\ \A i \in 1..Len(asks) :
           /\ MovesTokens(asks[i])
           /\ asks[i].call = "swap" => run.pc = "swap" /\ i = Len(asks)
           /\ run.pc = "race put" /\ i = Len(asks) => IsPut(asks[i])
           /\ run.pc = "race call" /\ i = Len(asks) => IsCall(asks[i])
           /\ IsCall(asks[i]) => run.pc \in {"race call", "ended"} /\ i = Len(asks)

SentPut == \E i \in DOMAIN sent : IsPut(sent[i])
SentCall == \E i \in DOMAIN sent : IsCall(sent[i])
PutBy(r) == \E i \in DOMAIN sent : IsPut(sent[i]) /\ sent[i].by = r
CallBy(r) == \E i \in DOMAIN sent : IsCall(sent[i]) /\ sent[i].by = r
PendingSwap == \E i \in DOMAIN sent : sent[i].call = "swap" /\ sent[i].status = "pending"
AsksCall(run) == \E i \in 1..Len(run.race.asks) : IsCall(run.race.asks[i])

\* A hash is of the order of its leg.
HashesAreOrders(run, r) ==
    /\ run.put => PutBy(r)
    /\ run.pc = "race put" /\ run.race.fire = "hash" => PutBy(r)
    /\ run.pc = "race call" /\ run.race.fire = "hash" => CallBy(r)

GroupsHaveOrders == \A r \in RangeRuns : tags[r] # "none" => PutBy(r) /\ CallBy(r)

\* No run goes on behind the accepted screen.
OneRange ==
    /\ \A r, q \in RangeRuns : RangeUnder(r) /\ RangeUnder(q) => r = q
    /\ rangeScreen = "accepted" => SentPut /\ \A r \in RangeRuns : ~RangeUnder(r)

\* There is one upper side, sent or to come, and nothing follows it.
OneUpperSide ==
    /\ \A i, j \in DOMAIN sent : IsCall(sent[i]) /\ IsCall(sent[j]) => i = j
    /\ SentCall => \A r \in RangeRuns : ~AsksCall(rangeRuns[r])
    /\ \A r, q \in RangeRuns : AsksCall(rangeRuns[r]) /\ AsksCall(rangeRuns[q]) => r = q
    /\ \A r \in RangeRuns :
           AsksCall(rangeRuns[r]) => rangeRuns[r].pc = "race call" \/ rangeScreen = "accepted"
    /\ SentCall => \/ rangeScreen = "accepted"
                   \/ \E r \in RangeRuns : rangeRuns[r].pc = "race call" /\ rangeRuns[r].race.fire = "hash"

\* The lower side goes first.
PutGoesFirst ==
    /\ \A r \in RangeRuns : rangeRuns[r].pc \in AfterPut => SentPut
    /\ \A i \in DOMAIN sent : IsCall(sent[i]) => \E j \in DOMAIN sent : j < i /\ IsPut(sent[j])
    /\ rangeScreen = "modal" /\ rangeStep = "partial-put-only" => SentPut

\* A swap on its way holds up its run or, when its receipt came too late, the dialog.
SwapHoldsUp ==
    \A i \in DOMAIN sent : sent[i].call = "swap" /\ sent[i].status = "pending" =>
        \/ rangeRuns[sent[i].by].pc = "swap" /\ rangeRuns[sent[i].by].race.asks = <<>>
        \/ /\ \A r \in RangeRuns : ~RangeUnder(r)
           /\ rangeScreen # "modal" \/ rangeStep = "swapping"

\* Before a lower side is sent no poll of a run sees less than there was.
PollsSeePuts ==
    ~SentPut => \A r \in RangeRuns : rangeRuns[r].pc = "race put" =>
        rangeRuns[r].race.before = held["usdc"] /\ rangeRuns[r].race.poll # "seen"

\* The stepper tells where the run is.
RangeSteps == {"idle", "swapping", "executing-put", "executing-call", "confirmed",
               "partial-put-only"}
StepOf(pc) ==
    IF pc \in {"read router", "swap"} THEN {"swapping"}
    ELSE IF pc \in {"prepare put", "race put"} THEN {"executing-put"}
    ELSE IF pc \in AfterPut THEN {"executing-call"} ELSE RangeSteps
StepTold ==
    rangeScreen = "modal" =>
        \A r \in RangeRuns : RangeUnder(r) => rangeStep \in StepOf(rangeRuns[r].pc)

RangeInv ==
    /\ RangeTypeOK /\ RangeTypes /\ MinedInOrder /\ GroupsHaveOrders
    /\ \A r \in RangeRuns : /\ AsksForStep(rangeRuns[r], rangeRuns[r].race.asks)
                            /\ HashesAreOrders(rangeRuns[r], r)
    /\ ~rangeOverlapped => /\ OneRange /\ OneUpperSide /\ PutGoesFirst /\ SwapHoldsUp
                           /\ PollsSeePuts /\ StepTold

-----------------------------------------------------------------------------
(* A run of the range dialog that goes on or ends.                          *)

\* What a step of a run tells of the run, without overlap: it goes on or was ended,
\* and lets nothing of it be forgotten.
Follows(r, n) ==
    /\ RangeUnder(r) \/ (/\ rangeRuns[r].pc = "ended" /\ n.pc = "ended"
                         /\ UNCHANGED <<rangeScreen, rangeStep>>)
    /\ \/ rangeScreen' = rangeScreen
       \/ rangeScreen' = "accepted" /\ rangeRuns[r].pc \in AfterPut /\ n.pc = "ended"
    /\ AsksCall(n) => /\ AsksCall(rangeRuns[r]) \/ rangeRuns[r].pc = "prepare call"
                      /\ n.pc = "race call" \/ rangeScreen' = "accepted"
    /\ rangeRuns[r].pc = "race call" /\ rangeRuns[r].race.fire = "hash" =>
           (n.pc = "race call" /\ n.race.fire = "hash") \/ rangeScreen' = "accepted"
    /\ n.pc \in AfterPut => SentPut
    /\ rangeScreen' = "modal" /\ rangeStep' = "partial-put-only" => SentPut
    /\ rangeRuns[r].pc = "swap" /\ rangeRuns[r].race.asks = <<>> /\ PendingSwap =>
           \/ n.pc = "swap" /\ n.race.asks = <<>>
           \/ n.pc = "ended" /\ (rangeScreen' # "modal" \/ rangeStep' = "swapping")
    /\ n.pc = "race put" /\ ~SentPut => n.race.before = held["usdc"] /\ n.race.poll # "seen"
    /\ rangeScreen' = "modal" /\ n.pc # "ended" => rangeStep' \in StepOf(n.pc)

RangeMoves(r, n) ==
    /\ rangeRuns' = [rangeRuns EXCEPT ![r] = n] /\ n \in RangeRunType /\ n.pc # "none"
    /\ UNCHANGED <<chainVars, rangeProps, rangeOverlapped>>
    /\ AsksForStep(n, n.race.asks) /\ HashesAreOrders(n, r)
    /\ ~rangeOverlapped => Follows(r, n)

LEMMA SentType ==
    ASSUME RangeInv, NEW i \in DOMAIN sent
    PROVE  sent[i] \in LegTxType /\ sent[i].by \in RangeRuns /\ MovesTokens(sent[i])
<1>1. sent \in Seq(LegTxType) /\ MovesTokens(sent[i])
  BY DEF RangeInv, RangeTypes
<1>2. sent[i] \in LegTxType
  BY <1>1
<1>3. QED
  BY <1>1, <1>2 DEF LegTxType

LEMMA RangeMoved ==
    ASSUME RangeInv, NEW r \in RangeRuns, NEW n, RangeMoves(r, n), RangeTypeOK', GroupsHaveOrders'
    PROVE  RangeInv'
<1> USE DEF RangeInv
<1>1. /\ n \in RangeRunType /\ n.pc # "none"
      /\ UNCHANGED <<sent, held, approved, outside, rangeProps, rangeOverlapped>>
      /\ AsksForStep(n, n.race.asks) /\ HashesAreOrders(n, r)
      /\ ~rangeOverlapped => Follows(r, n)
  BY DEF RangeMoves, chainVars
<1>2. /\ rangeRuns' \in [RangeRuns -> RangeRunType] /\ rangeRuns'[r] = n
      /\ \A q \in RangeRuns : q # r => rangeRuns'[q] = rangeRuns[q]
  BY <1>1 DEF RangeTypes, RangeMoves
<1>3. RangeTypes'
  BY <1>1, <1>2 DEF RangeTypes
<1>4. MinedInOrder'
  <2>1. \A i \in DOMAIN sent : sent[i].by \in RangeRuns
    BY SentType
  <2>2. QED
    BY <1>1, <1>2, <2>1 DEF MinedInOrder
<1>5. /\ SentPut' = SentPut /\ SentCall' = SentCall /\ PendingSwap' = PendingSwap
      /\ \A q : PutBy(q)' = PutBy(q) /\ CallBy(q)' = CallBy(q)
  BY <1>1 DEF SentPut, SentCall, PendingSwap, PutBy, CallBy
<1>6. \A q \in RangeRuns : /\ AsksForStep(rangeRuns'[q], rangeRuns'[q].race.asks)
                           /\ HashesAreOrders(rangeRuns[q], q)' 
  BY <1>1, <1>2, <1>5 DEF HashesAreOrders
<1>7. ASSUME ~rangeOverlapped
      PROVE  (OneRange /\ OneUpperSide /\ PutGoesFirst /\ SwapHoldsUp /\ PollsSeePuts /\ StepTold)'
  <2>1. /\ OneRange /\ OneUpperSide /\ PutGoesFirst /\ SwapHoldsUp /\ PollsSeePuts /\ StepTold
        /\ Follows(r, n)
    BY <1>1, <1>7
  <2>2. /\ \A q \in RangeRuns : RangeUnder(q)' => RangeUnder(q)
        /\ RangeUnder(r)' <=> n.pc # "ended"
        /\ \A q \in RangeRuns : q # r => (RangeUnder(q)' <=> RangeUnder(q))
    BY <1>1, <1>2, <2>1 DEF RangeUnder, Follows
  <2>3. rangeScreen' # rangeScreen =>
            /\ rangeScreen' = "accepted" /\ SentPut /\ RangeUnder(r) /\ n.pc = "ended"
    BY <2>1 DEF Follows, PutGoesFirst, RangeUnder, AfterPut
  <2>4. OneRange'
    BY <1>5, <2>1, <2>2, <2>3 DEF OneRange
  <2>5. SentCall /\ RangeUnder(r) => rangeRuns[r].pc = "race call"
    BY <2>1 DEF OneRange, OneUpperSide, RangeUnder
  <2>6. \A q \in RangeRuns : AsksCall(rangeRuns[q]) /\ RangeUnder(r) =>
            rangeRuns[q].pc = "race call" /\ q = r
    BY <2>1 DEF OneRange, OneUpperSide, RangeUnder
  <2>7. AsksCall(n) => \/ AsksCall(rangeRuns[r])
                       \/ /\ ~SentCall /\ \A q \in RangeRuns : ~AsksCall(rangeRuns[q])
    BY <2>1, <2>5, <2>6 DEF Follows, RangeUnder
  <2>8. OneUpperSide'
    <3>1. \A i, j \in DOMAIN sent : IsCall(sent[i]) /\ IsCall(sent[j]) => i = j
      BY <2>1 DEF OneUpperSide
    <3>2. SentCall => \A q \in RangeRuns : ~AsksCall(rangeRuns'[q])
      BY <1>2, <2>1, <2>7 DEF OneUpperSide
    <3>3. \A p, q \in RangeRuns : AsksCall(rangeRuns'[p]) /\ AsksCall(rangeRuns'[q]) => p = q
      BY <1>2, <2>1, <2>7 DEF OneUpperSide
    <3>4. \A q \in RangeRuns : AsksCall(rangeRuns'[q]) =>
              rangeRuns'[q].pc = "race call" \/ rangeScreen' = "accepted"
      BY <1>2, <2>1 DEF OneUpperSide, Follows
    <3>5. SentCall => \/ rangeScreen' = "accepted"
                      \/ \E q \in RangeRuns : rangeRuns'[q].pc = "race call"
                                              /\ rangeRuns'[q].race.fire = "hash"
      BY <1>2, <2>1 DEF OneUpperSide, Follows
    <3>6. QED
      BY <1>1, <1>5, <3>1, <3>2, <3>3, <3>4, <3>5 DEF OneUpperSide
  <2>9. PutGoesFirst'
    BY <1>1, <1>2, <1>5, <2>1 DEF PutGoesFirst, Follows
  <2>10. SwapHoldsUp'
    <3>1. SUFFICES ASSUME NEW i \in DOMAIN sent, sent[i].call = "swap", sent[i].status = "pending"
                   PROVE  \/ rangeRuns'[sent[i].by].pc = "swap" /\ rangeRuns'[sent[i].by].race.asks = <<>>
                          \/ /\ \A q \in RangeRuns : ~RangeUnder(q)'
                             /\ rangeScreen' # "modal" \/ rangeStep' = "swapping"
      BY <1>1 DEF SwapHoldsUp
    <3>2. sent[i].by \in RangeRuns /\ PendingSwap
      BY <3>1, SentType DEF PendingSwap
    <3>3. CASE rangeRuns[sent[i].by].pc = "swap" /\ rangeRuns[sent[i].by].race.asks = <<>>
      <4>1. CASE sent[i].by = r
        <5>1. RangeUnder(r) /\ \A q \in RangeRuns : RangeUnder(q) => q = r
          BY <2>1, <3>3, <4>1 DEF OneRange, RangeUnder
        <5>2. QED
          BY <1>2, <2>1, <2>2, <3>2, <3>3, <4>1, <5>1 DEF Follows
      <4>2. CASE sent[i].by # r
        BY <1>2, <3>2, <3>3, <4>2
      <4>3. QED
        BY <4>1, <4>2
    <3>4. CASE /\ \A q \in RangeRuns : ~RangeUnder(q)
               /\ rangeScreen # "modal" \/ rangeStep = "swapping"
      BY <2>1, <2>2, <3>4 DEF Follows
    <3>5. QED
      BY <2>1, <3>1, <3>3, <3>4 DEF SwapHoldsUp
  <2>11. PollsSeePuts'
    BY <1>1, <1>2, <1>5, <2>1 DEF PollsSeePuts, Follows
  <2>12. StepTold'
    <3>1. SUFFICES ASSUME rangeScreen' = "modal", NEW q \in RangeRuns, RangeUnder(q)'
                   PROVE  rangeStep' \in StepOf(rangeRuns'[q].pc)
      BY DEF StepTold, StepOf
    <3>2. CASE q = r
      BY <1>2, <2>1, <2>2, <3>1, <3>2 DEF Follows
    <3>3. CASE q # r
      <4>1. RangeUnder(q) /\ ~RangeUnder(r)
        BY <2>1, <2>2, <3>1, <3>3 DEF OneRange
      <4>2. UNCHANGED <<rangeScreen, rangeStep>>
        BY <2>1, <4>1 DEF Follows
      <4>3. QED
        BY <1>2, <2>1, <3>1, <3>3, <4>1, <4>2 DEF StepTold
    <3>4. QED
      BY <3>2, <3>3
  <2>13. QED
    BY <2>4, <2>8, <2>9, <2>10, <2>11, <2>12
<1>8. QED
  BY <1>1, <1>3, <1>4, <1>6, <1>7

LEMMA RunTyped ==
    ASSUME RangeInv, NEW r \in RangeRuns
    PROVE  /\ rangeRuns[r] \in RangeRunType /\ rangeRuns[r].race \in LegRaceType
           /\ rangeRuns[r].race.asks \in Seq(LegCallType)
           /\ AsksForStep(rangeRuns[r], rangeRuns[r].race.asks)
           /\ HashesAreOrders(rangeRuns[r], r)
<1>1. rangeRuns[r] \in RangeRunType
  BY DEF RangeInv, RangeTypes
<1>2. rangeRuns[r].race \in LegRaceType
  BY <1>1 DEF RangeRunType
<1>3. QED
  BY <1>1, <1>2 DEF LegRaceType, RangeInv

LEMMA NothingAsked ==
    ASSUME NEW run
    PROVE  AsksForStep(run, <<>>) /\ (run.race.asks = <<>> => ~AsksCall(run))
<1>1. Len(<<>>) = 0
  OBVIOUS
<1>2. \A i \in 1..Len(<<>>) : FALSE
  BY <1>1
<1>3. AsksForStep(run, <<>>)
  BY <1>2 DEF AsksForStep
<1>4. run.race.asks = <<>> => ~AsksCall(run)
  BY <1>2 DEF AsksCall
<1>5. QED
  BY <1>3, <1>4

\* A run that ends, with the prompts it leaves behind.
LEMMA RangeEnded ==
    ASSUME RangeInv, NEW r \in RangeRuns, RangeUnder(r), Stop(r),
           UNCHANGED <<chainVars, rangeProps, rangeOverlapped>>, RangeTypeOK', GroupsHaveOrders',
           \/ rangeScreen' = rangeScreen
           \/ rangeScreen' = "accepted" /\ rangeRuns[r].pc \in AfterPut,
           rangeRuns[r].pc = "race call"
               => rangeScreen' = "accepted"
                  \/ (rangeRuns[r].race.fire # "hash" /\ rangeRuns[r].race.asks = <<>>),
           ~rangeOverlapped /\ rangeRuns[r].pc = "swap" /\ rangeRuns[r].race.asks = <<>> /\ PendingSwap
               => rangeScreen' # "modal" \/ rangeStep' = "swapping",
           ~rangeOverlapped /\ rangeScreen' = "modal" /\ rangeStep' = "partial-put-only" => SentPut
    PROVE  RangeInv'
<1> DEFINE asks == IF rangeRuns[r].pc \in {"swap", "wrap"} THEN <<>> ELSE rangeRuns[r].race.asks
           race == [NoRace EXCEPT !.asks = asks]
           n == [FreshRangeRun EXCEPT !.pc = "ended", !.race = race]
<1>1. /\ asks \in Seq(LegCallType) /\ AsksForStep(rangeRuns[r], rangeRuns[r].race.asks)
      /\ rangeRuns[r].pc \in {"swap", "wrap"} => asks = <<>>
      /\ asks = <<>> \/ asks = rangeRuns[r].race.asks
  <2>1. <<>> \in Seq(LegCallType)
    BY EmptySeq
  <2>2. CASE rangeRuns[r].pc \in {"swap", "wrap"}
    BY <2>1, <2>2, RunTyped
  <2>3. CASE rangeRuns[r].pc \notin {"swap", "wrap"}
    BY <2>3, RunTyped
  <2>4. QED
    BY <2>2, <2>3
<1>2. rangeRuns' = [rangeRuns EXCEPT ![r] = n]
  BY DEF Stop, FreshRangeRun
<1> HIDE DEF asks
<1>3. race \in LegRaceType /\ race.asks = asks /\ race.fire = "off"
  BY <1>1 DEF NoRace, LegRaceType
<1> HIDE DEF race
<1>4. n \in RangeRunType /\ n.pc = "ended" /\ n.put = FALSE /\ n.race = race
  BY <1>3 DEF FreshRangeRun, RangeRunType
<1> HIDE DEF n
<1>5. AsksForStep(n, n.race.asks)
  <2>1. CASE asks = <<>>
    BY <1>3, <1>4, <2>1, NothingAsked
  <2>2. CASE asks # <<>> /\ asks = rangeRuns[r].race.asks /\ rangeRuns[r].pc \notin {"swap", "wrap"}
    BY <1>1, <1>3, <1>4, <2>2 DEF AsksForStep, BeforeLegs
  <2>3. QED
    BY <1>1, <2>1, <2>2
<1>6. HashesAreOrders(n, r)
  BY <1>3, <1>4 DEF HashesAreOrders
<1>7. AsksCall(n) => AsksCall(rangeRuns[r]) /\ rangeRuns[r].pc = "race call" /\ rangeScreen' = "accepted"
  <2>1. SUFFICES ASSUME AsksCall(n)
                 PROVE  AsksCall(rangeRuns[r]) /\ rangeRuns[r].pc = "race call"
                        /\ rangeScreen' = "accepted"
    OBVIOUS
  <2>2. asks # <<>> /\ \E i \in 1..Len(asks) : IsCall(asks[i])
    BY <1>3, <1>4, <2>1, NothingAsked DEF AsksCall
  <2>3. asks = rangeRuns[r].race.asks
    BY <1>1, <2>2
  <2>4. QED
    BY <1>1, <2>2, <2>3 DEF AsksForStep, AsksCall, RangeUnder
<1>8. ASSUME ~rangeOverlapped
      PROVE  Follows(r, n)
  BY <1>3, <1>4, <1>7, <1>8 DEF Follows, AfterPut
<1>9. RangeMoves(r, n)
  BY <1>2, <1>4, <1>5, <1>6, <1>8 DEF RangeMoves
<1>10. QED
  BY <1>9, RangeMoved

\* The catch ends a run that waits for no receipt.
LEMMA CatchStep ==
    ASSUME RangeInv, NEW r \in RangeRuns, RangeUnder(r), NEW cancelled \in BOOLEAN,
           CatchRange(r, cancelled),
           rangeRuns[r].pc = "swap" => rangeRuns[r].race.asks # <<>>,
           rangeRuns[r].pc = "race call" => rangeRuns[r].race.fire = "refused"
    PROVE  RangeInv'
<1>1. /\ Stop(r) /\ UNCHANGED <<chainVars, rangeProps, rangeOverlapped, rangeScreen, tags, hashes, fresh,
                                didSwap, rangeDeposit, rangeRows, sent>>
  BY DEF CatchRange, chainVars
<1>2. /\ rangeStep' \in {rangeStep, "idle", "partial-put-only"}
      /\ rangeStep' = "partial-put-only" /\ rangeScreen' = "modal" => rangeRuns[r].pc \in AfterPut
  <2>1. LastStep(r) = "executing-call" => rangeRuns[r].pc \in AfterPut
    BY DEF LastStep, AfterPut
  <2>2. QED
    BY <2>1 DEF CatchRange, Shown
<1>3. RangeTypeOK'
  BY <1>1, <1>2 DEF RangeInv, RangeTypeOK
<1>4. GroupsHaveOrders'
  BY <1>1 DEF RangeInv, GroupsHaveOrders, PutBy, CallBy
<1>5. rangeRuns[r].pc = "race call" =>
          rangeRuns[r].race.fire # "hash" /\ rangeRuns[r].race.asks = <<>>
  BY RunTyped DEF AsksForStep
<1>6. ~rangeOverlapped /\ rangeScreen' = "modal" /\ rangeStep' = "partial-put-only" => SentPut
  BY <1>2 DEF RangeInv, PutGoesFirst
<1>7. QED
  BY <1>1, <1>3, <1>4, <1>5, <1>6, RangeEnded

LEMMA GroupsStay == ASSUME RangeInv, UNCHANGED <<sent, tags>> PROVE GroupsHaveOrders'
  BY DEF RangeInv, GroupsHaveOrders, PutBy, CallBy

\* A read that fails, and a race that both sides lost.
LEMMA RangeFailingSteps ==
    ASSUME RangeInv, NEW r \in RangeRuns, RangeReadFails(r) \/ BothRangeFail(r)
    PROVE  RangeInv'
<1>1. PICK cancelled \in BOOLEAN : CatchRange(r, cancelled)
  BY DEF RangeReadFails, BothRangeFail
<1>2. /\ RangeUnder(r) /\ rangeRuns[r].pc # "swap"
      /\ rangeRuns[r].pc = "race call" => rangeRuns[r].race.fire = "refused"
  BY DEF RangeReadFails, BothRangeFail, Racing, Lost, RangeUnder
<1>3. QED
  BY <1>1, <1>2, CatchStep

\* The receipt of a transaction is there only when those before it are mined.
LEMMA LastIsLast ==
    ASSUME RangeInv, NEW r \in RangeRuns, NEW i \in DOMAIN sent, sent[i].by = r
    PROVE  \E j \in DOMAIN sent : /\ LastSent(r) = sent[j] /\ sent[j].by = r
                                  /\ \A k \in DOMAIN sent : sent[k].by = r => k <= j
<1> DEFINE mine == {k \in DOMAIN sent : sent[k].by = r}
           left == {Len(sent) - k : k \in mine}
<1>1. /\ Len(sent) \in Nat /\ DOMAIN sent = 1..Len(sent)
  BY DEF RangeInv, RangeTypes
<1>2. left \subseteq Nat /\ left # {}
  BY <1>1
<1>3. PICK x \in left : \A y \in left : ~(<<y, x>> \in OpToRel(<, Nat))
  BY <1>2, NatLessThanWellFounded, WFMin
<1>4. \A y \in left : ~(y < x)
  BY <1>2, <1>3 DEF OpToRel
<1>5. PICK j \in mine : x = Len(sent) - j
  OBVIOUS
<1>6. ASSUME NEW k \in mine
      PROVE  k <= j
  <2>1. Len(sent) - k \in left /\ k \in 1..Len(sent) /\ j \in 1..Len(sent)
    BY <1>1
  <2>2. ~(Len(sent) - k < x)
    BY <1>4, <2>1
  <2> HIDE DEF left, mine
  <2>3. QED
    BY <1>1, <1>5, <2>1, <2>2
<1>7. LastSent(r) = sent[CHOOSE k \in mine : \A l \in mine : l <= k]
  BY DEF LastSent
<1>8. PICK k \in mine : k = (CHOOSE m \in mine : \A l \in mine : l <= m) /\ \A l \in mine : l <= k
  BY <1>5, <1>6
<1>9. QED
  BY <1>7, <1>8

LEMMA SwapsAreIn ==
    ASSUME RangeInv, ~rangeOverlapped, NEW r \in RangeRuns, rangeRuns[r].pc = "swap",
           LastSent(r).status # "pending"
    PROVE  ~PendingSwap
<1>1. SUFFICES ASSUME NEW i \in DOMAIN sent, sent[i].call = "swap", sent[i].status = "pending"
               PROVE  FALSE
  BY DEF PendingSwap
<1>2. sent[i].by = r
  <2>1. RangeUnder(r) /\ sent[i].by \in RangeRuns
    BY SentType DEF RangeUnder
  <2>2. rangeRuns[sent[i].by].pc = "swap"
    BY <1>1, <2>1 DEF RangeInv, SwapHoldsUp
  <2>3. QED
    BY <2>1, <2>2 DEF RangeInv, OneRange, RangeUnder
<1>3. PICK j \in DOMAIN sent : LastSent(r) = sent[j] /\ i <= j
  BY <1>2, LastIsLast
<1>4. i \in Nat /\ j \in Nat
  BY DEF RangeInv, RangeTypes
<1>5. CASE i = j
  BY <1>1, <1>3, <1>5
<1>6. CASE i # j
  BY <1>1, <1>3, <1>4, <1>6 DEF RangeInv, MinedInOrder
<1>7. QED
  BY <1>5, <1>6

\* A run with nothing asked goes on to a read or to the lower side.
LEMMA QuietStep ==
    ASSUME RangeInv, NEW r \in RangeRuns, RangeUnder(r), rangeRuns[r].race.asks = <<>>,
           rangeRuns[r].pc # "race call", NEW short \in Nat,
           NEW pc \in {"read router", "read call balance", "prepare put"},
           rangeRuns' = [rangeRuns EXCEPT ![r] = [rangeRuns[r] EXCEPT !.pc = pc, !.short = short]],
           UNCHANGED <<chainVars, rangeProps, rangeOverlapped, rangeScreen, tags>>, RangeTypeOK',
           rangeStep' \in {rangeStep, "swapping", "executing-put"},
           rangeScreen = "modal" => rangeStep' \in StepOf(pc),
           ~rangeOverlapped /\ rangeRuns[r].pc = "swap" => ~PendingSwap
    PROVE  RangeInv'
<1> DEFINE n == [rangeRuns[r] EXCEPT !.pc = pc, !.short = short]
<1>1. /\ n \in RangeRunType /\ n.pc = pc /\ n.race = rangeRuns[r].race /\ n.put = rangeRuns[r].put
      /\ rangeRuns' = [rangeRuns EXCEPT ![r] = n]
  BY RunTyped DEF RangeRunType, BeforeLegs
<1> HIDE DEF n
<1>2. AsksForStep(n, n.race.asks) /\ ~AsksCall(n)
  BY <1>1, NothingAsked
<1>3. HashesAreOrders(n, r)
  BY <1>1, RunTyped DEF HashesAreOrders
<1>4. ASSUME ~rangeOverlapped
      PROVE  Follows(r, n)
  <2>1. rangeScreen' = "modal" /\ rangeStep' = "partial-put-only" => SentPut
    BY <1>4 DEF RangeInv, PutGoesFirst
  <2>2. QED
    BY <1>1, <1>2, <1>4, <2>1 DEF Follows, AfterPut
<1>5. GroupsHaveOrders'
  BY GroupsStay DEF chainVars
<1>6. RangeMoves(r, n)
  BY <1>1, <1>2, <1>3, <1>4 DEF RangeMoves
<1>7. QED
  BY <1>5, <1>6, RangeMoved

\* Nothing is asked before the legs.
LEMMA NothingAskedYet ==
    ASSUME RangeInv, NEW r \in RangeRuns, rangeRuns[r].pc \in BeforeLegs
    PROVE  rangeRuns[r].race.asks = <<>>
  BY RunTyped DEF AsksForStep

LEMMA ReadBalancesStep ==
    ASSUME RangeInv, NEW r \in RangeRuns, ReadBalances(r)
    PROVE  RangeInv'
<1> DEFINE available == held[rangeProps.callToken] + held["native"]
           short == IF available < CallNeed THEN CallNeed - available ELSE 0
<1>1. /\ rangeRuns[r].pc = "read balances" /\ RangeUnder(r) /\ rangeRuns[r].race.asks = <<>>
      /\ UNCHANGED <<chainVars, rangeProps, rangeOverlapped, rangeScreen, tags, hashes, didSwap,
                     fresh, rangeRows>>
  BY NothingAskedYet DEF ReadBalances, RangeUnder, BeforeLegs
<1>2. short \in Nat
  <2>1. held[rangeProps.callToken] \in Nat /\ held["native"] \in Nat
    BY DEF RangeInv, RangeTypes, Tokens
  <2>2. QED
    BY <2>1, RangeAssumption
<1> HIDE DEF available, short
<1>3. CASE \E token \in {"usdc", "okb"} : AskDeposit(r, token)
  <2>1. Stop(r) /\ UNCHANGED rangeStep /\ rangeDeposit' \in {rangeDeposit, "usdc", "okb"}
    BY <1>3 DEF AskDeposit, Shown
  <2>2. RangeTypeOK'
    BY <1>1, <2>1 DEF RangeInv, RangeTypeOK
  <2>3. GroupsHaveOrders'
    BY <1>1, GroupsStay DEF chainVars
  <2>4. ~rangeOverlapped /\ rangeScreen' = "modal" /\ rangeStep' = "partial-put-only" => SentPut
    BY <1>1, <2>1 DEF RangeInv, PutGoesFirst
  <2>5. QED
    BY <1>1, <2>1, <2>2, <2>3, <2>4, RangeEnded
<1>4. CASE /\ rangeRuns' = [rangeRuns EXCEPT ![r].pc = "read router", ![r].short = short]
           /\ rangeStep' = Shown(rangeStep, "swapping") /\ UNCHANGED rangeDeposit
  <2>1. RangeTypeOK'
    BY <1>1, <1>4 DEF RangeInv, RangeTypeOK, Shown
  <2>2. /\ rangeStep' \in {rangeStep, "swapping", "executing-put"}
        /\ rangeScreen = "modal" => rangeStep' \in StepOf("read router")
    BY <1>4 DEF Shown, StepOf
  <2>3. rangeRuns' = [rangeRuns EXCEPT ![r] = [rangeRuns[r] EXCEPT !.pc = "read router", !.short = short]]
    BY <1>4
  <2>4. QED
    BY <1>1, <1>2, <2>1, <2>2, <2>3, QuietStep
<1>5. CASE To(r, "read call balance") /\ UNCHANGED <<rangeStep, rangeDeposit>>
  <2>1. RangeTypeOK'
    BY <1>1, <1>5 DEF RangeInv, RangeTypeOK
  <2>2. /\ rangeStep' \in {rangeStep, "swapping", "executing-put"}
        /\ rangeStep' \in StepOf("read call balance")
    BY <1>5 DEF StepOf, RangeInv, RangeTypeOK, AfterPut, RangeSteps
  <2>3. rangeRuns[r] = [rangeRuns[r] EXCEPT !.short = rangeRuns[r].short] /\ rangeRuns[r].short \in Nat
    BY RunTyped DEF RangeRunType
  <2>4. rangeRuns' = [rangeRuns EXCEPT ![r] = [rangeRuns[r] EXCEPT !.pc = "read call balance",
                                                                   !.short = rangeRuns[r].short]]
    BY <1>5, <2>3, RunTyped DEF To, RangeRunType
  <2>5. QED
    BY <1>1, <2>1, <2>2, <2>3, <2>4, QuietStep
<1>6. QED
  BY <1>3, <1>4, <1>5 DEF ReadBalances, short, available

LEMMA QuietTo ==
    ASSUME RangeInv, NEW r \in RangeRuns, NEW pc, To(r, pc)
    PROVE  /\ rangeRuns[r].short \in Nat
           /\ rangeRuns' = [rangeRuns EXCEPT ![r] = [rangeRuns[r] EXCEPT !.pc = pc,
                                                                     !.short = rangeRuns[r].short]]
<1>1. rangeRuns[r] \in RangeRunType
  BY RunTyped
<1>2. rangeRuns[r].short \in Nat
  BY <1>1 DEF RangeRunType
<1>3. [rangeRuns[r] EXCEPT !.pc = pc]
          = [rangeRuns[r] EXCEPT !.pc = pc, !.short = rangeRuns[r].short]
  BY <1>1 DEF RangeRunType
<1>4. QED
  BY <1>2, <1>3 DEF To

LEMMA ReceiptSteps ==
    ASSUME RangeInv, NEW r \in RangeRuns, ReceiptArrives(r)
    PROVE  RangeInv'
<1>1. /\ rangeRuns[r].pc \in {"swap", "wrap"} /\ rangeRuns[r].race.asks = <<>> /\ RangeUnder(r)
      /\ LastSent(r).status # "pending" /\ (didSwap' = didSwap \/ didSwap' = TRUE)
      /\ UNCHANGED <<chainVars, rangeProps, rangeOverlapped, rangeScreen, tags, hashes,
                     rangeDeposit, fresh, rangeRows>>
  BY DEF ReceiptArrives, RangeUnder, Shown
<1>2. ~rangeOverlapped /\ rangeRuns[r].pc = "swap" => ~PendingSwap
  BY <1>1, SwapsAreIn
<1>3. CASE rangeRuns[r].pc = "swap"
  <2>1. To(r, "read call balance") /\ UNCHANGED rangeStep
    BY <1>3 DEF ReceiptArrives
  <2>2. RangeTypeOK'
    BY <1>1, <2>1 DEF RangeInv, RangeTypeOK
  <2>3. rangeStep' \in StepOf("read call balance")
    BY <2>1 DEF StepOf, RangeInv, RangeTypeOK, AfterPut, RangeSteps
  <2>4. /\ rangeRuns[r].short \in Nat
        /\ rangeRuns' = [rangeRuns EXCEPT ![r] = [rangeRuns[r] EXCEPT !.pc = "read call balance",
                                                                 !.short = rangeRuns[r].short]]
    BY <2>1, QuietTo
  <2>5. QED
    BY <1>1, <1>2, <1>3, <2>1, <2>2, <2>3, <2>4, QuietStep
<1>4. CASE rangeRuns[r].pc = "wrap"
  <2>1. To(r, "prepare put") /\ rangeStep' = Shown(rangeStep, "executing-put")
    BY <1>4 DEF ReceiptArrives
  <2>2. RangeTypeOK'
    BY <1>1, <2>1 DEF RangeInv, RangeTypeOK, Shown
  <2>3. /\ rangeStep' \in {rangeStep, "swapping", "executing-put"}
        /\ rangeScreen = "modal" => rangeStep' \in StepOf("prepare put")
    BY <2>1 DEF Shown, StepOf
  <2>4. QED
    BY <1>1, <1>2, <1>4, <2>1, <2>2, <2>3, QuietTo, QuietStep
<1>5. QED
  BY <1>1, <1>3, <1>4

LEMMA TimeOutStep ==
    ASSUME RangeInv, NEW r \in RangeRuns, ReceiptTimesOut(r)
    PROVE  RangeInv'
<1>1. /\ rangeRuns[r].pc \in {"swap", "wrap"} /\ RangeUnder(r) /\ Stop(r)
      /\ UNCHANGED <<chainVars, rangeProps, rangeOverlapped, rangeScreen, rangeStep, tags, hashes,
                     didSwap, rangeDeposit, fresh, rangeRows>>
  BY DEF ReceiptTimesOut, RangeUnder
<1>2. RangeTypeOK'
  BY <1>1 DEF RangeInv, RangeTypeOK
<1>3. GroupsHaveOrders'
  BY <1>1, GroupsStay DEF chainVars
<1>4. ~rangeOverlapped /\ rangeScreen' = "modal" /\ rangeStep' = "partial-put-only" => SentPut
  BY <1>1 DEF RangeInv, PutGoesFirst
<1>5. ~rangeOverlapped /\ rangeRuns[r].pc = "swap" =>
          rangeScreen' # "modal" \/ rangeStep' = "swapping"
  BY <1>1 DEF RangeInv, StepTold, StepOf
<1>6. QED
  BY <1>1, <1>2, <1>3, <1>4, <1>5, RangeEnded

LEMMA OneMore ==
    ASSUME NEW S, NEW s \in Seq(S), NEW c \in S
    PROVE  /\ s \o <<c>> \in Seq(S) /\ Len(s \o <<c>>) = Len(s) + 1 /\ Len(s) \in Nat
           /\ (s \o <<c>>)[Len(s) + 1] = c
           /\ \A i \in 1..Len(s) : (s \o <<c>>)[i] = s[i]
<1>1. <<c>> \in Seq(S) /\ Len(<<c>>) = 1 /\ <<c>>[1] = c /\ Len(s) \in Nat
  OBVIOUS
<1>2. QED
  BY <1>1, ConcatProperties

\* A batch after the prompts left open: an approval, if it takes one, and a call.
IsBatch(t, s, a, ap, c) ==
    /\ s \in Seq(LegCallType) /\ ap \in LegCallType /\ ap.call = "approve"
    /\ a = <<>> \/ a = <<ap>>
    /\ c \in LegCallType /\ t = (s \o a) \o <<c>>

EndsIn(t, s, c) ==
    /\ t \in Seq(LegCallType) /\ t # <<>> /\ Len(t) \in Nat /\ t[Len(t)] = c
    /\ \A i \in 1..Len(t) : \/ i = Len(t) \/ t[i].call = "approve"
                             \/ \E j \in 1..Len(s) : t[i] = s[j]

LEMMA AskedMore ==
    ASSUME NEW t, NEW s, NEW a, NEW ap, NEW c, IsBatch(t, s, a, ap, c)
    PROVE  EndsIn(t, s, c)
<1> USE DEF IsBatch
<1>1. /\ s \o a \in Seq(LegCallType) /\ Len(s \o a) \in Nat
      /\ \A i \in 1..Len(s \o a) : \/ (s \o a)[i].call = "approve"
                                   \/ \E j \in 1..Len(s) : (s \o a)[i] = s[j]
  <2>1. CASE a = <<>>
    <3>1. s \o a = s
      BY <2>1, ConcatEmptySeq
    <3>2. QED
      BY <3>1
  <2>2. CASE a = <<ap>>
    <3>1. /\ s \o a \in Seq(LegCallType) /\ Len(s \o a) = Len(s) + 1 /\ Len(s) \in Nat
          /\ (s \o a)[Len(s) + 1] = ap /\ \A i \in 1..Len(s) : (s \o a)[i] = s[i]
      BY <2>2, OneMore
    <3>2. QED
      BY <3>1
  <2>3. QED
    BY <2>1, <2>2
<1>2. /\ t \in Seq(LegCallType) /\ Len(t) = Len(s \o a) + 1 /\ t[Len(s \o a) + 1] = c
      /\ \A i \in 1..Len(s \o a) : t[i] = (s \o a)[i]
  BY <1>1, OneMore
<1>3. t # <<>>
  <2>1. Len(t) # 0
    BY <1>1, <1>2
  <2>2. QED
    BY <2>1, EmptySeq
<1>4. ASSUME NEW i \in 1..Len(t)
      PROVE  i = Len(t) \/ t[i].call = "approve" \/ \E j \in 1..Len(s) : t[i] = s[j]
  <2>1. CASE i = Len(t)
    BY <2>1
  <2>2. CASE i # Len(t)
    <3>1. i \in 1..Len(s \o a)
      BY <1>1, <1>2, <2>2
    <3>2. t[i] = (s \o a)[i]
      BY <1>2, <3>1
    <3>3. QED
      BY <1>1, <3>1, <3>2
  <2>3. QED
    BY <2>1, <2>2
<1>5. /\ t \in Seq(LegCallType) /\ Len(t) \in Nat /\ t[Len(t)] = c
  BY <1>1, <1>2
<1>6. QED
  BY <1>3, <1>4, <1>5 DEF EndsIn

LEMMA ReadRouterStep ==
    ASSUME RangeInv, NEW r \in RangeRuns, ReadRouterAllowance(r)
    PROVE  RangeInv'
<1> DEFINE ap == Call("approve", "router", 0)
           a == IF "router" \in approved THEN <<>> ELSE <<ap>>
           c == Call("swap", rangeProps.callToken, rangeRuns[r].short)
           asks == a \o <<c>>
           race == [rangeRuns[r].race EXCEPT !.asks = asks]
           n == [rangeRuns[r] EXCEPT !.pc = "swap", !.race = race]
<1>1. /\ rangeRuns[r].pc = "read router" /\ RangeUnder(r)
      /\ UNCHANGED <<chainVars, rangeProps, rangeScreen, rangeStep, hashes, rangeError, didSwap,
                     rangeDeposit, fresh, rangeRows, tags, rangeOverlapped>>
      /\ rangeRuns' = [rangeRuns EXCEPT ![r] = n]
  BY DEF ReadRouterAllowance, RangeUnder, modalState
<1>2. /\ ap \in LegCallType /\ ap.call = "approve" /\ (a = <<>> \/ a = <<ap>>)
      /\ c \in LegCallType /\ c.call = "swap" /\ c.token \in Tokens
  <2>1. rangeProps.callToken \in Tokens /\ rangeRuns[r].short \in Nat
    BY RunTyped DEF RangeInv, RangeTypes, RangeRunType, Tokens
  <2>2. QED
    BY <2>1 DEF Call, LegCallType
<1> HIDE DEF ap, a, c
<1>3. /\ asks \in Seq(LegCallType) /\ asks # <<>> /\ Len(asks) \in Nat /\ asks[Len(asks)] = c
      /\ \A i \in 1..Len(asks) : i = Len(asks) \/ asks[i].call = "approve"
  <2>1. <<>> \in Seq(LegCallType) /\ Len(<<>>) = 0 /\ a \in Seq(LegCallType)
    <3>1. <<>> \in Seq(LegCallType) /\ Len(<<>>) = 0
      BY EmptySeq
    <3>2. <<ap>> \in Seq(LegCallType)
      BY <1>2
    <3>3. QED
      BY <1>2, <3>1, <3>2
  <2>2. asks = (<<>> \o a) \o <<c>>
    BY <2>1, ConcatEmptySeq
  <2>3. \A i \in 1..Len(<<>>) : FALSE
    BY <2>1
  <2> HIDE DEF asks
  <2>4. IsBatch(asks, <<>>, a, ap, c)
    BY <1>2, <2>1, <2>2 DEF IsBatch
  <2>5. EndsIn(asks, <<>>, c)
    BY <2>4, AskedMore
  <2>6. QED
    BY <2>3, <2>5 DEF EndsIn
<1> HIDE DEF asks
<1>4. race \in LegRaceType /\ race.asks = asks /\ race.fire = rangeRuns[r].race.fire
  BY <1>3, RunTyped DEF LegRaceType
<1> HIDE DEF race
<1>5. n \in RangeRunType /\ n.pc = "swap" /\ n.race = race /\ n.put = rangeRuns[r].put
  BY <1>4, RunTyped DEF RangeRunType
<1> HIDE DEF n
<1>6. AsksForStep(n, n.race.asks) /\ ~AsksCall(n)
  BY <1>2, <1>3, <1>4, <1>5 DEF AsksForStep, AsksCall, IsCall, MovesTokens, BeforeLegs
<1>7. HashesAreOrders(n, r)
  BY <1>5, RunTyped DEF HashesAreOrders
<1>8. ASSUME ~rangeOverlapped
      PROVE  Follows(r, n)
  <2>1. rangeScreen' = "modal" /\ rangeStep' = "partial-put-only" => SentPut
    BY <1>1, <1>8 DEF RangeInv, PutGoesFirst
  <2>2. rangeScreen' = "modal" => rangeStep' \in StepOf("swap")
    BY <1>1, <1>8 DEF RangeInv, StepTold, StepOf
  <2>3. QED
    BY <1>1, <1>5, <1>6, <2>1, <2>2 DEF Follows, AfterPut
<1>9. RangeMoves(r, n)
  BY <1>1, <1>5, <1>6, <1>7, <1>8 DEF RangeMoves
<1>10. RangeTypeOK' /\ GroupsHaveOrders'
  BY <1>1, GroupsStay DEF RangeInv, RangeTypeOK, chainVars
<1>11. QED
  BY <1>9, <1>10, RangeMoved

LEMMA ReadCallBalanceStep ==
    ASSUME RangeInv, NEW r \in RangeRuns, ReadCallBalance(r)
    PROVE  RangeInv'
<1> DEFINE lacking == CallNeed - held[rangeProps.callToken]
<1>1. /\ rangeRuns[r].pc = "read call balance" /\ RangeUnder(r) /\ rangeRuns[r].race.asks = <<>>
      /\ UNCHANGED <<chainVars, rangeProps, rangeScreen, hashes, rangeError, didSwap,
                     rangeDeposit, fresh, rangeRows, tags, rangeOverlapped>>
  BY NothingAskedYet DEF ReadCallBalance, RangeUnder, BeforeLegs
<1>2. CASE lacking > 0
  <2> DEFINE c == Call("wrap", "weth", lacking)
             race == [rangeRuns[r].race EXCEPT !.asks = <<c>>]
             n == [rangeRuns[r] EXCEPT !.pc = "wrap", !.race = race]
  <2>1. rangeRuns' = [rangeRuns EXCEPT ![r] = n] /\ UNCHANGED rangeStep
    <3>1. /\ rangeRuns' = [rangeRuns EXCEPT ![r].pc = "wrap", ![r].race.asks = <<c>>]
          /\ UNCHANGED rangeStep
      BY <1>2, Zenon DEF ReadCallBalance
    <3> HIDE DEF c
    <3>2. QED
      BY <3>1
  <2>2. c \in LegCallType /\ c.call = "wrap"
    <3>1. lacking \in Nat
      <4>1. held[rangeProps.callToken] \in Nat
        BY DEF RangeInv, RangeTypes, Tokens
      <4>2. QED
        BY <1>2, <4>1, RangeAssumption
    <3>2. QED
      BY <3>1 DEF Call, LegCallType, Tokens
  <2> HIDE DEF c
  <2>3. race \in LegRaceType /\ race.asks = <<c>> /\ race.fire = rangeRuns[r].race.fire
    <3>1. <<c>> \in Seq(LegCallType)
      BY <2>2
    <3>2. QED
      BY <3>1, RunTyped DEF LegRaceType
  <2> HIDE DEF race
  <2>4. n \in RangeRunType /\ n.pc = "wrap" /\ n.race = race /\ n.put = rangeRuns[r].put
    BY <2>3, RunTyped DEF RangeRunType
  <2> HIDE DEF n
  <2>5. AsksForStep(n, n.race.asks) /\ ~AsksCall(n)
    BY <2>2, <2>3, <2>4 DEF AsksForStep, AsksCall, IsCall, MovesTokens, BeforeLegs
  <2>6. HashesAreOrders(n, r)
    BY <2>4, RunTyped DEF HashesAreOrders
  <2>7. ASSUME ~rangeOverlapped
        PROVE  Follows(r, n)
    <3>1. rangeScreen' = "modal" /\ rangeStep' = "partial-put-only" => SentPut
      BY <1>1, <2>1, <2>7 DEF RangeInv, PutGoesFirst
    <3>2. rangeStep' \in StepOf("wrap")
      BY <2>1 DEF RangeInv, RangeTypeOK, StepOf, RangeSteps, AfterPut
    <3>3. QED
      BY <1>1, <2>4, <2>5, <3>1, <3>2 DEF Follows, AfterPut
  <2>8. RangeMoves(r, n)
    BY <1>1, <2>1, <2>4, <2>5, <2>6, <2>7 DEF RangeMoves
  <2>9. RangeTypeOK' /\ GroupsHaveOrders'
    BY <1>1, <2>1, GroupsStay DEF RangeInv, RangeTypeOK, chainVars
  <2>10. QED
    BY <2>8, <2>9, RangeMoved
<1>3. CASE ~(lacking > 0)
  <2>1. To(r, "prepare put") /\ rangeStep' = Shown(rangeStep, "executing-put")
    BY <1>3 DEF ReadCallBalance
  <2>2. RangeTypeOK'
    BY <1>1, <2>1 DEF RangeInv, RangeTypeOK, Shown
  <2>3. /\ rangeStep' \in {rangeStep, "swapping", "executing-put"}
        /\ rangeScreen = "modal" => rangeStep' \in StepOf("prepare put")
    BY <2>1 DEF Shown, StepOf
  <2>4. /\ rangeRuns[r].short \in Nat
        /\ rangeRuns' = [rangeRuns EXCEPT ![r] = [rangeRuns[r] EXCEPT !.pc = "prepare put",
                                                                 !.short = rangeRuns[r].short]]
    BY <2>1, QuietTo
  <2>5. QED
    BY <1>1, <2>1, <2>2, <2>3, <2>4, QuietStep
<1>4. QED
  BY <1>2, <1>3

LEMMA PrepareStep ==
    ASSUME RangeInv, NEW r \in RangeRuns, NEW leg \in Legs, PrepareLeg(r, leg)
    PROVE  RangeInv'
<1> DEFINE token == LegToken(leg)
           ap == Call("approve", token, 0)
           a == IF token \in approved THEN <<>> ELSE <<ap>>
           c == Call("order", token, Need(leg))
           s == rangeRuns[r].race.asks
           asks == (s \o a) \o <<c>>
           race == StartRace(asks, held[token])
           pc == IF leg = "put" THEN "race put" ELSE "race call"
           n == [rangeRuns[r] EXCEPT !.pc = pc, !.race = race]
<1>1. /\ rangeRuns[r].pc = IF leg = "put" THEN "prepare put" ELSE "prepare call"
      /\ RangeUnder(r)
      /\ UNCHANGED <<chainVars, rangeProps, rangeScreen, rangeStep, hashes, rangeError, didSwap,
                     rangeDeposit, fresh, rangeRows, tags, rangeOverlapped>>
      /\ rangeRuns' = [rangeRuns EXCEPT ![r] = n]
  BY DEF PrepareLeg, RangeUnder, modalState
<1>2. /\ ap \in LegCallType /\ ap.call = "approve" /\ (a = <<>> \/ a = <<ap>>)
      /\ c \in LegCallType /\ c.call = "order" /\ c.token = token
      /\ token \in Tokens /\ held[token] \in Nat /\ (leg = "put" <=> token = "usdc")
  <2>1. token \in Tokens /\ (leg = "put" <=> token = "usdc")
    BY DEF RangeInv, RangeTypes, Tokens, LegToken, Legs
  <2>2. held[token] \in Nat /\ Need(leg) \in Nat
    BY <2>1, RangeAssumption DEF RangeInv, RangeTypes, Need
  <2> HIDE DEF token
  <2>3. QED
    BY <2>1, <2>2 DEF Call, LegCallType
<1>3. /\ s \in Seq(LegCallType) /\ AsksForStep(rangeRuns[r], s)
      /\ leg = "put" => s = <<>>
  BY <1>1, NothingAskedYet, RunTyped DEF BeforeLegs
<1> HIDE DEF token, ap, a, c, s
<1>4. /\ asks \in Seq(LegCallType) /\ asks # <<>> /\ Len(asks) \in Nat /\ asks[Len(asks)] = c
      /\ \A i \in 1..Len(asks) : \/ i = Len(asks) \/ asks[i].call = "approve"
                                 \/ \E j \in 1..Len(s) : asks[i] = s[j]
  <2>1. IsBatch(asks, s, a, ap, c)
    BY <1>2, <1>3 DEF IsBatch
  <2> HIDE DEF asks
  <2>2. EndsIn(asks, s, c)
    BY <2>1, AskedMore
  <2>3. QED
    BY <2>2 DEF EndsIn
<1> HIDE DEF asks
<1>5. /\ race \in LegRaceType /\ race.asks = asks /\ race.fire = "asking" /\ race.poll = "on"
      /\ race.before = held[token]
  BY <1>2, <1>4 DEF LegRaceType, StartRace
<1> HIDE DEF race
<1>6. n \in RangeRunType /\ n.pc = pc /\ n.race = race /\ n.put = rangeRuns[r].put
  BY <1>5, RunTyped DEF RangeRunType, AfterPut
<1> HIDE DEF n
<1>7. \A i \in 1..Len(asks) : i # Len(asks) => ~IsCall(asks[i]) /\ asks[i].call # "swap"
                                              /\ MovesTokens(asks[i])
  <2>1. \A j \in 1..Len(s) : ~IsCall(s[j]) /\ s[j].call # "swap" /\ MovesTokens(s[j])
    BY <1>1, <1>3 DEF AsksForStep, Legs
  <2>2. QED
    BY <1>4, <2>1 DEF IsCall, MovesTokens
<1>8. AsksForStep(n, n.race.asks) /\ (AsksCall(n) => leg = "call")
  <2>1. /\ MovesTokens(c) /\ c.call # "swap" /\ (leg = "put" => IsPut(c) /\ ~IsCall(c))
        /\ leg = "call" => IsCall(c)
    BY <1>2 DEF MovesTokens, IsPut, IsCall
  <2>2. (pc = "race put" /\ leg = "put") \/ (pc = "race call" /\ leg = "call")
    BY DEF Legs
  <2>3. AsksForStep(n, asks)
    BY <1>4, <1>5, <1>6, <1>7, <2>1, <2>2 DEF AsksForStep, BeforeLegs
  <2>4. AsksCall(n) => leg = "call"
    BY <1>4, <1>5, <1>6, <1>7, <2>1, <2>2 DEF AsksCall
  <2>5. QED
    BY <1>5, <1>6, <2>3, <2>4
<1>9. HashesAreOrders(n, r)
  BY <1>5, <1>6, RunTyped DEF HashesAreOrders
<1>10. ASSUME ~rangeOverlapped
       PROVE  Follows(r, n)
  <2>1. rangeScreen' = "modal" /\ rangeStep' = "partial-put-only" => SentPut
    BY <1>1, <1>10 DEF RangeInv, PutGoesFirst
  <2>2. rangeScreen' = "modal" => rangeStep' \in StepOf(n.pc)
    BY <1>1, <1>6, <1>10 DEF RangeInv, StepTold, StepOf, AfterPut
  <2>3. leg = "call" => SentPut
    BY <1>1, <1>10 DEF RangeInv, PutGoesFirst, AfterPut
  <2>4. \/ leg = "put" /\ rangeRuns[r].pc = "prepare put" /\ n.pc = "race put"
        \/ leg = "call" /\ rangeRuns[r].pc = "prepare call" /\ n.pc = "race call"
    BY <1>1, <1>6 DEF Legs
  <2>5. n.race.poll = "on" /\ (leg = "put" => n.race.before = held["usdc"])
    BY <1>2, <1>5, <1>6
  <2>6. QED
    BY <1>1, <1>8, <2>1, <2>2, <2>3, <2>4, <2>5 DEF Follows, AfterPut
<1>11. RangeMoves(r, n)
  BY <1>1, <1>6, <1>8, <1>9, <1>10 DEF RangeMoves
<1>12. RangeTypeOK' /\ GroupsHaveOrders'
  BY <1>1, GroupsStay DEF RangeInv, RangeTypeOK, chainVars
<1>13. QED
  BY <1>11, <1>12, RangeMoved

\* A run whose race changes while its step and the dialog do not.
LEMMA RaceChanged ==
    ASSUME RangeInv, NEW r \in RangeRuns, rangeRuns[r].pc \notin BeforeLegs \cup {"swap", "wrap"},
           NEW race \in LegRaceType, rangeRuns' = [rangeRuns EXCEPT ![r].race = race],
           UNCHANGED <<chainVars, rangeProps, rangeScreen, rangeStep, hashes, didSwap,
                       rangeDeposit, fresh, rangeRows, tags, rangeOverlapped>>,
           race.asks = <<>> \/ race.asks = rangeRuns[r].race.asks,
           race.asks # <<>> => race.fire = rangeRuns[r].race.fire,
           rangeRuns[r].pc \in {"race put", "race call"} =>
               (race.fire = "hash" <=> rangeRuns[r].race.fire = "hash"),
           race.before = rangeRuns[r].race.before,
           rangeRuns[r].pc = "race put" /\ race.poll = "seen" =>
               rangeRuns[r].race.poll = "seen" \/ held["usdc"] # race.before
    PROVE  RangeInv'
<1> DEFINE n == [rangeRuns[r] EXCEPT !.race = race]
<1>1. rangeRuns' = [rangeRuns EXCEPT ![r] = n]
  OBVIOUS
<1>2. n \in RangeRunType /\ n.pc = rangeRuns[r].pc /\ n.race = race /\ n.put = rangeRuns[r].put
  BY RunTyped DEF RangeRunType
<1> HIDE DEF n
<1>3. AsksForStep(n, n.race.asks) /\ (AsksCall(n) => AsksCall(rangeRuns[r]))
  <2>1. CASE race.asks = <<>>
    BY <1>2, <2>1, NothingAsked
  <2>2. CASE race.asks # <<>>
    <3>1. /\ n.race.asks = rangeRuns[r].race.asks /\ n.pc = rangeRuns[r].pc
          /\ n.race.fire = rangeRuns[r].race.fire
      BY <1>2, <2>2
    <3>2. AsksForStep(rangeRuns[r], n.race.asks)
      BY <3>1, RunTyped
    <3>3. AsksForStep(n, n.race.asks)
      BY <3>1, <3>2 DEF AsksForStep
    <3>4. QED
      BY <3>1, <3>3 DEF AsksCall
  <2>3. QED
    BY <2>1, <2>2
<1>4. HashesAreOrders(n, r)
  BY <1>2, RunTyped DEF HashesAreOrders
<1>5. ASSUME ~rangeOverlapped
      PROVE  Follows(r, n)
  <2>1. /\ rangeScreen' = "modal" /\ rangeStep' = "partial-put-only" => SentPut
        /\ n.pc \in AfterPut => SentPut
    BY <1>2, <1>5 DEF RangeInv, PutGoesFirst
  <2>2. rangeScreen' = "modal" /\ n.pc # "ended" => rangeStep' \in StepOf(n.pc)
    BY <1>2, <1>5 DEF RangeInv, StepTold, RangeUnder, BeforeLegs
  <2>3. n.pc = "race put" /\ ~SentPut => n.race.before = held["usdc"] /\ n.race.poll # "seen"
    BY <1>2, <1>5 DEF RangeInv, PollsSeePuts
  <2>4. AsksCall(n) => n.pc = "race call" \/ rangeScreen = "accepted"
    BY <1>2, <1>3, <1>5 DEF RangeInv, OneUpperSide
  <2>5. QED
    BY <1>2, <1>3, <2>1, <2>2, <2>3, <2>4 DEF Follows, RangeUnder, BeforeLegs, AfterPut
<1>6. RangeMoves(r, n)
  BY <1>1, <1>2, <1>3, <1>4, <1>5 DEF RangeMoves, BeforeLegs
<1>7. RangeTypeOK' /\ GroupsHaveOrders'
  BY GroupsStay DEF RangeInv, RangeTypeOK, chainVars
<1>8. QED
  BY <1>6, <1>7, RangeMoved

LEMMA RefuseRangeStep ==
    ASSUME RangeInv, NEW r \in RangeRuns, RefuseRange(r)
    PROVE  RangeInv'
<1>1. rangeRuns[r].race.asks # <<>> /\ rangeRuns[r].pc \notin BeforeLegs
  BY NothingAskedYet DEF RefuseRange
<1>2. CASE rangeRuns[r].pc \in {"swap", "wrap"}
  <2>1. CatchRange(r, TRUE) /\ RangeUnder(r)
    BY <1>2 DEF RefuseRange, RangeUnder
  <2>2. QED
    BY <1>1, <1>2, <2>1, CatchStep
<1>3. CASE rangeRuns[r].pc \notin {"swap", "wrap"}
  <2> DEFINE race == RefusedRace(rangeRuns[r].race)
  <2>1. /\ rangeRuns' = [rangeRuns EXCEPT ![r].race = race]
        /\ UNCHANGED <<chainVars, rangeProps, rangeScreen, rangeStep, hashes, didSwap,
                       rangeDeposit, fresh, rangeRows, tags, rangeOverlapped>>
    BY <1>3 DEF RefuseRange, modalState
  <2>2. /\ race \in LegRaceType /\ race.asks = <<>> /\ race.before = rangeRuns[r].race.before
        /\ race.poll = rangeRuns[r].race.poll
        /\ race.fire = IF rangeRuns[r].race.fire = "asking" THEN "refused" ELSE rangeRuns[r].race.fire
    <3>1. rangeRuns[r].race \in LegRaceType /\ <<>> \in Seq(LegCallType)
      BY RunTyped, EmptySeq
    <3>2. race = [rangeRuns[r].race EXCEPT !.asks = <<>>,
                     !.fire = IF rangeRuns[r].race.fire = "asking" THEN "refused"
                              ELSE rangeRuns[r].race.fire]
      BY DEF RefusedRace
    <3>3. QED
      BY <3>1, <3>2 DEF LegRaceType
  <2> HIDE DEF race
  <2>3. rangeRuns[r].pc \in {"race put", "race call"} => rangeRuns[r].race.fire = "asking"
    BY <1>1, RunTyped DEF AsksForStep
  <2>4. QED
    BY <1>1, <1>3, <2>1, <2>2, <2>3, RaceChanged
<1>4. QED
  BY <1>2, <1>3

LEMMA LessIsOther == \A x, y \in Nat : x < y => x # y
  OBVIOUS

LEMMA PollRangeStep ==
    ASSUME RangeInv, NEW r \in RangeRuns, PollRange(r)
    PROVE  RangeInv'
<1>1. /\ rangeRuns[r].pc \in {"race put", "race call"}
      /\ UNCHANGED <<chainVars, rangeProps, rangeScreen, rangeStep, hashes, didSwap,
                     rangeDeposit, fresh, rangeRows, tags, rangeOverlapped>>
  BY DEF PollRange, Racing, modalState
<1>2. PICK race \in PolledRaces(rangeRuns[r].race, held[LegToken(RacingLeg(r))]) :
          rangeRuns' = [rangeRuns EXCEPT ![r].race = race]
  BY DEF PollRange
<1>3. PICK poll \in {"gave up", "seen"} :
          /\ race = [rangeRuns[r].race EXCEPT !.poll = poll]
          /\ poll = "seen" => held[LegToken(RacingLeg(r))] < rangeRuns[r].race.before
  BY <1>2 DEF PolledRaces
<1>4. /\ race \in LegRaceType /\ race.poll = poll /\ race.asks = rangeRuns[r].race.asks
      /\ race.fire = rangeRuns[r].race.fire /\ race.before = rangeRuns[r].race.before
  BY <1>3, RunTyped DEF LegRaceType
<1>5. rangeRuns[r].pc = "race put" /\ race.poll = "seen" => held["usdc"] # race.before
  <2>1. rangeRuns[r].pc = "race put" => LegToken(RacingLeg(r)) = "usdc"
    BY DEF LegToken, RacingLeg
  <2>2. held["usdc"] \in Nat /\ rangeRuns[r].race.before \in Nat
    BY RunTyped DEF RangeInv, RangeTypes, Tokens, LegRaceType
  <2>3. ASSUME rangeRuns[r].pc = "race put", race.poll = "seen"
        PROVE  held["usdc"] # race.before
    <3>1. held["usdc"] < rangeRuns[r].race.before
      BY <1>3, <1>4, <2>1, <2>3
    <3>2. held["usdc"] # rangeRuns[r].race.before
      BY <2>2, <3>1, LessIsOther, Zenon
    <3>3. QED
      BY <1>4, <3>2
  <2>4. QED
    BY <2>3
<1>6. rangeRuns[r].pc \notin BeforeLegs \cup {"swap", "wrap"}
  BY <1>1 DEF BeforeLegs
<1>7. QED
  BY <1>1, <1>2, <1>4, <1>5, <1>6, RaceChanged

\* What wins the race of a lower side is a lower side.
LEMMA WonByPut ==
    ASSUME RangeInv, ~rangeOverlapped, NEW r \in RangeRuns, rangeRuns[r].pc = "race put",
           Won(rangeRuns[r].race)
    PROVE  SentPut
<1>1. CASE rangeRuns[r].race.fire = "hash"
  BY <1>1, RunTyped DEF HashesAreOrders, PutBy, SentPut
<1>2. CASE rangeRuns[r].race.poll = "seen"
  BY <1>2 DEF RangeInv, PollsSeePuts
<1>3. QED
  BY <1>1, <1>2 DEF Won

LEMMA PutConfirmedStep ==
    ASSUME RangeInv, NEW r \in RangeRuns, PutConfirmed(r)
    PROVE  RangeInv'
<1> DEFINE signed == rangeRuns[r].race.fire = "hash"
<1>1. /\ rangeRuns[r].pc = "race put" /\ Won(rangeRuns[r].race) /\ RangeUnder(r)
      /\ UNCHANGED <<chainVars, rangeProps, rangeScreen, didSwap, rangeDeposit, fresh, tags,
                     rangeOverlapped>>
  BY DEF PutConfirmed, RangeUnder
<1>7. hashes' \subseteq Legs /\ rangeRows' \subseteq RangeRuns \X Legs
  <2>1. hashes \subseteq Legs /\ rangeRows \subseteq RangeRuns \X Legs /\ "put" \in Legs
    BY DEF RangeInv, RangeTypeOK, Legs
  <2>2. hashes' \in {hashes, hashes \cup {"put"}} /\ rangeRows' = rangeRows \cup {<<r, "put">>}
    BY DEF PutConfirmed, Shown
  <2>3. QED
    BY <2>1, <2>2
<1>2. ~rangeOverlapped => SentPut
  BY <1>1, WonByPut
<1>3. GroupsHaveOrders'
  BY <1>1, GroupsStay DEF chainVars
<1>4. CASE "call" \in fresh
  <2> DEFINE n == [rangeRuns[r] EXCEPT !.pc = "prepare call", !.put = signed]
  <2>1. rangeRuns' = [rangeRuns EXCEPT ![r] = n] /\ rangeStep' = Shown(rangeStep, "executing-call")
    BY <1>4 DEF PutConfirmed
  <2>2. n \in RangeRunType /\ n.pc = "prepare call" /\ n.race = rangeRuns[r].race /\ n.put = signed
    BY RunTyped DEF RangeRunType, AfterPut
  <2> HIDE DEF n
  <2>3. RangeTypeOK'
    BY <1>1, <1>7, <2>1 DEF RangeInv, RangeTypeOK, Shown
  <2>4. AsksForStep(n, n.race.asks) /\ ~AsksCall(n)
    BY <1>1, <2>2, RunTyped DEF AsksForStep, AsksCall, BeforeLegs
  <2>5. HashesAreOrders(n, r)
    BY <1>1, <2>2, RunTyped DEF HashesAreOrders
  <2>6. rangeScreen' = "modal" => rangeStep' \in StepOf("prepare call")
    BY <1>1, <2>1 DEF Shown, StepOf, AfterPut
  <2>7. ~rangeOverlapped => Follows(r, n)
    BY <1>1, <1>2, <2>2, <2>4, <2>6 DEF Follows, AfterPut
  <2>8. RangeMoves(r, n)
    BY <1>1, <2>1, <2>2, <2>4, <2>5, <2>7 DEF RangeMoves
  <2>9. QED
    BY <1>3, <2>3, <2>8, RangeMoved
<1>5. CASE "call" \notin fresh
  <2>1. Stop(r) /\ rangeStep' = Shown(rangeStep, "partial-put-only")
    BY <1>5 DEF PutConfirmed
  <2>2. RangeTypeOK'
    BY <1>1, <1>7, <2>1 DEF RangeInv, RangeTypeOK, Shown
  <2>3. QED
    BY <1>1, <1>2, <1>3, <2>1, <2>2, RangeEnded
<1>6. QED
  BY <1>4, <1>5

LEMMA CallConfirmedStep ==
    ASSUME RangeInv, NEW r \in RangeRuns, CallConfirmed(r)
    PROVE  RangeInv'
<1>1. /\ rangeRuns[r].pc = "race call" /\ RangeUnder(r) /\ Stop(r)
      /\ UNCHANGED <<chainVars, rangeProps, didSwap, rangeDeposit, fresh, rangeOverlapped>>
      /\ rangeScreen' = "accepted" /\ rangeStep' = Shown(rangeStep, "confirmed")
  BY DEF CallConfirmed, RangeUnder
<1>7. hashes' \subseteq Legs /\ rangeRows' \subseteq RangeRuns \X Legs
  <2>1. hashes \subseteq Legs /\ rangeRows \subseteq RangeRuns \X Legs /\ "call" \in Legs
    BY DEF RangeInv, RangeTypeOK, Legs
  <2>2. hashes' \in {hashes, hashes \cup {"call"}} /\ rangeRows' = rangeRows \cup {<<r, "call">>}
    BY DEF CallConfirmed, Shown
  <2>3. QED
    BY <2>1, <2>2
<1>2. /\ tags' \in [RangeRuns -> {"none", "asking", "grouped", "given up"}]
      /\ \A q \in RangeRuns : tags'[q] = tags[q] \/ (q = r /\ BothHashes(r))
  BY DEF CallConfirmed, RangeInv, RangeTypeOK
<1>3. BothHashes(r) => PutBy(r) /\ CallBy(r)
  BY <1>1, RunTyped DEF BothHashes, CallHash, HashesAreOrders
<1>4. GroupsHaveOrders'
  <2>1. \A q : PutBy(q)' = PutBy(q) /\ CallBy(q)' = CallBy(q)
    BY <1>1 DEF PutBy, CallBy, chainVars
  <2>2. QED
    BY <1>2, <1>3, <2>1 DEF RangeInv, GroupsHaveOrders
<1>5. RangeTypeOK'
  BY <1>1, <1>2, <1>7 DEF RangeInv, RangeTypeOK, Shown
<1>6. QED
  BY <1>1, <1>4, <1>5, RangeEnded DEF AfterPut

-----------------------------------------------------------------------------
(* The steps of the user and of the backend.                                *)

\* Everything but the dialog and the groups stays.
SameRuns == UNCHANGED <<chainVars, rangeRuns, rangeOverlapped>>

LEMMA RunsStay ==
    ASSUME RangeInv, SameRuns, RangeTypeOK', GroupsHaveOrders',
           rangeProps' \in [callToken : {"okb", "weth"}, router : BOOLEAN, complete : BOOLEAN,
                            connected : BOOLEAN],
           rangeStep' = rangeStep,
           \/ rangeScreen' \in {rangeScreen, "menu"} /\ rangeScreen # "accepted"
           \/ rangeScreen' = rangeScreen
           \/ rangeScreen = "menu" /\ rangeScreen' = "modal" /\ sent = <<>> /\ rangeStep = "idle"
                /\ \A r \in RangeRuns : ~RangeUnder(r)
    PROVE  RangeInv'
<1>1. UNCHANGED <<sent, held, approved, outside, rangeRuns, rangeOverlapped>>
  BY DEF SameRuns, chainVars
<1>2. RangeTypes' /\ MinedInOrder'
  BY <1>1 DEF RangeInv, RangeTypes, MinedInOrder
<1>3. /\ SentPut' = SentPut /\ SentCall' = SentCall
      /\ \A q : /\ PutBy(q)' = PutBy(q) /\ CallBy(q)' = CallBy(q)
                /\ RangeUnder(q)' = RangeUnder(q)
  BY <1>1 DEF SentPut, SentCall, PutBy, CallBy, RangeUnder
<1>4. \A r \in RangeRuns : /\ AsksForStep(rangeRuns[r], rangeRuns[r].race.asks)'
                           /\ HashesAreOrders(rangeRuns[r], r)'
  <2>1. SUFFICES ASSUME NEW r \in RangeRuns
                 PROVE  /\ AsksForStep(rangeRuns'[r], rangeRuns'[r].race.asks)
                        /\ HashesAreOrders(rangeRuns[r], r)'
    BY DEF AsksForStep, MovesTokens, IsPut, IsCall
  <2>2. AsksForStep(rangeRuns[r], rangeRuns[r].race.asks) /\ HashesAreOrders(rangeRuns[r], r)
    BY RunTyped
  <2>3. QED
    BY <1>1, <1>3, <2>2 DEF HashesAreOrders
<1>5. sent = <<>> => \A i \in DOMAIN sent : FALSE
  OBVIOUS
<1>6. ASSUME ~rangeOverlapped
      PROVE  (OneRange /\ OneUpperSide /\ PutGoesFirst /\ SwapHoldsUp /\ PollsSeePuts /\ StepTold)'
  <2>1. OneRange /\ OneUpperSide /\ PutGoesFirst /\ SwapHoldsUp /\ PollsSeePuts /\ StepTold
    BY <1>6 DEF RangeInv
  <2>2. OneRange'
    BY <1>3, <2>1 DEF OneRange
  <2>3. OneUpperSide'
    BY <1>1, <1>3, <1>5, <2>1 DEF OneUpperSide
  <2>4. PutGoesFirst'
    BY <1>1, <1>3, <2>1 DEF PutGoesFirst
  <2>5. SwapHoldsUp'
    BY <1>1, <1>3, <1>5, <2>1 DEF SwapHoldsUp
  <2>6. PollsSeePuts'
    BY <1>1, <1>3, <2>1 DEF PollsSeePuts
  <2>7. StepTold'
    BY <1>1, <1>3, <2>1 DEF StepTold
  <2>8. QED
    BY <2>2, <2>3, <2>4, <2>5, <2>6, <2>7
<1>7. QED
  BY <1>1, <1>2, <1>4, <1>6 DEF RangeInv

LEMMA TagStep ==
    ASSUME RangeInv, NEW r \in RangeRuns, TagGroup(r)
    PROVE  RangeInv'
<1>1. /\ SameRuns /\ tags[r] = "asking"
      /\ UNCHANGED <<rangeProps, rangeScreen, rangeStep, hashes, didSwap, rangeDeposit, fresh, rangeRows>>
  BY DEF TagGroup, SameRuns, modalState
<1>2. /\ tags' \in [RangeRuns -> {"none", "asking", "grouped", "given up"}]
      /\ \A q \in RangeRuns : tags'[q] # "none" => tags[q] # "none"
  BY <1>1 DEF TagGroup, RangeInv, RangeTypeOK
<1>3. RangeTypeOK'
  BY <1>1, <1>2 DEF RangeInv, RangeTypeOK
<1>4. GroupsHaveOrders'
  <2>1. \A q : PutBy(q)' = PutBy(q) /\ CallBy(q)' = CallBy(q)
    BY <1>1 DEF PutBy, CallBy, SameRuns, chainVars
  <2>2. QED
    BY <1>2, <2>1 DEF RangeInv, GroupsHaveOrders
<1>5. QED
  BY <1>1, <1>3, <1>4, RunsStay DEF RangeInv, RangeTypes

\* A dialog opened anew has no run behind it, and nothing was sent.
LEMMA FreshDialog ==
    ASSUME RangeInv, rangeRuns = [r \in RangeRuns |-> FreshRangeRun]
    PROVE  sent = <<>> /\ rangeStep = "idle" /\ \A r \in RangeRuns : ~RangeUnder(r)
<1>1. \A r \in RangeRuns : rangeRuns[r].pc = "none"
  BY DEF FreshRangeRun
<1>2. \A i \in DOMAIN sent : FALSE
  BY <1>1, SentType DEF RangeInv, MinedInOrder
<1>3. sent \in Seq(LegTxType) /\ Len(sent) \in Nat
  BY DEF RangeInv, RangeTypes
<1>4. Len(sent) = 0
  <2>1. DOMAIN sent = 1..Len(sent)
    BY <1>3
  <2>2. 1 \notin 1..Len(sent)
    BY <1>2, <2>1
  <2>3. QED
    BY <1>3, <2>2
<1>5. QED
  BY <1>1, <1>3, <1>4, EmptySeq DEF RangeUnder, RangeInv, MinedInOrder

LEMMA RangeDialogSteps ==
    ASSUME RangeInv,
           OpenRange \/ AcceptRangeRefused \/ CloseRange \/ CloseRangeDeposit \/ ExpireQuote
    PROVE  RangeInv'
<1>1. rangeProps \in [callToken : {"okb", "weth"}, router : BOOLEAN, complete : BOOLEAN,
                      connected : BOOLEAN]
  BY DEF RangeInv, RangeTypes
<1>2. SameRuns /\ UNCHANGED <<sent, tags, rangeStep, hashes, didSwap, rangeRows>>
  BY DEF SameRuns, chainVars, modalState, OpenRange, AcceptRangeRefused, CloseRange, CloseRangeDeposit, ExpireQuote
<1>3. GroupsHaveOrders'
  BY <1>2, GroupsStay
<1>4. CASE OpenRange
  <2>1. RangeTypeOK'
    BY <1>2, <1>4 DEF OpenRange, modalState, RangeInv, RangeTypeOK
  <2>2. sent = <<>> /\ rangeStep = "idle" /\ \A r \in RangeRuns : ~RangeUnder(r)
    BY <1>4, FreshDialog DEF OpenRange
  <2>3. QED
    BY <1>2, <1>3, <1>4, <2>1, <2>2, RunsStay DEF OpenRange
<1>5. CASE AcceptRangeRefused
  <2>1. RangeTypeOK'
    BY <1>2, <1>5 DEF AcceptRangeRefused, RangeInv, RangeTypeOK
  <2>2. QED
    BY <1>1, <1>2, <1>3, <1>5, <2>1, RunsStay DEF AcceptRangeRefused
<1>6. CASE CloseRange
  <2>1. RangeTypeOK'
    BY <1>2, <1>6 DEF CloseRange, modalState, RangeInv, RangeTypeOK
  <2>2. QED
    BY <1>1, <1>2, <1>3, <1>6, <2>1, RunsStay DEF CloseRange
<1>7. CASE CloseRangeDeposit
  <2>1. RangeTypeOK'
    BY <1>2, <1>7 DEF CloseRangeDeposit, RangeInv, RangeTypeOK
  <2>2. rangeProps' \in [callToken : {"okb", "weth"}, router : BOOLEAN, complete : BOOLEAN,
                         connected : BOOLEAN]
    BY <1>1, <1>7 DEF CloseRangeDeposit
  <2>3. QED
    BY <1>2, <1>3, <1>7, <2>1, <2>2, RunsStay DEF CloseRangeDeposit
<1>8. CASE ExpireQuote
  <2>1. RangeTypeOK'
    BY <1>2, <1>8 DEF ExpireQuote, modalState, RangeInv, RangeTypeOK
  <2>2. QED
    BY <1>1, <1>2, <1>3, <1>8, <2>1, RunsStay DEF ExpireQuote
<1>9. QED
  BY <1>4, <1>5, <1>6, <1>7, <1>8

LEMMA FreshRunTyped ==
    ASSUME NEW b \in BOOLEAN
    PROVE  LET n == [FreshRangeRun EXCEPT !.pc = "read balances", !.sawSwap = b]
           IN  /\ n \in RangeRunType /\ n.pc = "read balances" /\ n.race = NoRace /\ n.put = FALSE
               /\ n.race.asks = <<>> /\ n.race.fire = "off"
<1>1. NoRace \in LegRaceType /\ NoRace.asks = <<>> /\ NoRace.fire = "off"
  <2>1. <<>> \in Seq(LegCallType)
    BY EmptySeq
  <2>2. QED
    BY <2>1 DEF NoRace, LegRaceType
<1>2. QED
  BY <1>1 DEF FreshRangeRun, RangeRunType, BeforeLegs

LEMMA HandleRangeStep ==
    ASSUME RangeInv, NEW r \in RangeRuns, HandleRange(r)
    PROVE  RangeInv'
<1> DEFINE n == [FreshRangeRun EXCEPT !.pc = "read balances", !.sawSwap = didSwap]
<1>1. /\ rangeRuns[r].pc = "none" /\ rangeRuns' = [rangeRuns EXCEPT ![r] = n]
      /\ rangeScreen = "modal" /\ "accept" \in RangeControls
      /\ rangeOverlapped' = (rangeOverlapped \/ \E q \in RangeRuns : RangeUnder(q))
      /\ UNCHANGED <<sent, held, approved, outside, rangeProps, rangeScreen, rangeStep, hashes, didSwap,
                     rangeDeposit, fresh, rangeRows, tags>>
  BY DEF HandleRange, chainVars
<1>2. /\ n \in RangeRunType /\ n.pc = "read balances" /\ n.put = FALSE
      /\ n.race.asks = <<>> /\ n.race.fire = "off"
  BY FreshRunTyped DEF RangeInv, RangeTypeOK
<1> HIDE DEF n
<1>3. /\ rangeRuns' \in [RangeRuns -> RangeRunType] /\ rangeRuns'[r] = n
      /\ \A q \in RangeRuns : q # r => rangeRuns'[q] = rangeRuns[q]
  BY <1>1, <1>2 DEF RangeInv, RangeTypes
<1>4. RangeTypeOK' /\ RangeTypes'
  BY <1>1, <1>3 DEF RangeInv, RangeTypeOK, RangeTypes
<1>5. MinedInOrder'
  <2>1. \A i \in DOMAIN sent : sent[i].by \in RangeRuns
    BY SentType
  <2>2. QED
    BY <1>1, <1>2, <1>3, <2>1 DEF RangeInv, MinedInOrder
<1>6. GroupsHaveOrders'
  BY <1>1, GroupsStay
<1>7. /\ SentPut' = SentPut /\ SentCall' = SentCall
      /\ \A q : PutBy(q)' = PutBy(q) /\ CallBy(q)' = CallBy(q)
  BY <1>1 DEF SentPut, SentCall, PutBy, CallBy
<1>8. \A q \in RangeRuns : /\ AsksForStep(rangeRuns[q], rangeRuns[q].race.asks)'
                           /\ HashesAreOrders(rangeRuns[q], q)'
  <2>1. ASSUME NEW q \in RangeRuns
        PROVE  /\ AsksForStep(rangeRuns'[q], rangeRuns'[q].race.asks)
               /\ HashesAreOrders(rangeRuns[q], q)'
    <3>1. CASE q = r
      BY <1>2, <1>3, <3>1, NothingAsked DEF HashesAreOrders
    <3>2. CASE q # r
      BY <1>3, <1>7, <3>2, RunTyped DEF HashesAreOrders
    <3>3. QED
      BY <3>1, <3>2
  <2>2. QED
    BY <2>1 DEF AsksForStep, MovesTokens, IsPut, IsCall
<1>9. ASSUME ~rangeOverlapped'
      PROVE  (OneRange /\ OneUpperSide /\ PutGoesFirst /\ SwapHoldsUp /\ PollsSeePuts /\ StepTold)'
  <2>1. /\ OneRange /\ OneUpperSide /\ PutGoesFirst /\ SwapHoldsUp /\ PollsSeePuts /\ StepTold
        /\ \A q \in RangeRuns : ~RangeUnder(q)
    BY <1>1, <1>9 DEF RangeInv
  <2>2. \A q \in RangeRuns : RangeUnder(q)' => q = r
    BY <1>2, <1>3, <2>1 DEF RangeUnder
  <2>3. rangeStep \notin {"swapping", "executing-put", "executing-call", "confirmed"}
    BY <1>1 DEF RangeControls, RangeLoading, Legs
  <2>4. OneRange'
    BY <1>1, <2>2 DEF OneRange
  <2>5. ~AsksCall(n) /\ rangeScreen # "accepted"
    BY <1>1, <1>2, NothingAsked
  <2>6. ~SentCall /\ \A q \in RangeRuns : ~AsksCall(rangeRuns[q])
    BY <2>1, <2>5 DEF OneUpperSide, RangeUnder
  <2>7. OneUpperSide'
    <3>1. \A q \in RangeRuns : ~AsksCall(rangeRuns'[q])
      BY <1>3, <2>5, <2>6
    <3>2. ~SentCall' /\ \A i \in DOMAIN sent : ~IsCall(sent[i])
      BY <1>7, <2>6 DEF SentCall
    <3>3. QED
      BY <1>1, <3>1, <3>2 DEF OneUpperSide
  <2>8. PutGoesFirst'
    BY <1>1, <1>2, <1>3, <1>7, <2>1 DEF PutGoesFirst, AfterPut
  <2>9. SwapHoldsUp'
    <3>1. \A i \in DOMAIN sent : sent[i].call = "swap" => sent[i].status # "pending"
      BY <1>1, <2>1, <2>3, SentType DEF SwapHoldsUp, RangeUnder
    <3>2. QED
      BY <1>1, <3>1 DEF SwapHoldsUp
  <2>10. PollsSeePuts'
    BY <1>1, <1>2, <1>3, <1>7, <2>1 DEF PollsSeePuts
  <2>11. StepTold'
    <3>1. rangeStep' \in StepOf("read balances")
      BY <1>4 DEF RangeTypeOK, StepOf, RangeSteps, AfterPut
    <3>2. QED
      BY <1>2, <1>3, <2>2, <3>1 DEF StepTold
  <2>12. QED
    BY <2>4, <2>7, <2>8, <2>9, <2>10, <2>11
<1>10. QED
  BY <1>4, <1>5, <1>6, <1>8, <1>9 DEF RangeInv

-----------------------------------------------------------------------------
(* A prompt that is signed.                                                 *)

\* What is sent when the call in front is signed.
SentBy(r, c) == [by |-> r, call |-> c.call, token |-> c.token, amount |-> c.amount,
                 status |-> "pending"]

\* The prompts left when the one in front was signed.
LeavesAsked(s, t) ==
    /\ t \in Seq(LegCallType) /\ Len(t) = Len(s) - 1 /\ Len(s) \in Nat \ {0}
    /\ \A i \in 1..Len(t) : i + 1 \in 1..Len(s) /\ t[i] = s[i + 1]
    /\ Head(s) = s[1] /\ Head(s) \in LegCallType

LEMMA FrontSigned ==
    ASSUME NEW s \in Seq(LegCallType), s # <<>>
    PROVE  LeavesAsked(s, Tail(s))
<1>1. Len(s) \in Nat /\ Len(s) # 0
  BY EmptySeq
<1>2. /\ Head(s) = s[1] /\ Tail(s) \in Seq(LegCallType) /\ Len(Tail(s)) = Len(s) - 1
      /\ \A i \in 1..Len(Tail(s)) : Tail(s)[i] = s[i + 1]
  BY HeadTailProperties
<1>3. s[1] \in LegCallType
  BY <1>1
<1>4. QED
  BY <1>1, <1>2, <1>3 DEF LeavesAsked

LEMMA SignedRun ==
    ASSUME RangeInv, NEW r \in RangeRuns, rangeRuns[r].race.asks # <<>>,
           NEW race, race = SignedRace(rangeRuns[r].race),
           NEW n, n = [rangeRuns[r] EXCEPT !.race = race]
    PROVE  /\ n \in RangeRunType /\ n.pc = rangeRuns[r].pc /\ n.put = rangeRuns[r].put /\ n.race = race
           /\ race.before = rangeRuns[r].race.before /\ race.poll = rangeRuns[r].race.poll
           /\ race.fire = IF rangeRuns[r].race.fire = "asking" /\ Len(rangeRuns[r].race.asks) = 1
                          THEN "hash" ELSE rangeRuns[r].race.fire
           /\ LeavesAsked(rangeRuns[r].race.asks, race.asks)
<1>1. rangeRuns[r].race \in LegRaceType /\ rangeRuns[r].race.asks \in Seq(LegCallType)
  BY RunTyped
<1>2. LeavesAsked(rangeRuns[r].race.asks, Tail(rangeRuns[r].race.asks))
  BY <1>1, FrontSigned
<1>3. Tail(rangeRuns[r].race.asks) \in Seq(LegCallType)
  BY <1>2 DEF LeavesAsked
<1>4. /\ race \in LegRaceType /\ race.asks = Tail(rangeRuns[r].race.asks)
      /\ race.before = rangeRuns[r].race.before /\ race.poll = rangeRuns[r].race.poll
      /\ race.fire = IF rangeRuns[r].race.fire = "asking" /\ Len(rangeRuns[r].race.asks) = 1
                     THEN "hash" ELSE rangeRuns[r].race.fire
  BY <1>1, <1>3 DEF SignedRace, LegRaceType
<1>5. n \in RangeRunType /\ n.pc = rangeRuns[r].pc /\ n.put = rangeRuns[r].put /\ n.race = race
  BY <1>4, RunTyped DEF RangeRunType
<1>6. QED
  BY <1>2, <1>4, <1>5

\* What signing does to the order of the prompts.
LEMMA SignedInStep ==
    ASSUME RangeInv, NEW r \in RangeRuns, rangeRuns[r].race.asks # <<>>,
           NEW n, n = [rangeRuns[r] EXCEPT !.race = SignedRace(rangeRuns[r].race)],
           NEW c, c = Head(rangeRuns[r].race.asks)
    PROVE  /\ AsksForStep(n, n.race.asks) /\ MovesTokens(c) /\ c \in LegCallType
           /\ AsksCall(n) => AsksCall(rangeRuns[r])
           /\ IsCall(c) => AsksCall(rangeRuns[r]) /\ ~AsksCall(n)
           /\ IsCall(c) => rangeRuns[r].pc \in {"race call", "ended"}
           /\ IsCall(c) /\ rangeRuns[r].pc = "race call" => n.race.fire = "hash"
           /\ rangeRuns[r].pc \in {"race put", "race call"} => rangeRuns[r].race.fire = "asking"
           /\ n.pc = "race put" /\ n.race.fire = "hash" => IsPut(c)
           /\ n.pc = "race call" /\ n.race.fire = "hash" => IsCall(c)
           /\ c.call = "swap" => n.pc = "swap" /\ n.race.asks = <<>>
<1> DEFINE race == SignedRace(rangeRuns[r].race)
           s == rangeRuns[r].race.asks
           t == race.asks
<1>1. /\ n.pc = rangeRuns[r].pc /\ n.race = race /\ AsksForStep(rangeRuns[r], s)
      /\ race.fire = IF rangeRuns[r].race.fire = "asking" /\ Len(s) = 1
                     THEN "hash" ELSE rangeRuns[r].race.fire
      /\ LeavesAsked(s, t)
  BY RunTyped, SignedRun
<1>2. /\ t \in Seq(LegCallType) /\ Len(t) = Len(s) - 1 /\ Len(s) \in Nat \ {0} /\ c = s[1]
      /\ c \in LegCallType /\ \A i \in 1..Len(t) : i + 1 \in 1..Len(s) /\ t[i] = s[i + 1]
  BY <1>1 DEF LeavesAsked
<1>3. s # <<>> /\ AsksCall(rangeRuns[r]) = \E i \in 1..Len(s) : IsCall(s[i])
  BY DEF AsksCall
<1>4. n.race.asks = t /\ AsksCall(n) = \E i \in 1..Len(t) : IsCall(t[i])
  BY <1>1 DEF AsksCall
<1> HIDE DEF race, s, t
<1>5. Len(s) = 1 => t = <<>>
  BY <1>2, EmptySeq
<1>6. /\ MovesTokens(c) /\ (c.call = "swap" => n.pc = "swap" /\ Len(s) = 1)
      /\ IsCall(c) => n.pc \in {"race call", "ended"} /\ Len(s) = 1
      /\ n.pc \in {"race put", "race call"} => rangeRuns[r].race.fire = "asking"
      /\ n.pc = "race put" /\ Len(s) = 1 => IsPut(c)
      /\ n.pc = "race call" /\ Len(s) = 1 => IsCall(c)
  <2>1. 1 \in 1..Len(s) /\ (1 = Len(s) <=> Len(s) = 1)
    BY <1>2
  <2>2. AsksForStep(rangeRuns[r], s)
    BY <1>1
  <2>3. /\ MovesTokens(s[1])
        /\ s[1].call = "swap" => rangeRuns[r].pc = "swap" /\ Len(s) = 1
        /\ IsCall(s[1]) => rangeRuns[r].pc \in {"race call", "ended"} /\ Len(s) = 1
        /\ rangeRuns[r].pc \in {"race put", "race call"} => rangeRuns[r].race.fire = "asking"
        /\ rangeRuns[r].pc = "race put" /\ Len(s) = 1 => IsPut(s[1])
        /\ rangeRuns[r].pc = "race call" /\ Len(s) = 1 => IsCall(s[1])
    BY <1>3, <2>1, <2>2 DEF AsksForStep
  <2>4. QED
    BY <1>1, <1>2, <2>3
<1>7. AsksForStep(n, t)
  <2>1. t # <<>> => Len(s) # 1
    BY <1>5
  <2>2. t # <<>> => n.race.fire = rangeRuns[r].race.fire
    BY <1>1, <2>1
  <2>3. t # <<>> => n.pc \notin BeforeLegs
    BY <1>1, <1>3 DEF AsksForStep
  <2>4. ASSUME NEW i \in 1..Len(t)
        PROVE  /\ MovesTokens(t[i])
               /\ t[i].call = "swap" => n.pc = "swap" /\ i = Len(t)
               /\ n.pc = "race put" /\ i = Len(t) => IsPut(t[i])
               /\ n.pc = "race call" /\ i = Len(t) => IsCall(t[i])
               /\ IsCall(t[i]) => n.pc \in {"race call", "ended"} /\ i = Len(t)
    <3>1. i + 1 \in 1..Len(s) /\ t[i] = s[i + 1] /\ (i + 1 = Len(s) <=> i = Len(t))
      BY <1>2
    <3>2. QED
      BY <1>1, <3>1 DEF AsksForStep
  <2>5. QED
    BY <1>6, <2>2, <2>3, <2>4 DEF AsksForStep
<1>8. AsksCall(n) => AsksCall(rangeRuns[r])
  BY <1>2, <1>3, <1>4
<1>9. IsCall(c) => AsksCall(rangeRuns[r]) /\ ~AsksCall(n)
  <2>1. 1 \in 1..Len(s)
    BY <1>2
  <2>2. Len(s) = 1 => ~AsksCall(n)
    BY <1>4, <1>5, <1>2
  <2>3. QED
    BY <1>2, <1>3, <1>6, <2>1, <2>2
<1>10. /\ n.pc = "race put" /\ n.race.fire = "hash" => IsPut(c)
       /\ n.pc = "race call" /\ n.race.fire = "hash" => IsCall(c)
  BY <1>1, <1>6
<1>11. QED
  BY <1>1, <1>2, <1>4, <1>5, <1>6, <1>7, <1>8, <1>9, <1>10

\* The account's transactions when one more was sent.
SendsMore(tx) ==
    /\ sent' \in Seq(LegTxType) /\ Len(sent) \in Nat
    /\ DOMAIN sent = 1..Len(sent) /\ DOMAIN sent' = 1..(Len(sent) + 1)
    /\ sent'[Len(sent) + 1] = tx
    /\ \A i \in DOMAIN sent : sent'[i] = sent[i]
    /\ \A i \in DOMAIN sent' : i \in DOMAIN sent \/ i = Len(sent) + 1

LEMMA SentMore ==
    ASSUME RangeInv, NEW tx \in LegTxType, sent' = Append(sent, tx)
    PROVE  SendsMore(tx)
<1>1. sent \in Seq(LegTxType) /\ Len(sent) \in Nat /\ DOMAIN sent = 1..Len(sent)
  BY DEF RangeInv, RangeTypes
<1>2. /\ sent' \in Seq(LegTxType) /\ Len(sent') = Len(sent) + 1
      /\ \A i \in 1..Len(sent) : sent'[i] = sent[i]
      /\ sent'[Len(sent) + 1] = tx
  BY <1>1, AppendProperties
<1>3. DOMAIN sent' = 1..(Len(sent) + 1)
  BY <1>2
<1>4. QED
  BY <1>1, <1>2, <1>3 DEF SendsMore

LEMMA SentIsKept ==
    ASSUME NEW r, NEW c, SendsMore(SentBy(r, c))
    PROVE  /\ \A q : (PutBy(q) => PutBy(q)') /\ (CallBy(q) => CallBy(q)')
           /\ SentPut => SentPut'
           /\ IsPut(c) => PutBy(r)' /\ SentPut'
           /\ IsCall(c) => CallBy(r)' /\ SentCall'
           /\ ~IsCall(c) => SentCall' = SentCall
<1> DEFINE tx == SentBy(r, c)
<1>1. tx.by = r /\ (IsPut(tx) <=> IsPut(c)) /\ (IsCall(tx) <=> IsCall(c))
  BY DEF SentBy, IsPut, IsCall
<1> HIDE DEF tx
<1>2. /\ Len(sent) + 1 \in DOMAIN sent' /\ sent'[Len(sent) + 1] = tx
      /\ \A i \in DOMAIN sent : i \in DOMAIN sent' /\ sent'[i] = sent[i]
      /\ \A i \in DOMAIN sent' : i \in DOMAIN sent \/ i = Len(sent) + 1
  BY DEF SendsMore, tx
<1>3. \A q : (PutBy(q) => PutBy(q)') /\ (CallBy(q) => CallBy(q)')
  BY <1>2 DEF PutBy, CallBy, IsPut, IsCall
<1>4. SentPut => SentPut'
  BY <1>2 DEF SentPut, IsPut
<1>5. IsPut(c) => PutBy(r)' /\ SentPut'
  BY <1>1, <1>2 DEF PutBy, SentPut, IsPut
<1>6. IsCall(c) => CallBy(r)' /\ SentCall'
  BY <1>1, <1>2 DEF CallBy, SentCall, IsCall
<1>7. ~IsCall(c) => SentCall' = SentCall
  BY <1>1, <1>2 DEF SentCall, IsCall
<1>8. QED
  BY <1>3, <1>4, <1>5, <1>6, <1>7

LEMMA SignRangeStep ==
    ASSUME RangeInv, NEW r \in RangeRuns, SignRange(r)
    PROVE  RangeInv'
<1>0. PICK c : c = Head(rangeRuns[r].race.asks)
  OBVIOUS
<1>1. PICK n : n = [rangeRuns[r] EXCEPT !.race = SignedRace(rangeRuns[r].race)]
  OBVIOUS
<1>2. /\ rangeRuns[r].race.asks # <<>> /\ rangeRuns' = [rangeRuns EXCEPT ![r] = n]
      /\ sent' = Append(sent, SentBy(r, c))
      /\ UNCHANGED <<held, approved, outside, rangeProps, rangeScreen, rangeStep, hashes, didSwap,
                     rangeDeposit, fresh, rangeRows, tags, rangeOverlapped>>
  BY <1>0, <1>1 DEF SignRange, Submit, SentBy, modalState
<1>3. /\ n \in RangeRunType /\ n.pc = rangeRuns[r].pc /\ n.put = rangeRuns[r].put
      /\ n.race.before = rangeRuns[r].race.before /\ n.race.poll = rangeRuns[r].race.poll
      /\ n.race.fire = "hash" \/ n.race.fire = rangeRuns[r].race.fire
  BY <1>1, <1>2, SignedRun
<1>4. /\ AsksForStep(n, n.race.asks) /\ MovesTokens(c) /\ c \in LegCallType
      /\ AsksCall(n) => AsksCall(rangeRuns[r])
      /\ IsCall(c) => AsksCall(rangeRuns[r]) /\ ~AsksCall(n)
      /\ IsCall(c) => rangeRuns[r].pc \in {"race call", "ended"}
      /\ IsCall(c) /\ rangeRuns[r].pc = "race call" => n.race.fire = "hash"
      /\ rangeRuns[r].pc \in {"race put", "race call"} => rangeRuns[r].race.fire = "asking"
      /\ n.pc = "race put" /\ n.race.fire = "hash" => IsPut(c)
      /\ n.pc = "race call" /\ n.race.fire = "hash" => IsCall(c)
      /\ c.call = "swap" => n.pc = "swap" /\ n.race.asks = <<>>
  BY <1>0, <1>1, <1>2, SignedInStep
<1>5. rangeRuns[r].pc \notin BeforeLegs
  BY <1>2, NothingAskedYet
<1>6. PICK tx : tx = SentBy(r, c)
  OBVIOUS
<1>7. /\ tx \in LegTxType /\ tx.by = r /\ tx.status = "pending" /\ MovesTokens(tx)
      /\ (IsCall(tx) <=> IsCall(c)) /\ (tx.call = "swap" <=> c.call = "swap")
  BY <1>4, <1>6 DEF SentBy, LegTxType, LegCallType, MovesTokens, IsCall
<1>8. SendsMore(tx)
  BY <1>2, <1>6, <1>7, SentMore
<1>9. /\ \A q : (PutBy(q) => PutBy(q)') /\ (CallBy(q) => CallBy(q)')
      /\ SentPut => SentPut'
      /\ IsPut(c) => PutBy(r)' /\ SentPut'
      /\ IsCall(c) => CallBy(r)' /\ SentCall'
      /\ ~IsCall(c) => SentCall' = SentCall
  BY <1>6, <1>8, SentIsKept
<1>10. /\ rangeRuns' \in [RangeRuns -> RangeRunType] /\ rangeRuns'[r] = n
       /\ \A q \in RangeRuns : q # r => rangeRuns'[q] = rangeRuns[q]
       /\ \A q \in RangeRuns : rangeRuns'[q].pc = rangeRuns[q].pc
       /\ \A q \in RangeRuns : RangeUnder(q)' = RangeUnder(q)
  BY <1>2, <1>3 DEF RangeInv, RangeTypes, RangeUnder
<1>11. /\ sent' \in Seq(LegTxType) /\ Len(sent) \in Nat
       /\ DOMAIN sent = 1..Len(sent) /\ Len(sent) + 1 \in DOMAIN sent' /\ sent'[Len(sent) + 1] = tx
       /\ \A i \in DOMAIN sent : i \in DOMAIN sent' /\ sent'[i] = sent[i] /\ i < Len(sent) + 1
       /\ \A i \in DOMAIN sent' : i \in DOMAIN sent \/ i = Len(sent) + 1
  BY <1>8 DEF SendsMore
<1>12. RangeTypeOK'
  BY <1>2 DEF RangeInv, RangeTypeOK
<1>13. RangeTypes'
  <2>1. \A i \in DOMAIN sent' : MovesTokens(sent'[i])
    BY <1>7, <1>11 DEF RangeInv, RangeTypes
  <2>2. QED
    BY <1>2, <1>10, <1>11, <2>1 DEF RangeInv, RangeTypes, MovesTokens
<1>14. MinedInOrder'
  <2>1. \A i, j \in DOMAIN sent' :
            i < j /\ sent'[j].status # "pending" => sent'[i].status # "pending"
    <3>1. SUFFICES ASSUME NEW i \in DOMAIN sent', NEW j \in DOMAIN sent', i < j,
                          sent'[j].status # "pending"
                   PROVE  sent'[i].status # "pending"
      OBVIOUS
    <3>2. j \in DOMAIN sent /\ j < Len(sent) + 1
      BY <1>7, <1>11, <3>1
    <3>3. i \in DOMAIN sent
      BY <1>11, <3>1, <3>2
    <3>4. QED
      BY <1>11, <3>1, <3>2, <3>3 DEF RangeInv, MinedInOrder
  <2>2. \A i \in DOMAIN sent' : rangeRuns'[sent'[i].by].pc # "none"
    <3>1. rangeRuns'[r].pc # "none"
      BY <1>5, <1>10 DEF BeforeLegs
    <3>2. ASSUME NEW i \in DOMAIN sent
          PROVE  rangeRuns'[sent[i].by].pc # "none"
      BY <1>10, SentType DEF RangeInv, MinedInOrder
    <3>3. QED
      BY <1>7, <1>11, <3>1, <3>2
  <2>3. rangeStep' # "idle" => \E q \in RangeRuns : rangeRuns'[q].pc # "none"
    BY <1>2, <1>10 DEF RangeInv, MinedInOrder
  <2>4. QED
    BY <2>1, <2>2, <2>3 DEF MinedInOrder
<1>15. GroupsHaveOrders'
  BY <1>2, <1>9 DEF RangeInv, GroupsHaveOrders
<1>16. \A q \in RangeRuns : /\ AsksForStep(rangeRuns[q], rangeRuns[q].race.asks)'
                            /\ HashesAreOrders(rangeRuns[q], q)'
  <2>1. ASSUME NEW q \in RangeRuns
        PROVE  /\ AsksForStep(rangeRuns'[q], rangeRuns'[q].race.asks)
               /\ HashesAreOrders(rangeRuns[q], q)'
    <3>1. HashesAreOrders(rangeRuns[q], q) /\ AsksForStep(rangeRuns[q], rangeRuns[q].race.asks)
      BY RunTyped
    <3>2. CASE q = r
      BY <1>3, <1>4, <1>9, <1>10, <3>1, <3>2 DEF HashesAreOrders
    <3>3. CASE q # r
      BY <1>9, <1>10, <3>1, <3>3 DEF HashesAreOrders
    <3>4. QED
      BY <3>2, <3>3
  <2>2. QED
    BY <2>1 DEF AsksForStep, MovesTokens, IsPut, IsCall
<1>17. ASSUME ~rangeOverlapped
       PROVE  (OneRange /\ OneUpperSide /\ PutGoesFirst /\ SwapHoldsUp /\ PollsSeePuts /\ StepTold)'
  <2>1. OneRange /\ OneUpperSide /\ PutGoesFirst /\ SwapHoldsUp /\ PollsSeePuts /\ StepTold
    BY <1>17 DEF RangeInv
  <2>2. OneRange'
    BY <1>2, <1>9, <1>10, <2>1 DEF OneRange
  <2>3. OneUpperSide'
    <3>1. \A i, j \in DOMAIN sent' : IsCall(sent'[i]) /\ IsCall(sent'[j]) => i = j
      <4>1. CASE IsCall(tx)
        <5>1. ~SentCall
          BY <1>4, <1>7, <2>1, <4>1 DEF OneUpperSide
        <5>2. QED
          BY <1>11, <5>1 DEF SentCall
      <4>2. CASE ~IsCall(tx)
        BY <1>11, <2>1, <4>2 DEF OneUpperSide
      <4>3. QED
        BY <4>1, <4>2
    <3>2. \A q \in RangeRuns : AsksCall(rangeRuns'[q]) => AsksCall(rangeRuns[q])
      BY <1>4, <1>10
    <3>3. SentCall' => \A q \in RangeRuns : ~AsksCall(rangeRuns'[q])
      <4>1. CASE IsCall(c)
        BY <1>4, <1>10, <2>1, <3>2, <4>1 DEF OneUpperSide
      <4>2. CASE ~IsCall(c)
        BY <1>9, <2>1, <3>2, <4>2 DEF OneUpperSide
      <4>3. QED
        BY <4>1, <4>2
    <3>4. SentCall' => \/ rangeScreen' = "accepted"
                       \/ \E q \in RangeRuns : rangeRuns'[q].pc = "race call"
                                               /\ rangeRuns'[q].race.fire = "hash"
      <4>1. CASE IsCall(c)
        BY <1>2, <1>4, <1>10, <2>1, <4>1 DEF OneUpperSide
      <4>2. CASE ~IsCall(c)
        BY <1>2, <1>4, <1>9, <1>10, <2>1, <4>2 DEF OneUpperSide
      <4>3. QED
        BY <4>1, <4>2
    <3>5. /\ \A p, q \in RangeRuns : AsksCall(rangeRuns'[p]) /\ AsksCall(rangeRuns'[q]) => p = q
          /\ \A q \in RangeRuns : AsksCall(rangeRuns'[q]) =>
                 rangeRuns'[q].pc = "race call" \/ rangeScreen' = "accepted"
      BY <1>2, <1>10, <2>1, <3>2 DEF OneUpperSide
    <3>6. QED
      BY <3>1, <3>3, <3>4, <3>5 DEF OneUpperSide, IsCall, AsksCall
  <2>4. PutGoesFirst'
    <3>1. \A i \in DOMAIN sent' : IsCall(sent'[i]) => \E j \in DOMAIN sent' : j < i /\ IsPut(sent'[j])
      <4>1. CASE IsCall(tx)
        <5>1. SentPut
          BY <1>4, <1>7, <2>1, <4>1 DEF OneUpperSide, OneRange, PutGoesFirst, AfterPut
        <5>2. \E j \in DOMAIN sent' : j < Len(sent) + 1 /\ IsPut(sent'[j])
          BY <1>11, <5>1 DEF SentPut
        <5>3. QED
          BY <1>11, <2>1, <5>2 DEF PutGoesFirst
      <4>2. CASE ~IsCall(tx)
        BY <1>11, <2>1, <4>2 DEF PutGoesFirst
      <4>3. QED
        BY <4>1, <4>2
    <3>2. /\ \A q \in RangeRuns : rangeRuns'[q].pc \in AfterPut => SentPut'
          /\ rangeScreen' = "modal" /\ rangeStep' = "partial-put-only" => SentPut'
      BY <1>2, <1>9, <1>10, <2>1 DEF PutGoesFirst
    <3>3. QED
      BY <3>1, <3>2 DEF PutGoesFirst, IsPut, IsCall
  <2>5. SwapHoldsUp'
    <3>1. SUFFICES ASSUME NEW i \in DOMAIN sent', sent'[i].call = "swap", sent'[i].status = "pending"
                   PROVE  \/ rangeRuns'[sent'[i].by].pc = "swap" /\ rangeRuns'[sent'[i].by].race.asks = <<>>
                          \/ /\ \A q \in RangeRuns : ~RangeUnder(q)'
                             /\ rangeScreen' # "modal" \/ rangeStep' = "swapping"
      BY DEF SwapHoldsUp
    <3>2. CASE i \in DOMAIN sent
      <4>1. sent'[i] = sent[i] /\ sent[i].by \in RangeRuns
        BY <1>11, <3>2, SentType
      <4>2. CASE rangeRuns[sent[i].by].pc = "swap" /\ rangeRuns[sent[i].by].race.asks = <<>>
        BY <1>2, <1>10, <4>1, <4>2
      <4>3. CASE /\ \A q \in RangeRuns : ~RangeUnder(q)
                 /\ rangeScreen # "modal" \/ rangeStep = "swapping"
        BY <1>2, <1>10, <4>3
      <4>4. QED
        BY <2>1, <3>1, <3>2, <4>1, <4>2, <4>3 DEF SwapHoldsUp
    <3>3. CASE i = Len(sent) + 1
      BY <1>4, <1>7, <1>10, <1>11, <3>1, <3>3
    <3>4. QED
      BY <1>11, <3>2, <3>3
  <2>6. PollsSeePuts'
    BY <1>2, <1>3, <1>9, <1>10, <2>1 DEF PollsSeePuts
  <2>7. StepTold'
    BY <1>2, <1>10, <2>1 DEF StepTold
  <2>8. QED
    BY <2>2, <2>3, <2>4, <2>5, <2>6, <2>7
<1>18. QED
  BY <1>2, <1>12, <1>13, <1>14, <1>15, <1>16, <1>17 DEF RangeInv

-----------------------------------------------------------------------------
(* A transaction is mined.                                                  *)

LEMMA BalancesAfter ==
    ASSUME held \in [Tokens -> Nat], NEW tx \in LegTxType, MovesTokens(tx), Covered(tx)
    PROVE  /\ AfterTx(tx) \in [Tokens -> Nat]
           /\ tx.call \in {"approve", "wrap"} \/ IsCall(tx) => AfterTx(tx)["usdc"] = held["usdc"]
<1>1. /\ tx.amount \in Nat /\ tx.call \in {"approve", "order", "swap", "wrap"}
      /\ \A t \in Tokens : held[t] \in Nat
  BY DEF LegTxType
<1> DEFINE m == tx.amount
<1>2. CASE tx.call = "approve"
  BY <1>2 DEF AfterTx
<1>3. CASE tx.call = "wrap"
  <2>1. AfterTx(tx) = [held EXCEPT !["native"] = @ - m, !["weth"] = @ + m] /\ held["native"] >= m
    BY <1>3 DEF AfterTx, Covered
  <2>2. held["native"] - m \in Nat /\ held["weth"] + m \in Nat
    BY <1>1, <2>1 DEF Tokens
  <2>3. QED
    BY <1>1, <2>1, <2>2 DEF Tokens
<1>4. CASE tx.call = "swap"
  <2>1. AfterTx(tx) = [held EXCEPT !["usdc"] = @ - m, ![tx.token] = @ + m] /\ held["usdc"] >= m
        /\ tx.token \in Tokens
    BY <1>4 DEF AfterTx, Covered, MovesTokens
  <2>2. held["usdc"] - m \in Nat /\ held[tx.token] + m \in Nat /\ held["usdc"] - m + m \in Nat
    BY <1>1, <2>1 DEF Tokens
  <2>3. QED
    BY <1>4, <2>1, <2>2 DEF IsCall, Tokens
<1>5. CASE tx.call = "order"
  <2>1. AfterTx(tx) = [held EXCEPT ![tx.token] = @ - m] /\ held[tx.token] >= m /\ tx.token \in Tokens
    BY <1>5 DEF AfterTx, Covered, MovesTokens
  <2>2. held[tx.token] - m \in Nat
    BY <1>1, <2>1
  <2>3. QED
    BY <1>5, <2>1, <2>2 DEF IsCall, Tokens
<1>6. QED
  BY <1>1, <1>2, <1>3, <1>4, <1>5

\* What is mined before a lower side was sent leaves the USDC alone.
LEMMA NoPutMined ==
    ASSUME RangeInv, ~rangeOverlapped, ~SentPut, NEW i \in DOMAIN sent, sent[i].status = "pending",
           NEW r \in RangeRuns, rangeRuns[r].pc = "race put"
    PROVE  sent[i].call \in {"approve", "wrap"} \/ IsCall(sent[i])
<1>1. sent[i] \in LegTxType /\ ~IsPut(sent[i])
  BY SentType DEF SentPut
<1>2. RangeUnder(r)
  BY DEF RangeUnder
<1>3. sent[i].call # "swap"
  BY <1>2, SentType DEF RangeInv, SwapHoldsUp, OneRange, RangeUnder
<1>4. QED
  BY <1>1, <1>3 DEF LegTxType, IsPut, IsCall

LEMMA RangeMineStep ==
    ASSUME RangeInv, Mine, UNCHANGED rangeVars
    PROVE  RangeInv'
<1>1. PICK i \in DOMAIN sent :
          /\ sent[i].status = "pending" /\ \A j \in 1..i-1 : sent[j].status # "pending"
          /\ \E status \in {"landed", "reverted"} : sent' = [sent EXCEPT ![i].status = status]
          /\ (Covered(sent[i]) /\ held' = AfterTx(sent[i])) \/ UNCHANGED held
          /\ UNCHANGED outside
  BY DEF Mine
<1>2. PICK status \in {"landed", "reverted"} : sent' = [sent EXCEPT ![i].status = status]
  BY <1>1
<1>3. /\ sent \in Seq(LegTxType) /\ Len(sent) \in Nat /\ DOMAIN sent = 1..Len(sent)
      /\ sent[i] \in LegTxType /\ MovesTokens(sent[i])
  BY SentType DEF RangeInv, RangeTypes
<1>4. /\ sent' \in Seq(LegTxType) /\ DOMAIN sent' = DOMAIN sent
      /\ \A j \in DOMAIN sent : /\ sent'[j].by = sent[j].by /\ sent'[j].call = sent[j].call
                                /\ sent'[j].token = sent[j].token
                                /\ j # i => sent'[j] = sent[j]
      /\ sent'[i].status = status
  <2>1. PICK tx : tx = [sent[i] EXCEPT !.status = status]
    OBVIOUS
  <2>2. /\ tx \in LegTxType /\ tx.by = sent[i].by /\ tx.call = sent[i].call
        /\ tx.token = sent[i].token /\ tx.status = status
    BY <1>3, <2>1 DEF LegTxType
  <2>3. sent' = [sent EXCEPT ![i] = tx]
    BY <1>2, <2>1
  <2>4. sent' \in Seq(LegTxType) /\ DOMAIN sent' = DOMAIN sent
    BY <1>3, <2>2, <2>3
  <2>5. sent'[i] = tx /\ \A j \in DOMAIN sent : j # i => sent'[j] = sent[j]
    BY <1>3, <2>3
  <2>6. QED
    BY <2>2, <2>4, <2>5
<1>5. \A j \in DOMAIN sent : /\ IsPut(sent'[j]) <=> IsPut(sent[j])
                             /\ IsCall(sent'[j]) <=> IsCall(sent[j])
                             /\ MovesTokens(sent'[j]) <=> MovesTokens(sent[j])
                             /\ sent'[j].status = "pending" => sent[j].status = "pending"
  BY <1>2, <1>4 DEF IsPut, IsCall, MovesTokens
<1>6. UNCHANGED <<rangeProps, rangeScreen, rangeStep, hashes, rangeError, didSwap, rangeDeposit,
                  fresh, rangeRuns, rangeRows, tags, rangeOverlapped>>
  BY DEF rangeVars
<1>7. /\ SentPut' <=> SentPut
      /\ SentCall' <=> SentCall
      /\ \A q : /\ PutBy(q)' <=> PutBy(q)
                /\ CallBy(q)' <=> CallBy(q)
                /\ RangeUnder(q)' <=> RangeUnder(q)
  BY <1>4, <1>5, <1>6 DEF SentPut, SentCall, PutBy, CallBy, RangeUnder
<1>8. held' \in [Tokens -> Nat]
  BY <1>1, <1>3, BalancesAfter DEF RangeInv, RangeTypes
<1>9. RangeTypeOK' /\ RangeTypes'
  <2>1. \A j \in DOMAIN sent' : MovesTokens(sent'[j])
    BY <1>4, <1>5 DEF RangeInv, RangeTypes
  <2>2. QED
    BY <1>1, <1>4, <1>6, <1>8, <2>1 DEF RangeInv, RangeTypeOK, RangeTypes, MovesTokens
<1>10. MinedInOrder'
  <2>1. \A j, k \in DOMAIN sent :
            j < k /\ sent'[k].status # "pending" => sent'[j].status # "pending"
    <3>1. SUFFICES ASSUME NEW j \in DOMAIN sent, NEW k \in DOMAIN sent, j < k,
                          sent'[k].status # "pending", j # i
                   PROVE  sent'[j].status # "pending"
      BY <1>2, <1>4
    <3>2. CASE k = i
      BY <1>1, <1>3, <1>4, <3>1, <3>2
    <3>3. CASE k # i
      BY <1>4, <3>1, <3>3 DEF RangeInv, MinedInOrder
    <3>4. QED
      BY <3>2, <3>3
  <2>2. QED
    BY <1>4, <1>6, <2>1 DEF RangeInv, MinedInOrder
<1>11. GroupsHaveOrders'
  BY <1>6, <1>7 DEF RangeInv, GroupsHaveOrders
<1>12. \A q \in RangeRuns : /\ AsksForStep(rangeRuns[q], rangeRuns[q].race.asks)'
                            /\ HashesAreOrders(rangeRuns[q], q)'
  <2>1. SUFFICES ASSUME NEW q \in RangeRuns
                 PROVE  /\ AsksForStep(rangeRuns'[q], rangeRuns'[q].race.asks)
                        /\ HashesAreOrders(rangeRuns[q], q)'
    BY DEF AsksForStep, MovesTokens, IsPut, IsCall
  <2>2. AsksForStep(rangeRuns[q], rangeRuns[q].race.asks) /\ HashesAreOrders(rangeRuns[q], q)
    BY RunTyped
  <2>3. QED
    BY <1>6, <1>7, <2>2 DEF HashesAreOrders
<1>13. ASSUME ~rangeOverlapped
       PROVE  (OneRange /\ OneUpperSide /\ PutGoesFirst /\ SwapHoldsUp /\ PollsSeePuts /\ StepTold)'
  <2>1. OneRange /\ OneUpperSide /\ PutGoesFirst /\ SwapHoldsUp /\ PollsSeePuts /\ StepTold
    BY <1>13 DEF RangeInv
  <2>2. OneRange'
    BY <1>6, <1>7, <2>1 DEF OneRange
  <2>3. OneUpperSide'
    <3>1. \A j, k \in DOMAIN sent' : IsCall(sent'[j]) /\ IsCall(sent'[k]) => j = k
      BY <1>4, <1>5, <2>1 DEF OneUpperSide
    <3>2. QED
      BY <1>6, <1>7, <2>1, <3>1 DEF OneUpperSide, IsCall
  <2>4. PutGoesFirst'
    <3>1. \A j \in DOMAIN sent' : IsCall(sent'[j]) => \E k \in DOMAIN sent' : k < j /\ IsPut(sent'[k])
      BY <1>4, <1>5, <2>1 DEF PutGoesFirst
    <3>2. QED
      BY <1>6, <1>7, <2>1, <3>1 DEF PutGoesFirst, IsCall, IsPut
  <2>5. SwapHoldsUp'
    BY <1>4, <1>5, <1>6, <1>7, <2>1 DEF SwapHoldsUp
  <2>6. PollsSeePuts'
    <3>1. SUFFICES ASSUME ~SentPut, NEW r \in RangeRuns, rangeRuns[r].pc = "race put"
                   PROVE  held'["usdc"] = held["usdc"]
      BY <1>6, <1>7, <2>1 DEF PollsSeePuts
    <3>2. sent[i].call \in {"approve", "wrap"} \/ IsCall(sent[i])
      BY <1>1, <1>13, <3>1, NoPutMined
    <3>3. QED
      BY <1>1, <1>3, <3>2, BalancesAfter DEF RangeInv, RangeTypes
  <2>7. StepTold'
    BY <1>6, <1>7, <2>1 DEF StepTold
  <2>8. QED
    BY <2>2, <2>3, <2>4, <2>5, <2>6, <2>7
<1>14. QED
  BY <1>6, <1>9, <1>10, <1>11, <1>12, <1>13 DEF RangeInv

-----------------------------------------------------------------------------
(* The invariant.                                                           *)

LEMMA RangeProgressSteps ==
    ASSUME RangeInv, NEW r \in RangeRuns, RangeProgress(r)
    PROVE  RangeInv'
  BY RangeFailingSteps, ReadBalancesStep, ReadRouterStep, ReceiptSteps, TimeOutStep,
     ReadCallBalanceStep, PrepareStep, PollRangeStep, PutConfirmedStep, CallConfirmedStep, TagStep
     DEF RangeProgress

LEMMA RangeSameStep ==
    ASSUME RangeInv, UNCHANGED <<chainVars, rangeVars>>
    PROVE  RangeInv'
<1>1. SameRuns /\ UNCHANGED <<sent, tags, rangeProps, rangeScreen, rangeStep, hashes, didSwap,
                              rangeDeposit, fresh, rangeRows>>
  BY DEF SameRuns, chainVars, rangeVars
<1>2. RangeTypeOK' /\ GroupsHaveOrders'
  BY <1>1, GroupsStay DEF RangeInv, RangeTypeOK
<1>3. QED
  BY <1>1, <1>2, RunsStay DEF RangeInv, RangeTypes

LEMMA StepRange == RangeInv /\ [RangeNext]_<<chainVars, rangeVars>> => RangeInv'
<1> SUFFICES ASSUME RangeInv, [RangeNext]_<<chainVars, rangeVars>>
             PROVE  RangeInv'
  OBVIOUS
<1>1. CASE OpenRange \/ AcceptRangeRefused \/ CloseRange \/ CloseRangeDeposit \/ ExpireQuote
  BY <1>1, RangeDialogSteps
<1>2. CASE \E r \in RangeRuns : HandleRange(r) \/ SignRange(r) \/ RefuseRange(r) \/ RangeProgress(r)
  BY <1>2, HandleRangeStep, SignRangeStep, RefuseRangeStep, RangeProgressSteps
<1>3. CASE Mine /\ UNCHANGED rangeVars
  BY <1>3, RangeMineStep
<1>4. CASE UNCHANGED <<chainVars, rangeVars>>
  BY <1>4, RangeSameStep
<1>5. QED
  BY <1>1, <1>2, <1>3, <1>4 DEF RangeNext

LEMMA InitRange ==
    ASSUME sent = <<>>, outside = 0, held \in [Tokens -> Nat], RangeInit
    PROVE  RangeInv
<1>1. /\ FreshRangeRun \in RangeRunType /\ FreshRangeRun.pc = "none" /\ FreshRangeRun.put = FALSE
      /\ FreshRangeRun.race = NoRace /\ NoRace.asks = <<>> /\ NoRace.fire = "off"
  <2>1. NoRace \in LegRaceType /\ NoRace.asks = <<>> /\ NoRace.fire = "off"
    <3>1. <<>> \in Seq(LegCallType)
      BY EmptySeq
    <3>2. QED
      BY <3>1 DEF NoRace, LegRaceType
  <2>2. QED
    BY <2>1 DEF FreshRangeRun, RangeRunType, BeforeLegs
<1>2. \A r \in RangeRuns : rangeRuns[r] = FreshRangeRun
  BY DEF RangeInit
<1>3. sent = <<>> /\ sent \in Seq(LegTxType) /\ \A i \in DOMAIN sent : FALSE
  BY EmptySeq
<1>4. RangeTypeOK
  BY DEF RangeInit, RangeTypeOK, Legs
<1>5. RangeTypes
  BY <1>1, <1>3 DEF RangeTypes, RangeInit, NoRangeProps
<1>6. MinedInOrder /\ GroupsHaveOrders
  BY <1>3 DEF RangeInit, MinedInOrder, GroupsHaveOrders
<1>7. \A r \in RangeRuns : /\ AsksForStep(rangeRuns[r], rangeRuns[r].race.asks)
                           /\ HashesAreOrders(rangeRuns[r], r)
  BY <1>1, <1>2, NothingAsked DEF HashesAreOrders
<1>8. \A r \in RangeRuns : ~AsksCall(rangeRuns[r]) /\ ~RangeUnder(r)
  BY <1>1, <1>2, NothingAsked DEF RangeUnder
<1>9. ~SentPut /\ ~SentCall /\ rangeScreen = "menu" /\ rangeStep = "idle"
  BY <1>3 DEF SentPut, SentCall, RangeInit
<1>10. /\ OneRange /\ OneUpperSide /\ PutGoesFirst /\ SwapHoldsUp /\ PollsSeePuts /\ StepTold
  BY <1>1, <1>2, <1>3, <1>8, <1>9
     DEF OneRange, OneUpperSide, PutGoesFirst, SwapHoldsUp, PollsSeePuts, StepTold, AfterPut
<1>11. QED
  BY <1>4, <1>5, <1>6, <1>7, <1>10 DEF RangeInv

\* RangeInv holds whatever the user, the wallet and the nodes do.
THEOREM RangeInvariance == RangeSpec => []RangeInv
<1>1. AnyAccount /\ RangeInit => RangeInv
  BY InitRange DEF AnyAccount
<1>2. QED
  BY <1>1, StepRange, PTL DEF RangeSpec

\* Every variable of the dialog has its type: a deposit is asked for only of what
\* can be deposited.
THEOREM RangeTypeCorrect == RangeSpec => []RangeTypeOK
<1>1. RangeInv => RangeTypeOK
  BY DEF RangeInv
<1>2. QED
  BY <1>1, RangeInvariance, PTL

-----------------------------------------------------------------------------
(* The lower side is sent first.                                            *)

LEMMA SidesOfOrders ==
    ASSUME RangeInv, NEW i \in DOMAIN sent
    PROVE  /\ sent[i].call = "order" /\ sent[i].token = LegToken("call") => IsCall(sent[i])
           /\ sent[i].call = "order" /\ sent[i].token = LegToken("put") <=> IsPut(sent[i])
  BY DEF RangeInv, RangeTypes, LegToken, IsCall, IsPut

LEMMA CallsNeedPuts == RangeInv => CallNeedsPut
<1> SUFFICES ASSUME RangeInv, ~rangeOverlapped, NEW i \in DOMAIN sent
             PROVE  Cardinality({j \in 1..i : sent[j].call = "order"
                                              /\ sent[j].token = LegToken("call")})
                        <= Cardinality({j \in 1..i : sent[j].call = "order"
                                                     /\ sent[j].token = LegToken("put")})
  BY DEF CallNeedsPut, Undisturbed
<1> DEFINE calls == {j \in 1..i : sent[j].call = "order" /\ sent[j].token = LegToken("call")}
           puts == {j \in 1..i : sent[j].call = "order" /\ sent[j].token = LegToken("put")}
<1>1. /\ Len(sent) \in Nat /\ DOMAIN sent = 1..Len(sent) /\ i \in Nat
      /\ 1..i \subseteq DOMAIN sent
  BY DEF RangeInv, RangeTypes
<1>2. IsFiniteSet(1..i) /\ calls \subseteq 1..i /\ puts \subseteq 1..i
  <2>1. 1 \in Int /\ i \in Int
    BY <1>1
  <2>2. IsFiniteSet(1..i)
    BY <2>1, FS_Interval
  <2>3. QED
    BY <2>2
<1>3. IsFiniteSet(calls) /\ IsFiniteSet(puts)
  BY <1>2, FS_Subset
<1>4. Cardinality(puts) \in Nat
  BY <1>3, FS_CardinalityType
<1>5. CASE calls = {}
  <2>1. Cardinality(calls) = 0
    BY <1>5, FS_EmptySet
  <2> HIDE DEF calls, puts
  <2>2. Cardinality(calls) <= Cardinality(puts)
    BY <1>4, <2>1
  <2>3. QED
    BY <2>2 DEF calls, puts
<1>6. CASE calls # {}
  <2>1. PICK k \in calls : TRUE
    BY <1>6
  <2>2. k \in 1..i /\ k \in DOMAIN sent /\ IsCall(sent[k])
    BY <1>1, <2>1, SidesOfOrders
  <2>3. calls = {k}
    <3>1. \A j \in calls : j \in DOMAIN sent /\ IsCall(sent[j])
      BY <1>1, SidesOfOrders
    <3>2. \A j \in calls : j = k
      BY <2>2, <3>1 DEF RangeInv, OneUpperSide
    <3> HIDE DEF calls
    <3>3. QED
      BY <2>1, <3>2
  <2>4. PICK j \in DOMAIN sent : j < k /\ IsPut(sent[j])
    BY <2>2 DEF RangeInv, PutGoesFirst
  <2>5. j \in puts
    <3>1. j \in 1..i
      BY <1>1, <2>2, <2>4
    <3>2. QED
      BY <2>4, <3>1, SidesOfOrders
  <2>6. Cardinality(calls) = 1
    BY <2>3, FS_Singleton
  <2>7. Cardinality(puts) # 0
    BY <1>3, <2>5, FS_EmptySet
  <2> HIDE DEF calls, puts
  <2>8. Cardinality(calls) <= Cardinality(puts)
    BY <1>4, <2>6, <2>7
  <2>9. QED
    BY <2>8 DEF calls, puts
<1>7. QED
  BY <1>5, <1>6

LEMMA GroupsPair == RangeInv => GroupsArePairs
<1> SUFFICES ASSUME RangeInv, NEW r \in RangeRuns, tags[r] = "grouped"
             PROVE  Cardinality(OrdersSent(r)) >= 2
  BY DEF GroupsArePairs
<1>1. PutBy(r) /\ CallBy(r)
  BY DEF RangeInv, GroupsHaveOrders
<1>2. PICK i \in DOMAIN sent : IsPut(sent[i]) /\ sent[i].by = r
  BY <1>1 DEF PutBy
<1>3. PICK j \in DOMAIN sent : IsCall(sent[j]) /\ sent[j].by = r
  BY <1>1 DEF CallBy
<1>4. i # j /\ i \in OrdersSent(r) /\ j \in OrdersSent(r)
  BY <1>2, <1>3 DEF IsPut, IsCall, OrdersSent
<1>5. IsFiniteSet(OrdersSent(r))
  <2>1. Len(sent) \in Nat /\ DOMAIN sent = 1..Len(sent)
    BY DEF RangeInv, RangeTypes
  <2>2. IsFiniteSet(1..Len(sent))
    BY <2>1, FS_Interval
  <2>3. QED
    BY <2>1, <2>2, FS_Subset DEF OrdersSent
<1>6. /\ IsFiniteSet(OrdersSent(r) \ {i})
      /\ Cardinality(OrdersSent(r) \ {i}) = Cardinality(OrdersSent(r)) - 1
  BY <1>4, <1>5, FS_RemoveElement
<1>7. Cardinality(OrdersSent(r) \ {i}) # 0 /\ Cardinality(OrdersSent(r) \ {i}) \in Nat
  BY <1>4, <1>6, FS_EmptySet, FS_CardinalityType
<1>8. Cardinality(OrdersSent(r)) \in Nat
  BY <1>5, FS_CardinalityType
<1>9. QED
  BY <1>6, <1>7, <1>8

\* handleAccept of RangeAcceptModal: over any number of failures and retries, one
\* after the other, no more upper sides are sent than lower sides before them, whether
\* these land or not; and tagGroup groups only what one run sent both sides of.
THEOREM WholeRanges == RangeSpec => []RangesAreWhole
<1>1. RangeInv => RangesAreWhole
  BY CallsNeedPuts, GroupsPair DEF RangesAreWhole
<1>2. QED
  BY <1>1, RangeInvariance, PTL

LEMMA PartialTrue == RangeInv => PartialIsTrue
<1> SUFFICES ASSUME RangeInv, ~rangeOverlapped, rangeScreen = "modal",
                    rangeStep = "partial-put-only"
             PROVE  LegSent("put") /\ ~LegSent("call")
  BY DEF PartialIsTrue, Undisturbed
<1>1. LegSent("put")
  BY SidesOfOrders DEF RangeInv, PutGoesFirst, SentPut, LegSent
<1>2. LegSent("call") => SentCall
  BY SidesOfOrders DEF SentCall, LegSent
<1>3. \A r \in RangeRuns : rangeRuns[r].pc # "race call"
  BY DEF RangeInv, StepTold, StepOf, RangeUnder, AfterPut
<1>4. ~SentCall
  BY <1>3 DEF RangeInv, OneUpperSide
<1>5. QED
  BY <1>1, <1>2, <1>4

\* What the dialog says of a range that stopped half way is true: the lower side was
\* sent and no upper side was, by this run or an earlier one.
THEOREM PartialTold == RangeSpec => []PartialIsTrue
<1>1. RangeInv => PartialIsTrue
  BY PartialTrue
<1>2. QED
  BY <1>1, RangeInvariance, PTL
=============================================================================
