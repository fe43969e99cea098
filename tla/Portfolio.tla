------------------------------ MODULE Portfolio ------------------------------
(***************************************************************************)
(* The positions page: the user's orders from the moment they are sent, as a *)
(* pending entry of the browser session and then as a row of the backend,    *)
(* through polling, grouping into ranges, settlement and the numbers drawn   *)
(* from them.                                                              *)
(***************************************************************************)
EXTENDS Integers, FiniteSets, SequencesExt

CONSTANTS Placeable,   \* records [id, otoken, put, at, group, amount, strike, premium]
          Spots,       \* prices the asset may have, at expiry and on the page
          PairWindow,  \* PAIR_WINDOW_MS
          DefaultVisible,  \* DEFAULT_VISIBLE: rows the log shows unasked
          Since,       \* the first time each period of the chart covers
          MaxAnswers   \* bound: answers of the positions API under way at once

\* Rows have distinct ids, and a range the dialog asks to group has one order of each
\* side.
ASSUME PlaceableAssumption ==
    /\ IsFiniteSet(Placeable)
    /\ \A o, p \in Placeable :
           /\ o.id \in Nat /\ (o.id = p.id => o = p) /\ o.put \in BOOLEAN
           /\ {o.at, o.amount, o.strike, o.premium} \subseteq Nat
           /\ o.group = p.group /\ o.put = p.put => o = p \/ o.group = 0

ASSUME PageAssumption ==
    PairWindow \in Nat /\ Spots \subseteq Nat /\ \A p \in DOMAIN Since : Since[p] \in Nat

VARIABLES filed,         \* of each order: not sent, on chain, then its row's state
          tagged,       \* rows the backend has given the tag of their group
          closedTags,   \* groups nobody will ask it to tag again
          expiryPrice,  \* 0 before expiry
          saved, stored,  \* orders ever saved as pending; those the session still holds
          page, linked,   \* the page is mounted, a wallet connected
          waiting, known, knownTags,  \* usePositions: rows and tags of the last answer
          optimistic,   \* useOptimisticPositions' state
          answers       \* what the API answered and the page has not got yet

backendVars == <<filed, tagged, closedTags, expiryPrice>>
sessionVars == <<saved, stored>>
pageVars == <<page, linked, waiting, known, knownTags, optimistic, answers>>
portfolioVars == <<backendVars, sessionVars, pageVars>>

NoRows == [o \in Placeable |-> "none"]
\* Not said to have been in the money, and said so.
SettledStates == {"settled", "assigned"}

PortfolioInit ==
    /\ filed = NoRows /\ tagged = {} /\ closedTags = {} /\ expiryPrice = 0 /\ saved = {} /\ stored = {}
    /\ page = FALSE /\ linked = FALSE /\ waiting = TRUE /\ known = NoRows /\ knownTags = {}
    /\ optimistic = {} /\ answers = {}

----------------------------------------------------------------------------
(* The list.                                                                *)

HasRow(o) == known[o] # "none"
Real == {o \in Placeable : HasRow(o)}

\* A pending position gives way to any row of its oToken.
Confirming ==
    LET arrived == {r.otoken : r \in Real} IN {o \in optimistic : o.otoken \notin arrived}

Listing == Confirming \cup Real

Newer(o, p) == o.id > p.id

\* The order of the list: pending ones first, in the order they were saved; then the
\* rows, newest first.
Before(o, p) ==
    \/ ~HasRow(o) /\ HasRow(p)
    \/ ~HasRow(o) /\ ~HasRow(p) /\ Newer(p, o)
    \/ HasRow(o) /\ HasRow(p) /\ Newer(o, p)

First(list) == CHOOSE o \in list : \A p \in list \ {o} : Before(o, p)

Active == {o \in Listing : known[o] \notin SettledStates}
History == {o \in Listing : known[o] \in SettledStates}

GroupOfPending(o) == IF ~HasRow(o) THEN o.group ELSE 0

\* A pending leg carries its group, a row only once the backend has tagged it.
GroupOf(o) == IF ~HasRow(o) \/ o \in knownTags THEN o.group ELSE 0

LooksLikeLeg(o, other) ==
    /\ other.put # o.put
    /\ o.at - other.at \in -PairWindow .. PairWindow

Fits(o, list) == {other \in list \ {o} : LooksLikeLeg(o, other)}

\* A position with the first on the list that fits, or alone.
Partnered(o, list) == IF Fits(o, list) = {} THEN {o} ELSE {o, First(Fits(o, list))}

PairUpAgain(list) == {Partnered(o, list) : o \in list}

\* Each ungrouped position in turn takes the first unused one that fits.  One that
\* found none fits none of those after it, so only these are looked at.
PairUp(list) ==
    LET pairs[left \in SUBSET list] ==
            IF left = {} THEN {}
            ELSE {Partnered(First(left), left)} \cup pairs[left \ Partnered(First(left), left)]
    IN  pairs[list]

HasBothSides(item) == {o.put : o \in item} = BOOLEAN

\* Groups and pairs; a group with one side only is taken apart.
GroupPositions(list) ==
    LET groups == {{o \in list : GroupOf(o) = g} : g \in {GroupOf(o) : o \in list} \ {0}}
        ranges == {g \in groups : HasBothSides(g)} \cup PairUp({o \in list : GroupOf(o) = 0})
    IN  ranges \cup {{o} : o \in list \ UNION ranges}

ActiveItems == GroupPositions(Active)
HistoryItems == GroupPositions(History)

PageScreen ==
    CASE ~page -> "elsewhere"
      [] page /\ ~linked -> "connect"
      [] page /\ linked /\ ~waiting /\ Listing = {} -> "none yet"
      [] page /\ linked /\ waiting -> "loading"
      [] OTHER -> "positions"

----------------------------------------------------------------------------
(* What is drawn of a position.                                             *)

\* USDC for a put, the asset for a call.
Collateral(o) == IF o.put THEN o.amount * o.strike ELSE o.amount
CapitalUsd(o) == IF o.put THEN Collateral(o) ELSE Collateral(o) * o.strike

PutLeg(item) == CHOOSE o \in item : o.put
CallLeg(item) == CHOOSE o \in item : ~o.put

ActiveCard(o, spot) ==
    [committed |-> CapitalUsd(o), earned |-> o.premium, confirming |-> ~HasRow(o),
     now |-> IF o.put /\ spot < o.strike THEN "buying"
             ELSE IF ~o.put /\ spot > o.strike THEN "selling" ELSE "keeping"]

RangeCard(item, spot) ==
    LET put == PutLeg(item)  call == CallLeg(item)
    IN  [committed |-> CapitalUsd(put) + CapitalUsd(call), earned |-> put.premium + call.premium,
         confirming |-> \E o \in item : ~HasRow(o),
         now |-> IF spot > call.strike THEN "selling"
                 ELSE IF spot < put.strike THEN "buying" ELSE "keeping"]

\* The log says "Assigned" only of what the row calls in the money.
TradeRow(o) ==
    [outcome |-> IF known[o] = "assigned" THEN "Assigned" ELSE "Expired", earned |-> o.premium]

RangeTradeRowOfPut(item) ==
    [outcome |-> IF known[PutLeg(item)] = "assigned" THEN "Assigned" ELSE "Earned",
     earned |-> PutLeg(item).premium + CallLeg(item).premium]

RangeTradeRow(item) ==
    [outcome |-> IF \E o \in {PutLeg(item), CallLeg(item)} : known[o] = "assigned"
                 THEN "Assigned" ELSE "Earned",
     earned |-> PutLeg(item).premium + CallLeg(item).premium]

IsRange(item) == Cardinality(item) > 1
Only(item) == CHOOSE o \in item : TRUE

\* An item of the page's two lists.
Card(item, spot) == IF IsRange(item) THEN RangeCard(item, spot) ELSE ActiveCard(Only(item), spot)
LogRow(item) == IF IsRange(item) THEN RangeTradeRow(item) ELSE TradeRow(Only(item))

\* The log, newest first by the first of an item's positions; unless all are asked
\* for, only those with few before them.
Sooner(i, j) ==
    \/ First(i).at > First(j).at
    \/ First(i).at = First(j).at /\ Before(First(i), First(j))

TradeLog(showAll) ==
    {i \in HistoryItems :
        showAll \/ Cardinality({j \in HistoryItems : Sooner(j, i)}) < DefaultVisible}

PremiumOf == [o \in Placeable |-> o.premium]
CapitalOf == [o \in Placeable |-> CapitalUsd(o)]

Summary ==
    [earned |-> SumFunctionOnSet(PremiumOf, Listing),
     activeCapital |-> SumFunctionOnSet(CapitalOf, Active)]

Earlier(o, p) == o.at < p.at \/ (o.at = p.at /\ Before(o, p))
UpTo(o, list) == {p \in list : p = o \/ Earlier(p, o)}

\* Each with what was earned up to it.
ChartPoint(o) ==
    [at |-> o.at, cumulative |-> SumFunctionOnSet(PremiumOf, UpTo(o, Listing)),
     assigned |-> known[o] = "assigned"]

\* The positions of the period, all of them when it has none.
Charted(p) ==
    LET subset == {o \in Listing : o.at >= Since[p]}
    IN  IF subset = {} THEN Listing ELSE subset

Oldest(list, n) == CHOOSE o \in list : Cardinality(UpTo(o, list)) = n

\* Their points, oldest first, after a zero.
Points(p) ==
    LET list == Charted(p)
        zero == [at |-> Oldest(list, 1).at - 1, cumulative |-> 0, assigned |-> FALSE]
    IN  [n \in IF list = {} THEN {} ELSE 0 .. Cardinality(list) |->
            IF n = 0 THEN zero ELSE ChartPoint(Oldest(list, n))]

LastOf(points) == Cardinality(DOMAIN points) - 1

----------------------------------------------------------------------------
(* The chain and the backend.                                               *)

Place(o) ==
    /\ filed[o] = "none" /\ \A p \in Placeable : filed[p] # "none" => p.at <= o.at
    /\ expiryPrice = 0 /\ filed' = [filed EXCEPT ![o] = "on chain"]
    /\ UNCHANGED <<tagged, closedTags, expiryPrice, sessionVars, pageVars>>

Index(o) ==
    /\ filed[o] = "on chain" /\ filed' = [filed EXCEPT ![o] = "active"]
    /\ UNCHANGED <<tagged, closedTags, expiryPrice, sessionVars, pageVars>>

\* POST /positions/group: the dialog asks once it has seen both orders.  The rows that
\* are there and have no tag get it, and only then are they counted: for one of two the
\* dialog will ask again, for none or both it will not.
Tag(g) ==
    LET rows == {o \in Placeable : /\ o.group = g /\ o \notin tagged
                                   /\ filed[o] \notin {"none", "on chain"}}
    IN  /\ g \notin closedTags \cup {0} /\ \A o \in Placeable : o.group = g => filed[o] # "none"
        /\ tagged' = tagged \cup rows
        /\ closedTags' = IF Cardinality(rows) = 1 THEN closedTags ELSE closedTags \cup {g}
        /\ UNCHANGED <<filed, expiryPrice, sessionVars, pageVars>>

\* Days after the orders: what was sent has been indexed and saved by then, what the
\* page asked for has been answered and no dialog asks for tags.
ExpireAt(price) ==
    /\ expiryPrice = 0 /\ answers = {}
    /\ \A o \in Placeable : filed[o] # "on chain" /\ (filed[o] = "none" \/ o \in saved)
    /\ expiryPrice' = price /\ closedTags' = {o.group : o \in Placeable}
    /\ UNCHANGED <<filed, tagged, sessionVars, pageVars>>

ItmAt(o, price) == IF o.put THEN price < o.strike ELSE price > o.strike

\* The bot marks a row as settled and says nothing of its moneyness; it may do so
\* without a price, which the page cannot tell from this.
SettleRow(o) ==
    /\ filed[o] = "active" /\ expiryPrice # 0
    /\ filed' = [filed EXCEPT ![o] = "settled"]
    /\ UNCHANGED <<tagged, closedTags, expiryPrice, sessionVars, pageVars>>

\* Later in the cycle it adds that, or never does; to the page a row that is out of
\* the money is one that does not say.
MarkItm(o) ==
    /\ filed[o] = "settled" /\ ItmAt(o, expiryPrice)
    /\ filed' = [filed EXCEPT ![o] = "assigned"]
    /\ UNCHANGED <<tagged, closedTags, expiryPrice, sessionVars, pageVars>>

----------------------------------------------------------------------------
(* The session and the page.                                                *)

\* saveOptimistic, after the dialog has seen the order through; the indexer may
\* have been faster, and the page may be open by then.
SaveOptimistic(o) ==
    /\ filed[o] # "none" /\ o \notin saved
    /\ saved' = saved \cup {o} /\ stored' = stored \cup {o}
    /\ UNCHANGED <<backendVars, pageVars>>

\* removeMatchingOptimistic: the same oToken, and an amount within a hundredth.
Matches(o, r) ==
    /\ r.otoken = o.otoken
    /\ LET d == IF r.amount > o.amount THEN r.amount - o.amount ELSE o.amount - r.amount
       IN  100 * d < IF o.amount > 1 THEN o.amount ELSE 1

RemoveMatching(list) == {o \in stored : \A r \in list : ~Matches(o, r)}

\* What is pending is read once, when the page is mounted.
OpenPage ==
    /\ ~page /\ page' = TRUE /\ optimistic' = stored /\ waiting' = linked
    /\ known' = NoRows /\ knownTags' = {} /\ answers' = {}
    /\ UNCHANGED <<backendVars, sessionVars, linked>>

LeavePage ==
    /\ page /\ page' = FALSE /\ optimistic' = {} /\ waiting' = TRUE
    /\ known' = NoRows /\ knownTags' = {} /\ answers' = {}
    /\ UNCHANGED <<backendVars, sessionVars, linked>>

\* The state of loading is not reset.
ConnectWallet ==
    /\ ~linked /\ linked' = TRUE
    /\ UNCHANGED <<backendVars, sessionVars, page, waiting, known, knownTags, optimistic, answers>>

\* usePositions without an address: nothing, and not loading.  What is on its way
\* will still be shown.
DisconnectWallet ==
    /\ linked /\ linked' = FALSE /\ waiting' = (waiting /\ ~page)
    /\ known' = NoRows /\ knownTags' = {}
    /\ UNCHANGED <<backendVars, sessionVars, page, optimistic, answers>>

PollPositionsWhileLoading ==
    /\ page /\ linked /\ waiting /\ Cardinality(answers) < MaxAnswers
    /\ LET visible == [o \in Placeable |-> IF filed[o] = "on chain" THEN "none" ELSE filed[o]]
       IN  answers' = answers \cup {[filed |-> visible, tagged |-> tagged]}
    /\ UNCHANGED <<backendVars, sessionVars, page, linked, waiting, known, knownTags, optimistic>>

\* A poll of the interval, of the first half minute or of a balance event, as the
\* backend answers it; the page may get the answers in any order.
PollPositions ==
    /\ page /\ linked /\ Cardinality(answers) < MaxAnswers
    /\ LET visible == [o \in Placeable |-> IF filed[o] = "on chain" THEN "none" ELSE filed[o]]
       IN  answers' = answers \cup {[filed |-> visible, tagged |-> tagged]}
    /\ UNCHANGED <<backendVars, sessionVars, page, linked, waiting, known, knownTags, optimistic>>

\* A page that keeps as pending what the session has dropped.
PositionsArriveKeepingPending(a) ==
    /\ a \in answers /\ answers' = answers \ {a}
    /\ known' = a.filed /\ knownTags' = a.tagged /\ waiting' = FALSE
    /\ stored' = RemoveMatching({o \in Placeable : a.filed[o] # "none"})
    /\ UNCHANGED <<backendVars, saved, page, linked, optimistic>>

\* The effect after an answer drops from the session what has become a row, and
\* reads the session again.
PositionsArrive(a) ==
    /\ a \in answers /\ answers' = answers \ {a}
    /\ known' = a.filed /\ knownTags' = a.tagged /\ waiting' = FALSE
    /\ LET list == {o \in Placeable : a.filed[o] # "none"}
       IN  IF list # {} /\ optimistic # {}
           THEN stored' = RemoveMatching(list) /\ optimistic' = RemoveMatching(list)
           ELSE UNCHANGED <<stored, optimistic>>
    /\ UNCHANGED <<backendVars, saved, page, linked>>

PositionsFail(a) ==
    /\ a \in answers /\ answers' = answers \ {a} /\ waiting' = FALSE
    /\ UNCHANGED <<backendVars, sessionVars, page, linked, known, knownTags, optimistic>>

PortfolioNext ==
    \/ \E o \in Placeable : Place(o) \/ Index(o) \/ SaveOptimistic(o)
           \/ SettleRow(o) \/ MarkItm(o)
    \/ \E g \in {o.group : o \in Placeable} : Tag(g)
    \/ \E price \in Spots : ExpireAt(price)
    \/ OpenPage \/ LeavePage \/ ConnectWallet \/ DisconnectWallet
    \/ PollPositions \/ \E a \in answers : PositionsArrive(a) \/ PositionsFail(a)

\* The page by itself.
PortfolioSpec == PortfolioInit /\ [][PortfolioNext]_portfolioVars

----------------------------------------------------------------------------
\* Types; what the page holds as pending the session holds too.
PortfolioTypeOK ==
    /\ filed \in [Placeable -> {"none", "on chain", "active"} \cup SettledStates]
    /\ known \in [Placeable -> {"none", "active"} \cup SettledStates]
    /\ knownTags \subseteq Real /\ optimistic \subseteq stored /\ stored \subseteq saved

\* However groups, guessed pairs and single legs mix, every position on the page
\* is in exactly one item of one of its two lists; and no order that has its row is
\* pending there still, whenever it was saved and whatever answer came when.
EachPositionOnce ==
    LET active == ActiveItems  history == HistoryItems
    IN  /\ \A o \in Listing :
               Cardinality({i \in active : o \in i}) + Cardinality({i \in history : o \in i}) = 1
        /\ optimistic \cap Real = {}

\* Two rows the page knows with the tag of one range are one item, a third position
\* close to them notwithstanding, unless only one has settled.  (Tagged one without the
\* other they are not a range, and a third position may take the other for its own.)
RangesStayTogether ==
    \A g \in {o.group : o \in knownTags} :
        LET legs == {o \in Real : o \in knownTags /\ o.group = g}
        IN  HasBothSides(legs) /\ (legs \subseteq Active \/ legs \subseteq History)
                => legs \in ActiveItems \cup HistoryItems

\* The totals at the top are those of the cards and the rows below, all of them.
SummaryIsOnCards ==
    page =>
        LET active == ActiveItems  log == TradeLog(TRUE)  total == Summary
            committed == [i \in active |-> Card(i, 0).committed]
            earned == [i \in active |-> Card(i, 0).earned]
            logged == [i \in log |-> LogRow(i).earned]
        IN  /\ total.activeCapital = SumFunctionOnSet(committed, active)
            /\ total.earned = SumFunctionOnSet(earned, active) + SumFunctionOnSet(logged, log)

\* Whatever period is chosen the chart ends at the total earned.
ChartEndsAtTotal ==
    Listing # {} =>
        \A p \in DOMAIN Since :
            LET points == Points(p) IN points[LastOf(points)].cumulative = Summary.earned

\* A card says that both sides are kept just when at that price settlement would keep
\* both, and names no side that would not be exercised there.  The one it names is the
\* only one, unless the put of a range has the higher strike: groups and pairs are made
\* without a look at the strikes.
NowIsOutcome ==
    page => \A item \in ActiveItems : \A spot \in Spots :
        LET now == Card(item, spot).now
            itm == {o \in item : ItmAt(o, spot)}
        IN  /\ now = "keeping" <=> itm = {}
            /\ now = "buying" => \E o \in itm : o.put
            /\ now = "selling" => \E o \in itm : ~o.put
            /\ HasBothSides(itm) => PutLeg(item).strike > CallLeg(item).strike

\* What the log calls assigned was in the money at the price it expired at, and has its
\* dot on the chart.  (What it calls expired or earned may have been so too: the row of a
\* position that was settled need not say.)
LogIsOutcome ==
    page => \A item \in HistoryItems :
        LET assigned == LogRow(item).outcome = "Assigned"
        IN  /\ assigned <=> \E o \in item : ChartPoint(o).assigned
            /\ assigned => \E o \in item : ItmAt(o, expiryPrice)

\* A position tells the same wherever the page draws it: on its card, in the log, in
\* the totals and on the chart; and settlement does, or did, what is told of it.
PageAgrees == SummaryIsOnCards /\ ChartEndsAtTotal /\ NowIsOutcome /\ LogIsOutcome

\* A row the backend has is shown sooner or later to a user who stays on the page,
\* though polls fail and older answers overtake newer ones.
IndexedIsShown ==
    \A o \in Placeable :
        (page /\ linked /\ filed[o] = "active") ~> (known[o] # "none" \/ ~page \/ ~linked)
=============================================================================
