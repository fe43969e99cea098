------------------------------ MODULE PriceMenu ------------------------------
(***************************************************************************)
(* PriceMenuV2 and RangeEarn: the page on which a user picks a price to buy  *)
(* at, a price to sell at, or both.  The list behind the picks is polled and *)
(* changes under the user; the accept dialogs are drawn from the picks, so   *)
(* they come and go with them, while an order in one of them goes on.  The   *)
(* list has one strike, quoted or not for each type and date.               *)
(***************************************************************************)
EXTENDS Integers, FiniteSets

CONSTANT Quotes  \* of each [type, expiry] the market maker quotes, what the list may say

\* A price may be missing; 0 is no date.
ASSUME QuotesAssumption == \A c \in DOMAIN Quotes : 0 \in Quotes[c] /\ c.expiry # 0

VARIABLES prices,    \* premium of each cell, NotShown, or 0 where there is none
          loading, priceError, closed,      \* as last polled
          online,    \* whether a wallet is connected
          side, expiry, typed,              \* "buy", "sell", "range"; amount is typed
          selected, confirming,             \* PriceMenuV2's pick and dialog
          bounds, rangeConfirming,          \* RangeEarn's
          ordering,  \* dialogs, "order" and "range", with an order under way, shown or not
          accepted   \* those the page has an accepted screen of

menuVars == <<prices, loading, priceError, closed, online, side, expiry, typed, selected,
              confirming, bounds, rangeConfirming, ordering, accepted>>
feed == <<prices, loading, priceError, closed>>
picks == <<selected, bounds>>
dialogs == <<confirming, rangeConfirming>>

Cells == DOMAIN Quotes
Types == {"put", "call"}
Expiries == {c.expiry : c \in Cells}
NotShown == -1
NoPick == [premium |-> 0, type |-> "put", expiry |-> 0]
NoBounds == [t \in Types |-> NoPick]

MenuInit ==
    /\ prices = [c \in Cells |-> 0] /\ loading = "all" /\ priceError = FALSE /\ closed = FALSE
    /\ online = FALSE
    /\ side = "buy" /\ expiry = 0 /\ typed = FALSE
    /\ selected = NoPick /\ confirming = FALSE
    /\ bounds = NoBounds /\ rangeConfirming = FALSE
    /\ ordering = {} /\ accepted = {}

----------------------------------------------------------------------------
(* The list.  Prices on the wrong side of spot or below the least APR are on  *)
(* it without being shown.                                                    *)

Lists == {list \in [Cells -> UNION {Quotes[c] : c \in Cells}] :
              \A c \in Cells : list[c] \in Quotes[c]}

\* The dates on the list, and the first of them unless one was chosen.
DatesOf(list) == {c.expiry : c \in {d \in Cells : list[d] # 0}}
Listed == DatesOf(prices)
ActiveOf(list) ==
    IF expiry # 0 THEN expiry
    ELSE IF DatesOf(list) = {} THEN 0
    ELSE CHOOSE e \in DatesOf(list) : \A f \in DatesOf(list) : e <= f
ActiveExpiry == ActiveOf(prices)

\* RangeEarn's two lists: what is shown of one type and date.
Cards(list, type, e) ==
    {[premium |-> list[c], type |-> type, expiry |-> e] :
        c \in {d \in Cells : d.type = type /\ d.expiry = e /\ list[d] > 0}}

\* PriceMenuV2's list, of calls for every side but the one to buy.
FilteredPrices(list, e) == Cards(list, IF side = "buy" THEN "put" ELSE "call", e)

KeptAsPicked(pick, cards) == IF cards = {} THEN NoPick ELSE pick

\* The effect after each change of the list, the date or the side: a pick goes when
\* its strike does, stays what it was if the premium and the date of the strike are
\* the same, and else becomes what is listed.
Kept(pick, cards) ==
    CASE pick = NoPick \/ cards = {} -> NoPick
      [] pick # NoPick /\ \E card \in cards :
             card.premium = pick.premium /\ card.expiry = pick.expiry -> pick
      [] OTHER -> CHOOSE card \in cards : TRUE

KeepSelected(list, e) == selected' = Kept(selected, FilteredPrices(list, e))

\* RangeEarn's effect, which runs only while it is mounted.
KeepBounds(list, e) ==
    bounds' = IF side = "range" THEN [t \in Types |-> Kept(bounds[t], Cards(list, t, e))]
              ELSE NoBounds

----------------------------------------------------------------------------
(* What is shown and enabled.                                               *)

Screen ==
    CASE loading = "all" -> "loading"
      [] priceError -> "error"
      [] "order" \in accepted /\ ~priceError -> "accepted"
      [] accepted = {"range"} /\ ~priceError -> "range accepted"
      [] OTHER -> "menu"

\* The dialogs are drawn while they are wanted and there is something picked; that
\* for one order on any side.
OrderDialog == Screen = "menu" /\ confirming /\ selected # NoPick
RangeDialog ==
    Screen = "menu" /\ side = "range" /\ rangeConfirming /\ \A t \in Types : bounds[t] # NoPick

\* A dialog covers the page.
MenuInReach == Screen = "menu" /\ ~OrderDialog /\ ~RangeDialog

\* The guide fills in an amount and picks a price, which a list must offer.
Toolbar ==
    IF MenuInReach /\ loading = "no"
       /\ (side = "range" \/ FilteredPrices(prices, ActiveExpiry) # {})
       /\ Listed # {}
    THEN {"guide"} ELSE {}

\* A card that is sold out is disabled; which of them are is not told apart.
StrikeCards ==
    IF MenuInReach /\ side # "range"
    THEN {[quote |-> c, picked |-> c = selected] : c \in FilteredPrices(prices, ActiveExpiry)}
    ELSE {}

Dates == IF MenuInReach THEN Listed ELSE {}

CanAccept == selected # NoPick /\ typed

\* The two buttons, for wide and for narrow screens.
AcceptButton ==
    IF MenuInReach /\ side # "range" /\ ~closed /\ (CanAccept \/ ~online) THEN {"accept"} ELSE {}

CanAcceptRange == (\A t \in Types : bounds[t] # NoPick) /\ typed

\* RangeEarn does not look at the capacity.
RangeButton ==
    IF MenuInReach /\ side = "range" /\ (CanAcceptRange \/ ~online) THEN {"accept"} ELSE {}

Preview ==
    (IF Screen = "menu" /\ CanAccept /\ side # "range" THEN {"premium"} ELSE {})
    \cup (IF Screen = "menu" /\ ActiveExpiry # 0 THEN {"settlement"} ELSE {})

RangeSummary ==
    IF Screen = "menu" /\ \A t \in Types : bounds[t] # NoPick THEN {"range"} ELSE {}

RangePreview == IF Screen = "menu" /\ CanAcceptRange THEN {"combined premium"} ELSE {}

----------------------------------------------------------------------------
(* Polling.                                                                 *)

\* An empty answer never replaces prices that are there.
PricesArrive ==
    \E list \in Lists :
        /\ (\A c \in Cells : list[c] = 0) => Listed = {}
        /\ prices' = list /\ loading' = "no" /\ priceError' = FALSE
        /\ KeepSelected(list, ActiveOf(list)) /\ KeepBounds(list, ActiveOf(list))
        /\ UNCHANGED <<closed, online, side, expiry, typed, dialogs, ordering, accepted>>

\* The error takes the place of the menu, and of RangeEarn with its picks.
PricesFail ==
    /\ loading' = "no" /\ priceError' = TRUE /\ bounds' = NoBounds /\ rangeConfirming' = FALSE
    /\ UNCHANGED <<prices, closed, online, side, expiry, typed, selected, confirming, ordering,
                   accepted>>

\* The spot price opens the menu before there are prices, and decides which of them
\* are shown.
SpotArrives ==
    /\ \/ loading = "all" /\ loading' = "prices" /\ UNCHANGED <<prices, picks>>
       \/ /\ loading = "no" /\ UNCHANGED loading
          /\ \E list \in Lists :
                /\ \A c \in Cells : list[c] = 0 <=> prices[c] = 0
                /\ \A c \in Cells : prices[c] > 0 => list[c] \in {prices[c], NotShown}
                /\ prices' = list /\ KeepSelected(list, ActiveExpiry)
                /\ IF priceError THEN UNCHANGED bounds ELSE KeepBounds(list, ActiveExpiry)
    /\ UNCHANGED <<priceError, closed, online, side, expiry, typed, dialogs, ordering, accepted>>

\* The capacity says closed or full; a failed poll keeps what is known.
CapacityArrives ==
    /\ closed' = ~closed
    /\ UNCHANGED <<prices, loading, priceError, online, side, expiry, typed, picks, dialogs,
                   ordering, accepted>>

WalletChanges ==
    /\ online' = ~online
    /\ UNCHANGED <<feed, side, expiry, typed, picks, dialogs, ordering, accepted>>

----------------------------------------------------------------------------
(* The user.                                                                *)

\* Another side drops the pick, and leaves RangeEarn behind or mounts it anew.
ChooseSide(s) ==
    /\ MenuInReach /\ side' = s /\ selected' = NoPick
    /\ IF s = "range" /\ side = "range" THEN UNCHANGED <<bounds, rangeConfirming>>
       ELSE bounds' = NoBounds /\ rangeConfirming' = FALSE
    /\ UNCHANGED <<feed, online, expiry, typed, confirming, ordering, accepted>>

ChooseExpiry(e) ==
    /\ e \in Dates /\ expiry' = e
    /\ KeepSelected(prices, e) /\ KeepBounds(prices, e)
    /\ UNCHANGED <<feed, online, side, typed, dialogs, ordering, accepted>>

\* The field, or a share of the balance.
TypeCommitment ==
    /\ MenuInReach /\ typed' = ~typed
    /\ UNCHANGED <<feed, online, side, expiry, picks, dialogs, ordering, accepted>>

PickStrike ==
    /\ \E card \in StrikeCards : selected' = card.quote
    /\ UNCHANGED <<feed, online, side, expiry, typed, bounds, dialogs, ordering, accepted>>

PickBound(t) ==
    /\ MenuInReach /\ side = "range"
    /\ \E card \in Cards(prices, t, ActiveExpiry) : bounds' = [bounds EXCEPT ![t] = card]
    /\ UNCHANGED <<feed, online, side, expiry, typed, selected, dialogs, ordering, accepted>>

Guide ==
    /\ "guide" \in Toolbar
    /\ IF side = "range" THEN UNCHANGED <<typed, selected>>
       ELSE /\ typed' = TRUE
            /\ selected' \in FilteredPrices(prices, ActiveExpiry)
    /\ UNCHANGED <<feed, online, side, expiry, bounds, dialogs, ordering, accepted>>

ClickAccept ==
    /\ "accept" \in AcceptButton /\ confirming' = TRUE
    /\ UNCHANGED <<feed, online, side, expiry, typed, picks, rangeConfirming, ordering, accepted>>

ClickAcceptRange ==
    /\ "accept" \in RangeButton /\ rangeConfirming' = TRUE
    /\ UNCHANGED <<feed, online, side, expiry, typed, picks, confirming, ordering, accepted>>

CloseDialog ==
    /\ OrderDialog \/ RangeDialog
    /\ confirming' = (confirming /\ ~OrderDialog)
    /\ rangeConfirming' = (rangeConfirming /\ ~RangeDialog)
    /\ UNCHANGED <<feed, online, side, expiry, typed, picks, ordering, accepted>>

----------------------------------------------------------------------------
(* An order in the dialog, OrderFlow or RangeFlow, seen from the page.        *)

\* One dialog at most is drawn.  Bound: one order of each is under way.
OrderStarts ==
    /\ \/ OrderDialog /\ ordering' = ordering \cup {"order"}
       \/ RangeDialog /\ ordering' = ordering \cup {"range"}
    /\ ordering' # ordering
    /\ UNCHANGED <<feed, online, side, expiry, typed, picks, dialogs, accepted>>

\* onAccepted, which the page has whatever became of the dialog; RangeEarn's own
\* state is gone once its page is.
OrderAccepted(dialog) ==
    /\ dialog \in ordering /\ ordering' = ordering \ {dialog}
    /\ accepted' = accepted \cup {dialog}
    /\ confirming' = (confirming /\ dialog = "range")
    /\ bounds' = NoBounds /\ rangeConfirming' = FALSE
    /\ UNCHANGED <<feed, online, side, expiry, typed, selected>>

OrderFails(dialog) ==
    /\ dialog \in ordering /\ ordering' = ordering \ {dialog}
    /\ UNCHANGED <<feed, online, side, expiry, typed, picks, dialogs, accepted>>

\* "Accept another price".
AcceptAnother ==
    /\ Screen = "accepted" /\ accepted' = accepted \ {"order"}
    /\ selected' = NoPick /\ typed' = FALSE
    /\ UNCHANGED <<feed, online, side, expiry, bounds, dialogs, ordering>>

\* "Set another range": the side changes and the effect looks for the pick, if
\* there was one, among the calls.
SetAnotherRange ==
    /\ Screen = "range accepted" /\ accepted' = {} /\ side' = "range"
    /\ selected' = Kept(selected, Cards(prices, "call", ActiveExpiry))
    /\ UNCHANGED <<feed, online, expiry, typed, bounds, dialogs, ordering>>

MenuNext ==
    \/ PricesArrive \/ PricesFail \/ SpotArrives \/ CapacityArrives \/ WalletChanges
    \/ \E s \in {"buy", "sell", "range"} : ChooseSide(s)
    \/ \E e \in Expiries : ChooseExpiry(e)
    \/ TypeCommitment \/ PickStrike \/ \E t \in Types : PickBound(t)
    \/ Guide \/ ClickAccept \/ ClickAcceptRange \/ CloseDialog
    \/ OrderStarts \/ \E d \in {"order", "range"} : OrderAccepted(d) \/ OrderFails(d)
    \/ AcceptAnother \/ SetAnotherRange

MenuSpec == MenuInit /\ [][MenuNext]_menuVars

----------------------------------------------------------------------------
\* Types; RangeEarn has a state only while it is mounted.
MenuTypeOK ==
    /\ prices \in Lists /\ loading \in {"all", "prices", "no"}
    /\ side \in {"buy", "sell", "range"}
    /\ expiry \in Expiries \cup {0} /\ typed \in BOOLEAN /\ closed \in BOOLEAN
    /\ accepted \subseteq {"order", "range"} /\ ordering \subseteq {"order", "range"}
    /\ bounds # NoBounds \/ rangeConfirming => side = "range" /\ ~priceError

\* What is picked, and so what an open dialog offers, is on the list at the price
\* and the date shown, after any polls, outages, switches and orders.  On the side
\* for ranges a pick may be left, which is only told by its strike, premium and date.
PicksAreListed ==
    Screen = "menu" =>
        /\ selected # NoPick => \E card \in FilteredPrices(prices, ActiveExpiry) :
               /\ card.premium = selected.premium /\ card.expiry = selected.expiry
               /\ side # "range" => card = selected
        /\ \A t \in Types : bounds[t] \in {NoPick} \cup Cards(prices, t, ActiveExpiry)
=============================================================================
