--------------------------------- MODULE App ---------------------------------
(***************************************************************************)
(* The web app: a session of the user with one of its parts, whichever it   *)
(* is.  The dialogs that send transactions share the account on chain; what *)
(* a page sees of a dialog is in the module of the page.                    *)
(***************************************************************************)
EXTENDS OrderFlow, RangeFlow, Funds, PriceMenu, Portfolio, Account

CONSTANTS StartingWith  \* bound: the balances and approvals a session starts with

ASSUME AppAssumption ==
    \A s \in StartingWith : s.held \in [Tokens -> Nat] /\ s.approved \subseteq Tokens \cup {"router"}

VARIABLE part  \* bound: all of the app that the session uses

flowVars == <<chainVars, orderVars, rangeVars, fundsVars>>
pagesVars == <<menuVars, portfolioVars, accountVars>>
appVars == <<part, flowVars, pagesVars>>

FlowsInit ==
    /\ sent = <<>> /\ outside = 0
    /\ \E s \in StartingWith : held = s.held /\ approved = s.approved
    /\ OrderInit /\ RangeInit /\ FundsInit

PagesInit == MenuInit /\ PortfolioInit /\ AccountInit

\* Orders are sent from any balances, the account's data may be of any account, and
\* the others start with one of each.
BareAccount == followed = "banner" /\ emails = [w \in Wallets |-> "none"]
FirstBalances == [held |-> held, approved |-> approved] = CHOOSE s \in StartingWith : TRUE

AppInit ==
    /\ FlowsInit /\ PagesInit
    /\ part \in {"order", "range", "funds", "menu", "positions", "account"}
    /\ part \in {"order", "range"} \/ FirstBalances
    /\ part = "account" \/ BareAccount

FlowsNext ==
    \/ part = "order" /\ OrderNext /\ UNCHANGED <<rangeVars, fundsVars>>
    \/ part = "range" /\ RangeNext /\ UNCHANGED <<orderVars, fundsVars>>
    \/ part = "funds" /\ FundsNext /\ UNCHANGED <<chainVars, orderVars, rangeVars>>

PagesNext ==
    \/ part = "menu" /\ MenuNext /\ UNCHANGED <<portfolioVars, accountVars>>
    \/ part = "positions" /\ PortfolioNext /\ UNCHANGED <<menuVars, accountVars>>
    \/ part = "account" /\ AccountNext /\ UNCHANGED <<menuVars, portfolioVars>>

AppNext ==
    \/ FlowsNext /\ UNCHANGED <<part, pagesVars>>
    \/ PagesNext /\ UNCHANGED <<part, flowVars>>

AppSpec == AppInit /\ [][AppNext]_appVars

\* Nothing is assumed of the user, at the dialogs or at the wallet.  Reads are
\* answered or fail, timers fire, promises settle and signed transactions are mined;
\* a hook that polls again and again is answered in the end.
AppFairness ==
    /\ WF_appVars(Mine /\ UNCHANGED <<part, orderVars, rangeVars, fundsVars, pagesVars>>)
    /\ \A r \in Runs : WF_appVars(OrderProgress(r) /\ UNCHANGED <<part, rangeVars, fundsVars, pagesVars>>)
    /\ \A r \in RangeRuns : WF_appVars(RangeProgress(r) /\ UNCHANGED <<part, orderVars, fundsVars, pagesVars>>)
    /\ \A j \in Jobs : WF_appVars(Transfer(j) /\ UNCHANGED <<part, chainVars, orderVars, rangeVars, pagesVars>>)
    /\ WF_appVars(PollPositions /\ UNCHANGED <<part, flowVars, menuVars, accountVars>>)
    /\ SF_appVars((\E a \in answers : PositionsArrive(a)) /\ UNCHANGED <<part, flowVars, menuVars, accountVars>>)
    /\ WF_appVars(PollBalances /\ UNCHANGED <<part, flowVars, menuVars, portfolioVars>>)
    /\ \A w \in Wallets :
           SF_appVars(Take("balances", w) /\ UNCHANGED <<part, flowVars, menuVars, portfolioVars>>)

AppFairSpec == AppSpec /\ AppFairness

----------------------------------------------------------------------------
\* Types of all the parts: no balance below zero, no deposit asked for of what cannot be
\* deposited, no bounds of a range while RangeEarn is not there, and nothing pending or
\* tagged on the page of positions that the session or the rows have not.
AppTypeOK ==
    OrderTypeOK /\ RangeTypeOK /\ FundsTypeOK /\ MenuTypeOK /\ PortfolioTypeOK /\ AccountTypeOK
=============================================================================
