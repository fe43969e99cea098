------------------------------- MODULE Account -------------------------------
(***************************************************************************)
(* What the app shows of the connected wallet: the data its hooks poll, the  *)
(* faucet in the header and the notification banner.  The parts share the    *)
(* wallet and nothing else, so a behaviour follows one of them.              *)
(***************************************************************************)
EXTENDS Naturals, FiniteSets

CONSTANTS Wallets,
          MaxRequests  \* bound: requests of the banner, or of the faucet, under way at once

ASSUME AccountAssumption == "none" \notin Wallets /\ MaxRequests \in Nat

VARIABLES followed,   \* the part that is followed
          account,     \* the connected one, "none" without
          asked, shownFor, feedLoading,  \* a hook: wallets asked for, whose data it holds
          minting, mints, notice,        \* useFaucet; requests of buttons there and gone
          emails,     \* of each wallet, what the backend has; "none" also when unsubscribed
          confirmed,  \* history: whether some wallet has confirmed an address
          notification,     \* useNotificationStatus
          banner,     \* NotificationBanner
          requests    \* its requests under way, of this mounting or an earlier one

feedVars == <<asked, shownFor, feedLoading>>
faucetVars == <<minting, mints, notice>>
bannerVars == <<emails, confirmed, notification, banner, requests>>
accountVars == <<followed, account, feedVars, faucetVars, bannerVars>>

Feeds == {"balances", "activity", "yield"}
NoBanner == [there |-> FALSE, initialized |-> FALSE, at |-> "idle", submitting |-> FALSE,
             full |-> FALSE]

AccountInit ==
    /\ followed \in Feeds \cup {"banner"} /\ account = "none"
    /\ asked = {} /\ shownFor = "none" /\ feedLoading = FALSE
    /\ minting = FALSE /\ mints = 0 /\ notice = "none"
    /\ emails \in [Wallets -> {"none", "on"}]
    /\ confirmed = (\E w \in Wallets : emails[w] = "on")
    /\ followed \in Feeds => emails = [w \in Wallets |-> "none"]
    /\ notification = [of |-> "none", on |-> FALSE, loading |-> FALSE, asked |-> FALSE, error |-> FALSE]
    /\ banner = NoBanner /\ requests = {}

----------------------------------------------------------------------------
(* useBalances, useActivity, useYield: a hook asks for the wallet at hand and *)
(* takes whatever comes, in the order it comes.                              *)

Ask(feed) ==
    /\ followed = feed /\ account # "none" /\ asked' = asked \cup {account}
    /\ UNCHANGED <<followed, account, shownFor, feedLoading, faucetVars, bannerVars>>

Take(feed, w) ==
    /\ followed = feed /\ w \in asked /\ asked' = asked \ {w}
    /\ shownFor' = w /\ feedLoading' = FALSE
    /\ UNCHANGED <<followed, account, faucetVars, bannerVars>>

PollBalancesOnce == Ask("balances") /\ shownFor = "none"

\* The interval and the balance events, with their four repetitions.
PollBalances == Ask("balances")

BalancesArrive == \E w \in Wallets : Take("balances", w)

\* A balance event only.
RefreshActivity == Ask("activity")
ActivityArrives == \E w \in Wallets : Take("activity", w)
RefreshYield == Ask("yield")
YieldArrives == \E w \in Wallets : Take("yield", w)

\* What is shown stays.
FeedFails ==
    /\ \E w \in asked : asked' = asked \ {w}
    /\ feedLoading' = FALSE
    /\ UNCHANGED <<followed, account, shownFor, faucetVars, bannerVars>>

----------------------------------------------------------------------------
(* The header.                                                              *)

Header ==
    (IF account # "none" /\ ~feedLoading /\ shownFor # "none" THEN {"balances"} ELSE {})
    \cup (IF account # "none" /\ ~feedLoading THEN {"faucet"} ELSE {})

FaucetButton == IF "faucet" \in Header /\ ~minting THEN {"mint"} ELSE {}

Mint ==
    /\ followed = "balances" /\ "mint" \in FaucetButton /\ mints < MaxRequests
    /\ minting' = TRUE /\ mints' = mints + 1 /\ notice' = IF notice = "error" THEN "none" ELSE notice
    /\ UNCHANGED <<followed, account, feedVars, bannerVars>>

\* The answer to this button's request, or to one of a button that is gone.  Success
\* is a balance event and, for this button, a refetch more.
MintAnswered ==
    /\ mints > 0 /\ mints' = mints - 1
    /\ \E ok, here \in BOOLEAN :
        /\ (here => minting) /\ (~here => mints > (IF minting THEN 1 ELSE 0))
        /\ IF here THEN minting' = FALSE /\ notice' = (IF ok THEN "received" ELSE "error")
                   ELSE UNCHANGED <<minting, notice>>
        /\ asked' = IF ok /\ account # "none" THEN asked \cup {account} ELSE asked
    /\ UNCHANGED <<followed, account, shownFor, feedLoading, bannerVars>>

\* The timer of any success hides whatever notice there is.
HideNotice ==
    /\ notice = "received" /\ notice' = "none"
    /\ UNCHANGED <<followed, account, feedVars, minting, mints, bannerVars>>

----------------------------------------------------------------------------
(* The notification status and the banner.                                  *)

AskStatusQuietly(w) ==
    IF w = "none" THEN [notification EXCEPT !.asked = FALSE]
    ELSE [notification EXCEPT !.asked = TRUE, !.error = FALSE]

\* The effect of a change of the wallet or of refetch: the former request is
\* cancelled, which leaves loading as it is when there is no wallet to ask for.
AskStatus(w) ==
    IF w = "none" THEN [notification EXCEPT !.asked = FALSE]
    ELSE [notification EXCEPT !.asked = TRUE, !.loading = TRUE, !.error = FALSE]

\* The banner takes its first state from the first status it sees that is neither
\* loading nor an error, and never again.
Settle(b, s) ==
    IF b.there /\ ~b.initialized /\ ~s.loading /\ ~s.error
    THEN [b EXCEPT !.initialized = TRUE, !.at = IF s.on THEN "verified" ELSE "idle"] ELSE b

StatusArrives ==
    /\ notification.asked
    /\ notification' = [of |-> account, on |-> emails[account] = "on", loading |-> FALSE, asked |-> FALSE,
                  error |-> FALSE]
    /\ banner' = Settle(banner, notification')
    /\ UNCHANGED <<followed, account, feedVars, faucetVars, emails, confirmed, requests>>

StatusFails ==
    /\ notification.asked
    /\ notification' = [notification EXCEPT !.loading = FALSE, !.asked = FALSE, !.error = TRUE]
    /\ UNCHANGED <<followed, account, feedVars, faucetVars, emails, confirmed, banner, requests>>

BannerShown == banner.initialized /\ ~notification.error

CancelTargetWithAnyEmail == IF emails[account] = "none" THEN "idle" ELSE "verified"

CancelTarget == IF notification.on THEN "verified" ELSE "idle"

\* What each state of the banner offers.
IdleControls == IF BannerShown /\ banner.at = "idle" THEN {"set up"} ELSE {}
FormControls ==
    IF BannerShown /\ banner.at = "email-form"
    THEN {"cancel form"} \cup (IF banner.submitting THEN {} ELSE {"send"}) ELSE {}
\* Filling in the last digit verifies at once, whatever is under way.
CodeControls ==
    IF BannerShown /\ banner.at = "code-verify"
    THEN {"cancel code", "resend"}
         \cup (IF banner.full THEN {"clear digit"} ELSE {"fill in"})
         \cup (IF banner.full /\ ~banner.submitting THEN {"verify"} ELSE {}) ELSE {}
OnControls ==
    IF BannerShown /\ banner.at \in {"verified", "manage-open"}
    THEN {"manage"} \cup (IF banner.at = "verified" THEN {} ELSE {"change"})
         \cup (IF banner.at = "verified" \/ banner.submitting THEN {} ELSE {"turn off"}) ELSE {}
BannerControls == IdleControls \cup FormControls \cup CodeControls \cup OnControls

bannerOnly == <<followed, account, feedVars, faucetVars, emails, confirmed, notification>>

SetUp ==
    /\ "set up" \in BannerControls
    /\ banner' = [banner EXCEPT !.at = "email-form"]
    /\ UNCHANGED <<bannerOnly, requests>>

Cancel ==
    /\ \/ "cancel form" \in BannerControls /\ banner' = [banner EXCEPT !.at = CancelTarget]
       \/ "cancel code" \in BannerControls /\ banner' = [banner EXCEPT !.at = "email-form"]
    /\ UNCHANGED <<bannerOnly, requests>>

TypeCode ==
    /\ "clear digit" \in BannerControls /\ banner' = [banner EXCEPT !.full = FALSE]
    /\ UNCHANGED <<bannerOnly, requests>>

Manage ==
    /\ "manage" \in BannerControls
    /\ banner' = [banner EXCEPT !.at = IF @ = "verified" THEN "manage-open" ELSE "verified"]
    /\ UNCHANGED <<bannerOnly, requests>>

ChangeEmail ==
    /\ "change" \in BannerControls
    /\ banner' = [banner EXCEPT !.at = "email-form", !.full = FALSE]
    /\ UNCHANGED <<bannerOnly, requests>>

\* A request for the wallet of the render it was clicked in; no two alike at once,
\* which bounds them too.
Request(kind) ==
    LET request == [kind |-> kind, account |-> account, here |-> TRUE]
    IN  /\ Cardinality(requests) < MaxRequests /\ request \notin requests
        /\ requests' = requests \cup {request}

HandleSendCode ==
    /\ "send" \in BannerControls /\ Request("email")
    /\ banner' = [banner EXCEPT !.submitting = TRUE]
    /\ UNCHANGED bannerOnly

HandleVerify ==
    /\ "verify" \in BannerControls \/ "fill in" \in BannerControls
    /\ Request("verify")
    /\ banner' = [banner EXCEPT !.submitting = TRUE, !.full = TRUE]
    /\ UNCHANGED bannerOnly

HandleResend ==
    /\ "resend" \in BannerControls /\ Request("resend")
    /\ banner' = [banner EXCEPT !.full = FALSE]
    /\ UNCHANGED bannerOnly

HandleUnsubscribe ==
    /\ "turn off" \in BannerControls /\ Request("off")
    /\ banner' = [banner EXCEPT !.submitting = TRUE]
    /\ UNCHANGED bannerOnly

\* What the answer does to the banner, unless it has been unmounted; an error is
\* only a line of text.
Answered(r, to) ==
    /\ requests' = requests \ {r}
    /\ banner' = IF ~r.here THEN banner
                 ELSE [to EXCEPT !.submitting = IF r.kind = "resend" THEN @ ELSE FALSE]

\* POST /notifications/email replaces the row: what was confirmed no longer is, also
\* when the mail then cannot be sent.
EmailAnswered(r) ==
    /\ r.kind \in {"email", "resend"}
    /\ \/ /\ emails' = [emails EXCEPT ![r.account] = "unconfirmed"]
          /\ \/ Answered(r, IF r.kind = "email"
                            THEN [banner EXCEPT !.full = FALSE, !.at = "code-verify"] ELSE banner)
             \/ Answered(r, banner)
       \/ UNCHANGED emails /\ Answered(r, banner)
    /\ UNCHANGED <<followed, account, feedVars, faucetVars, confirmed, notification>>

VerifyAnswered(r) ==
    /\ r.kind = "verify"
    /\ \/ /\ emails[r.account] = "unconfirmed"
          /\ emails' = [emails EXCEPT ![r.account] = "on"] /\ confirmed' = TRUE
          /\ Answered(r, [banner EXCEPT !.at = "verified"]) /\ notification' = AskStatus(account)
       \/ UNCHANGED <<emails, confirmed, notification>> /\ Answered(r, banner)
    /\ UNCHANGED <<followed, account, feedVars, faucetVars>>

\* The backend wants a signed token in the query; the banner sends a wallet in the
\* body and is refused.
UnsubscribeAnswered(r) ==
    /\ r.kind = "off" /\ Answered(r, banner)
    /\ UNCHANGED <<followed, account, feedVars, faucetVars, emails, confirmed, notification>>

\* The link in a mail.
UnsubscribeByLink(w) ==
    /\ followed = "banner" /\ emails[w] = "on" /\ emails' = [emails EXCEPT ![w] = "none"]
    /\ UNCHANGED <<followed, account, feedVars, faucetVars, confirmed, notification, banner, requests>>

\* The positions page draws the banner once there is something to show.
MountBanner ==
    /\ followed = "banner" /\ account # "none" /\ ~banner.there
    /\ banner' = Settle([NoBanner EXCEPT !.there = TRUE], notification)
    /\ UNCHANGED <<bannerOnly, requests>>

----------------------------------------------------------------------------
(* The wallet.                                                              *)

\* Another wallet, or none.  Without one a feed is emptied at once, the header's
\* button and the banner go, and the notification status stays.
SwitchTo(w) ==
    /\ account # w /\ account' = w
    /\ IF followed = "banner" THEN UNCHANGED feedVars
       ELSE IF w = "none" THEN /\ shownFor' = "none" /\ feedLoading' = FALSE
                               /\ UNCHANGED asked
       ELSE /\ asked' = asked \cup {w}
            /\ UNCHANGED <<shownFor, feedLoading>>
    /\ IF w = "none" THEN minting' = FALSE /\ notice' = "none" ELSE UNCHANGED <<minting, notice>>
    /\ IF followed # "banner" THEN UNCHANGED <<notification, banner, requests>>
       ELSE /\ notification' = AskStatus(w)
            /\ IF w = "none"
               THEN /\ banner' = NoBanner
                    /\ requests' = {[r EXCEPT !.here = FALSE] : r \in requests}
               ELSE /\ UNCHANGED requests
                    \* With pending positions the banner is drawn at once; its effect runs
                    \* before that of the page.
                    /\ \/ UNCHANGED banner
                       \/ account = "none" /\ banner' = Settle([NoBanner EXCEPT !.there = TRUE], notification)
    /\ UNCHANGED <<followed, mints, emails, confirmed>>

AccountNext ==
    \/ PollBalances \/ BalancesArrive \/ RefreshActivity \/ ActivityArrives
    \/ RefreshYield \/ YieldArrives \/ FeedFails
    \/ Mint \/ MintAnswered \/ HideNotice
    \/ StatusArrives \/ StatusFails
    \/ SetUp \/ Cancel \/ TypeCode \/ Manage \/ ChangeEmail
    \/ HandleSendCode \/ HandleVerify \/ HandleResend \/ HandleUnsubscribe
    \/ \E r \in requests : EmailAnswered(r) \/ VerifyAnswered(r) \/ UnsubscribeAnswered(r)
    \/ MountBanner
    \/ \E w \in Wallets : UnsubscribeByLink(w)
    \/ \E w \in Wallets \cup {"none"} : SwitchTo(w)

AccountSpec == AccountInit /\ [][AccountNext]_accountVars

----------------------------------------------------------------------------
\* Types; the faucet's button waits only for a request.
AccountTypeOK ==
    /\ account \in Wallets \cup {"none"} /\ asked \subseteq Wallets
    /\ shownFor \in Wallets \cup {"none"} /\ mints \in 0 .. MaxRequests
    /\ minting => mints > 0
    /\ emails \in [Wallets -> {"none", "unconfirmed", "on"}]
    /\ banner.at \in {"idle", "email-form", "code-verify", "verified", "manage-open"}
    /\ Cardinality(requests) <= MaxRequests

\* Whatever wallets come and go while requests are under way, a status that is
\* neither loading nor an error is the connected wallet's.
StatusIsCurrent ==
    followed = "banner" /\ account # "none" /\ ~notification.loading /\ ~notification.error => notification.of = account

\* "Notifications on" is shown only where some wallet of the session has confirmed
\* an address, after whatever clicks, codes, cancels and switches.
OnOnlyIfConfirmed ==
    BannerShown /\ banner.at \in {"verified", "manage-open"} => confirmed

\* The banner's buttons are disabled only while an answer is awaited, which an
\* unmounted banner does not leave behind.
SubmittingAwaits == banner.submitting => \E r \in requests : r.here /\ r.kind # "resend"

\* The balances become the connected wallet's, though answers for an earlier one
\* may come last.
BalancesCatchUp ==
    \A w \in Wallets : <>[](followed = "balances" /\ account = w) => []<>(shownFor = w)
=============================================================================
