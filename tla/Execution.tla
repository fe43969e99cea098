----------------------------- MODULE Execution -----------------------------
(***************************************************************************)
(* lib/execution.ts and useWallet.sendBatchTx of the web app.  A flow hands *)
(* the wallet a batch of calls, which it asks the user to sign one after    *)
(* the other, and at the same time polls a token balance; it goes on when   *)
(* either answers (fireAndPoll).  What the wallet sent is mined in order,   *)
(* and may revert.                                                          *)
(***************************************************************************)
EXTENDS Integers, Sequences, FiniteSets

CONSTANTS MaxOutside,  \* bound: times the account is spent from elsewhere
          MaxSent      \* bound: transactions the user signs

Tokens == {"usdc", "okb", "weth", "native"}

VARIABLES sent,     \* the account's transactions, in nonce order
          held,     \* its balances
          approved, \* the tokens MarginPool may take without limit
          outside   \* times it was spent from another app

chainVars == <<sent, held, approved, outside>>

----------------------------------------------------------------------------
(* The account on chain.                                                    *)

\* An account with any balances and approvals.
AnyAccount ==
    /\ sent = <<>> /\ outside = 0
    /\ held \in [Tokens -> Nat] /\ approved \subseteq Tokens \cup {"router"}

\* What a mined transaction does to the balances, if it does not revert.
AfterTx(tx) ==
    CASE tx.call = "wrap" -> [held EXCEPT !["native"] = @ - tx.amount, !["weth"] = @ + tx.amount]
      [] tx.call = "swap" -> [held EXCEPT !["usdc"] = @ - tx.amount, ![tx.token] = @ + tx.amount]
      [] tx.call = "order" -> [held EXCEPT ![tx.token] = @ - tx.amount]
      [] tx.call = "approve" -> held

\* What the pool, the router or WETH takes must be there; the pool takes it as
\* approved, and the router's approval is sent before the swap.
Covered(tx) ==
    CASE tx.call = "wrap" -> held["native"] >= tx.amount
      [] tx.call = "swap" -> held["usdc"] >= tx.amount
      [] tx.call = "order" -> held[tx.token] >= tx.amount /\ tx.token \in approved
      [] tx.call = "approve" -> TRUE

\* The settler and the swap router have conditions of their own, so a covered
\* transaction may revert too: a quote filled, outdated or past its deadline.
Mine ==
    \E i \in DOMAIN sent :
        /\ sent[i].status = "pending"
        /\ \A j \in 1..i-1 : sent[j].status # "pending"
        /\ \/ /\ Covered(sent[i])
              /\ sent' = [sent EXCEPT ![i].status = "landed"]
              /\ held' = AfterTx(sent[i])
              /\ approved' = IF sent[i].call = "approve" THEN approved \cup {sent[i].token}
                             ELSE approved
           \/ /\ sent[i].call \in {"order", "swap"} \/ ~Covered(sent[i])
              /\ sent' = [sent EXCEPT ![i].status = "reverted"]
              /\ UNCHANGED <<held, approved>>
        /\ UNCHANGED outside

\* The user spends a token in another app.
SpendElsewhere(t) ==
    /\ outside < MaxOutside /\ outside' = outside + 1
    /\ held[t] > 0 /\ held' = [held EXCEPT ![t] = @ - 1]
    /\ UNCHANGED <<sent, approved>>

----------------------------------------------------------------------------
(* fireAndPoll: "Only fail if both fail."                                   *)

Call(what, token, amount) == [call |-> what, token |-> token, amount |-> amount]

NoRace == [asks |-> <<>>, fire |-> "off", poll |-> "off", before |-> 0]

\* The race when the batch is handed to the wallet and the balance was before.
StartRace(batch, before) ==
    [asks |-> batch, fire |-> "asking", poll |-> "on", before |-> before]

SignedRaceOfFirstCall(race) ==
    [race EXCEPT !.asks = Tail(@), !.fire = IF @ = "asking" THEN "hash" ELSE @]

\* sendBatchTx returns the hash of the last call, without waiting for a receipt.
SignedRace(race) ==
    [race EXCEPT !.asks = Tail(@),
                 !.fire = IF @ = "asking" /\ Len(race.asks) = 1 THEN "hash" ELSE @]

RefusedRace(race) ==
    [race EXCEPT !.asks = <<>>, !.fire = IF @ = "asking" THEN "refused" ELSE @]

PolledRacesUnchanged(race, balance) ==
    {[race EXCEPT !.poll = "gave up"]}
    \cup IF balance <= race.before THEN {[race EXCEPT !.poll = "seen"]} ELSE {}

PolledRacesForever(race, balance) ==
    IF balance < race.before THEN {[race EXCEPT !.poll = "seen"]} ELSE {}

\* pollUntil: an attempt sees less than before, or the loop gives up, after 60
\* attempts or 5 failed reads in a row.  How long it takes is not modelled.
PolledRaces(race, balance) ==
    {[race EXCEPT !.poll = "gave up"]}
    \cup IF balance < race.before THEN {[race EXCEPT !.poll = "seen"]} ELSE {}

WonWhenAnswered(race) == race.fire \in {"hash", "refused"} \/ race.poll = "seen"
LostWhenPollGivesUp(race) == race.poll = "gave up"

Won(race) == race.fire = "hash" \/ race.poll = "seen"
Lost(race) == race.fire = "refused" /\ race.poll = "gave up"

\* A transaction goes to the node when the user signs the call in front.
Submit(by, call) ==
    /\ Len(sent) < MaxSent
    /\ sent' = Append(sent, [by |-> by, call |-> call.call, token |-> call.token,
                          amount |-> call.amount, status |-> "pending"])

\* The places of the orders a run sent.
OrdersSent(by) == {i \in DOMAIN sent : sent[i].by = by /\ sent[i].call = "order"}
=============================================================================
