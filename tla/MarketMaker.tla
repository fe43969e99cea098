----------------------------- MODULE MarketMaker -----------------------------
(***************************************************************************)
(* The market maker bot (market-maker/src) in live hedge mode on one       *)
(* asset.  Two threads handle fills: the listener takes them from the      *)
(* WebSocket, the main loop polls the REST API for those it missed, checks *)
(* expiries, refreshes the market data and rebalances the hedge.  Both     *)
(* handle a fill under _fill_lock; the main loop rebalances without it.    *)
(*                                                                         *)
(* All fills are of one oToken.  A position's delta is the fill's signed   *)
(* size times the market's level.  A restart forgets everything but the    *)
(* trade log, the hedge at the exchange and the fills at the backend.      *)
(*                                                                         *)
(* Bounds: PollLimit stands for the limit of 10 of a poll, MaxMoves bounds *)
(* market moves, MaxFailures what fails and MaxCrashes restarts.           *)
(***************************************************************************)
EXTENDS Integers, Sequences, SequencesExt, FiniteSetsExt

CONSTANTS
    Fills,
    Size,           \* fill |-> signed option amount, negative for a put
    Levels,         \* factors the market moves deltas by
    PollLimit,
    MaxMoves,
    MaxFailures,
    MaxCrashes,
    NoFill,
    Allowed         \* which of Hazards can happen

(* drop, again: a WebSocket message is lost, is sent twice.  rest, market,  *)
(* iv, read, order: a poll, the market data, its IV, the exchange's         *)
(* positions or an order fails.  log: a trade log write fails.  seed:       *)
(* seeding _seen_tx_hashes fails.  crash: the process restarts.  expiry:    *)
(* the option expires.                                                      *)
Hazards == {"drop", "again", "rest", "market", "iv", "read", "order", "log", "seed",
            "crash", "expiry"}

Main == "main"
Listener == "listener"
Threads == {Main, Listener}
NoThread == "none"

ASSUME MarketMakerAssumption ==
    /\ NoFill \notin Fills
    /\ Size \in [Fills -> Int]
    /\ Levels \subseteq Int /\ 1 \in Levels
    /\ PollLimit \in Nat
    /\ MaxMoves \in Nat /\ MaxFailures \in Nat /\ MaxCrashes \in Nat
    /\ Allowed \subseteq Hazards

VARIABLES
    executed,   \* the fills at the backend, oldest first
    expired,
    hedge,      \* signed size of the position at the exchange
    tradeLog,   \* the fills whose position_opened event is in the trade log
    logDelta,   \* fill |-> the delta that event gives
    stream,     \* WebSocket messages on their way
    open,       \* fill |-> open positions tracked for it
    closed,     \* fill |-> closed ones
    delta,      \* fill |-> current_delta of its positions
    seen,       \* _seen_tx_hashes
    spot, iv,   \* whether the market snapshot has a spot price, and an IV
    level,
    cached,     \* whether _otoken_cache holds the oToken
    lock,       \* holder of _fill_lock
    pc,         \* thread |-> its next step
    fill,       \* thread |-> the fill it handles
    todo,       \* what is left of the main loop's poll
    net,        \* thread |-> net_d of rebalance_hedge
    size,       \* thread |-> its current_size
    resume,     \* where the main loop goes on after rebalancing
    moves, failures, crashes

logVars == <<tradeLog, logDelta>>
worldVars == <<executed, expired, logVars, stream>>
trackerVars == <<open, closed, delta, seen>>
marketVars == <<spot, iv, level, cached>>
threadVars == <<lock, pc, fill, todo, net, size, resume>>
boundVars == <<moves, failures, crashes>>
vars == <<worldVars, hedge, trackerVars, marketVars, threadVars, boundVars>>

MainSteps == {"poll", "next", "expiries", "market", "cache"}
FillSteps == {"lock", "add"}
HedgeSteps == {"net", "read", "order"}

OpenFills == {f \in Fills : open[f] > 0}

\* PositionTracker.net_delta
NetDelta == MapThenSumSet(LAMBDA f : open[f] * delta[f], Fills)

FreshPc == [t \in Threads |-> IF t = Main THEN "poll" ELSE "idle"]
NoFills == [t \in Threads |-> NoFill]
Zeros == [t \in Threads |-> 0]

Init ==
    /\ executed = <<>> /\ expired = FALSE /\ hedge = 0 /\ tradeLog = {} /\ stream = <<>>
    /\ open = [f \in Fills |-> 0] /\ closed = [f \in Fills |-> 0]
    /\ delta = [f \in Fills |-> 0] /\ logDelta = delta /\ seen = {}
    /\ spot = FALSE /\ iv = FALSE /\ level = 1 /\ cached = FALSE
    /\ lock = NoThread /\ todo = <<>> /\ resume = "poll"
    /\ pc = FreshPc /\ fill = NoFills /\ net = Zeros /\ size = Zeros
    /\ moves = 0 /\ failures = 0 /\ crashes = 0

-----------------------------------------------------------------------------
(* Outside the bot.                                                         *)

Fails(hazard) ==
    /\ hazard \in Allowed /\ failures < MaxFailures
    /\ failures' = failures + 1 /\ UNCHANGED <<moves, crashes>>

Works == UNCHANGED boundVars

Execute(f) ==
    /\ ~expired /\ f \notin ToSet(executed)
    /\ executed' = Append(executed, f)
    /\ \/ stream' = Append(stream, f) /\ Works
       \/ Fails("drop") /\ UNCHANGED stream
    /\ UNCHANGED <<expired, logVars, hedge, trackerVars, marketVars, threadVars>>

\* The indexer's rescan announces every fill it finds again.
Renotify(f) ==
    /\ f \in ToSet(executed) /\ Fails("again")
    /\ stream' = Append(stream, f)
    /\ UNCHANGED <<executed, expired, logVars, hedge, trackerVars, marketVars, threadVars>>

Expire ==
    /\ "expiry" \in Allowed /\ ~expired
    /\ expired' = TRUE
    /\ UNCHANGED <<executed, logVars, stream, hedge, trackerVars, marketVars,
                   threadVars, boundVars>>

\* GET /mm/fills: the newest first.
Recent(limit) == SubSeq(Reverse(executed), 1, Min({limit, Len(executed)}))

-----------------------------------------------------------------------------
(* Handling a fill.                                                         *)

Goto(t, step) == pc' = [pc EXCEPT ![t] = step]

AfterFill(t) == IF t = Main THEN "next" ELSE "idle"

Receive ==
    /\ pc[Listener] = "idle" /\ stream # <<>>
    /\ stream' = Tail(stream)
    /\ fill' = [fill EXCEPT ![Listener] = Head(stream)]
    /\ Goto(Listener, "lock")
    /\ UNCHANGED <<executed, expired, logVars, hedge, trackerVars, marketVars,
                   lock, todo, net, size, resume, boundVars>>

LockFreeIgnored == TRUE

LockFree == lock = NoThread

Known(f) == open[f] + closed[f] > 0

\* _handle_fill up to the market check.  Taking the lock and giving it back at
\* an early return is one step.
CheckFill(t) ==
    /\ pc[t] = "lock" /\ LockFree
    /\ LET f == fill[t]
       IN  \/ /\ Known(f) \/ f \in seen \/ ~(spot /\ iv)
              /\ seen' = IF Known(f) THEN seen \cup {f} ELSE seen
              /\ Goto(t, AfterFill(t)) /\ fill' = [fill EXCEPT ![t] = NoFill]
              /\ UNCHANGED lock
           \/ /\ ~Known(f) /\ f \notin seen /\ spot /\ iv
              /\ lock' = t /\ Goto(t, "add")
              /\ UNCHANGED <<seen, fill>>
    /\ UNCHANGED <<worldVars, hedge, open, closed, delta, marketVars, todo, net, size,
                   resume, boundVars>>

\* add_position, which logs the position it adds, and ignores a fill whose
\* oToken is not cached; the fill is seen in either case.
AddPosition(t) ==
    /\ pc[t] = "add"
    /\ LET f == fill[t]
       IN  /\ seen' = seen \cup {f}
           /\ \/ /\ cached
                 /\ open' = [open EXCEPT ![f] = @ + 1]
                 /\ delta' = [delta EXCEPT ![f] = Size[f] * level]
                 /\ \/ /\ tradeLog' = tradeLog \cup {f}
                       /\ logDelta' = [logDelta EXCEPT ![f] = Size[f] * level]
                       /\ Works
                    \/ Fails("log") /\ UNCHANGED logVars
              \/ ~cached /\ Works /\ UNCHANGED <<open, delta, logVars>>
    /\ Goto(t, "net")
    /\ UNCHANGED <<executed, expired, stream, hedge, closed, marketVars, lock, fill,
                   todo, net, size, resume>>

-----------------------------------------------------------------------------
(* rebalance_hedge.                                                         *)

ReadNetDelta(t) ==
    /\ pc[t] = "net" /\ Goto(t, "read")
    /\ net' = [net EXCEPT ![t] = NetDelta]
    /\ UNCHANGED <<worldVars, hedge, trackerVars, marketVars, lock, fill, todo, size,
                   resume, boundVars>>

\* get_positions returns no position at all when the read fails, and the guard
\* for that asks for a simulated hedge, which live mode never keeps.
ReadHedge(t) ==
    /\ pc[t] = "read" /\ Goto(t, "order")
    /\ \/ size' = [size EXCEPT ![t] = hedge] /\ Works
       \/ Fails("read") /\ size' = [size EXCEPT ![t] = 0]
    /\ UNCHANGED <<worldVars, hedge, trackerVars, marketVars, lock, fill, todo, net, resume>>

\* A thread that handles a fill gives the lock back and goes on.
EndRebalance(t) ==
    IF lock = t
    THEN lock' = NoThread /\ Goto(t, AfterFill(t)) /\ fill' = [fill EXCEPT ![t] = NoFill]
    ELSE Goto(t, resume) /\ UNCHANGED <<lock, fill>>

OpenHedge(t) ==
    /\ pc[t] = "order"
    /\ \/ hedge' = hedge + (net[t] - size[t]) /\ Works
       \/ net[t] # size[t] /\ Fails("order") /\ UNCHANGED hedge
    /\ EndRebalance(t)
    /\ net' = [net EXCEPT ![t] = 0] /\ size' = [size EXCEPT ![t] = 0]
    /\ UNCHANGED <<worldVars, trackerVars, marketVars, todo, resume>>

-----------------------------------------------------------------------------
(* The main loop.                                                           *)

\* _poll_fills_rest does nothing before the first market data.
PollFills ==
    /\ pc[Main] = "poll" /\ Goto(Main, "next")
    /\ \/ spot /\ todo' = Recent(PollLimit) /\ Works
       \/ ~spot /\ todo' = <<>> /\ Works
       \/ spot /\ todo' = <<>> /\ Fails("rest")
    /\ UNCHANGED <<worldVars, hedge, trackerVars, marketVars, lock, fill, net, size, resume>>

NextFill ==
    /\ pc[Main] = "next"
    /\ \/ /\ todo = <<>> /\ Goto(Main, "expiries")
          /\ UNCHANGED <<fill, todo>>
       \/ /\ todo # <<>> /\ Head(todo) \in seen
          /\ todo' = Tail(todo) /\ UNCHANGED <<fill, pc>>
       \/ /\ todo # <<>> /\ Head(todo) \notin seen
          /\ todo' = Tail(todo) /\ Goto(Main, "lock")
          /\ fill' = [fill EXCEPT ![Main] = Head(todo)]
    /\ UNCHANGED <<worldVars, hedge, trackerVars, marketVars, lock, net, size, resume,
                   boundVars>>

\* check_expiries, and a rebalance if it closed anything.
CheckExpiries ==
    /\ pc[Main] = "expiries"
    /\ \/ /\ spot /\ expired /\ OpenFills # {}
          /\ closed' = [f \in Fills |-> closed[f] + open[f]]
          /\ open' = [f \in Fills |-> 0]
          /\ Goto(Main, "net") /\ resume' = "market"
       \/ /\ ~spot \/ ~expired \/ OpenFills = {}
          /\ Goto(Main, "market") /\ resume' = "poll"
          /\ UNCHANGED <<open, closed>>
    /\ UNCHANGED <<worldVars, hedge, delta, seen, marketVars, lock, fill, todo, net, size,
                   boundVars>>

\* _run_asset_cycle: the snapshot is set before the IV is validated.
RefreshMarket ==
    /\ pc[Main] = "market"
    /\ \/ /\ spot' = TRUE /\ iv' = TRUE /\ Goto(Main, "cache")
          /\ \/ UNCHANGED level /\ Works
             \/ /\ moves < MaxMoves /\ level' \in Levels
                /\ moves' = moves + 1 /\ UNCHANGED <<failures, crashes>>
       \/ Fails("market") /\ Goto(Main, "poll") /\ UNCHANGED <<spot, iv, level>>
       \/ /\ Fails("iv") /\ spot' = TRUE /\ iv' \in BOOLEAN /\ Goto(Main, "poll")
          /\ UNCHANGED level
    /\ UNCHANGED <<worldVars, hedge, trackerVars, cached, lock, fill, todo, net, size, resume>>

RebalancesNever == "poll"

AfterCaching == IF OpenFills = {} THEN "poll" ELSE "net"

\* cache_otokens and recalculate_deltas; only unexpired oTokens are available.
CacheAndRecalculate ==
    /\ pc[Main] = "cache" /\ resume' = "poll"
    /\ cached' = (cached \/ ~expired)
    /\ delta' = [f \in Fills |-> IF open[f] > 0 THEN Size[f] * level ELSE delta[f]]
    /\ Goto(Main, AfterCaching)
    /\ UNCHANGED <<worldVars, hedge, open, closed, seen, spot, iv, level, lock, fill, todo,
                   net, size, boundVars>>

-----------------------------------------------------------------------------
(* Restart.                                                                 *)

\* recover_positions: the trade log's unexpired positions, or with an empty log
\* and a hedge the newest fill, which is logged then with a fresh delta, unless
\* the exchange or the backend does not answer.
Recovered ==
    IF expired THEN {}
    ELSE IF tradeLog = {} /\ hedge # 0 THEN ToSet(Recent(1))
    ELSE tradeLog

\* Everything in memory starts again from what was recovered.
StartWith(recovered) ==
    /\ tradeLog' = tradeLog \cup recovered
    /\ logDelta' = [f \in Fills |-> IF f \in recovered \ tradeLog THEN Size[f]
                                    ELSE logDelta[f]]
    /\ open' = [f \in Fills |-> IF f \in recovered THEN 1 ELSE 0]
    /\ closed' = [f \in Fills |-> 0]
    /\ delta' = [f \in Fills |-> IF f \in recovered THEN logDelta'[f] ELSE 0]

Restart ==
    /\ "crash" \in Allowed /\ crashes < MaxCrashes
    /\ crashes' = crashes + 1
    /\ stream' = <<>>
    /\ \/ /\ StartWith(Recovered) /\ UNCHANGED failures
          /\ seen' = Recovered \cup ToSet(executed)
       \/ /\ "seed" \in Allowed /\ failures < MaxFailures /\ failures' = failures + 1
          /\ StartWith(Recovered) /\ seen' = Recovered
       \/ /\ "read" \in Allowed /\ failures < MaxFailures /\ failures' = failures + 1
          /\ tradeLog = {} /\ StartWith({}) /\ seen' = ToSet(executed)
    /\ spot' = FALSE /\ iv' = FALSE /\ level' = 1 /\ cached' = FALSE
    /\ lock' = NoThread /\ todo' = <<>> /\ resume' = "poll"
    /\ pc' = FreshPc /\ fill' = NoFills /\ net' = Zeros /\ size' = Zeros
    /\ UNCHANGED <<executed, expired, hedge, moves>>

-----------------------------------------------------------------------------
Handle(t) ==
    CheckFill(t) \/ AddPosition(t) \/ ReadNetDelta(t) \/ ReadHedge(t) \/ OpenHedge(t)

MainStep ==
    PollFills \/ NextFill \/ CheckExpiries \/ RefreshMarket \/ CacheAndRecalculate
    \/ Handle(Main)

ListenerStep == Receive \/ Handle(Listener)

Next ==
    \/ MainStep
    \/ ListenerStep
    \/ \E f \in Fills : Execute(f) \/ Renotify(f)
    \/ Expire
    \/ Restart

(* Both threads keep running: the loops never end and every lock is given   *)
(* back after a bounded number of steps.  A thread waiting for the lock may *)
(* be overtaken, but not for ever.                                          *)
Fairness ==
    /\ WF_vars(MainStep) /\ WF_vars(ListenerStep)
    /\ \A t \in Threads : SF_vars(CheckFill(t))

Spec == Init /\ [][Next]_vars
FairSpec == Spec /\ Fairness

-----------------------------------------------------------------------------
(* Properties.                                                              *)

\* A fill is tracked at most once, however often the WebSocket, the poll, a
\* restart and the bootstrap bring it up (_handle_fill, recover_positions): a
\* second position would be hedged twice.
TrackedOnce == \A f \in Fills : open[f] + closed[f] <= 1

\* While positions are open the hedge comes to match their net delta in the end,
\* although both threads read and order without excluding each other, reads and
\* orders fail and the bot restarts (rebalance_hedge).
HedgeFollowsPositions == <>[](OpenFills # {} => hedge = NetDelta)

\* "Poll fills via REST as fallback (WS may miss events)": a fill is tracked in
\* the end, unless its option expires first.
FillsAreTracked ==
    \A f \in Fills : [](f \in ToSet(executed) => <>(Known(f) \/ expired))
=============================================================================
