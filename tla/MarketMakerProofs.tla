------------------------- MODULE MarketMakerProofs -------------------------
(***************************************************************************)
(* No fill is tracked twice, for every set of fills, every market and any  *)
(* number of restarts and failures.                                        *)
(***************************************************************************)
EXTENDS MarketMaker, TLAPS

(* TrackedOnce alone is not inductive: a thread that is past the checks of  *)
(* _handle_fill adds its position whatever the tracker holds by then.  What *)
(* saves it is that it holds _fill_lock since it checked.                   *)
Adding(t) ==
    pc[t] = "add" => lock = t /\ (fill[t] \in Fills => ~Known(fill[t]))

Counted == open \in [Fills -> Nat] /\ closed \in [Fills -> Nat]

HasThreads == DOMAIN pc = Threads /\ DOMAIN fill = Threads
              /\ pc = [t \in Threads |-> pc[t]] /\ fill = [t \in Threads |-> fill[t]]

TrackInv == Counted /\ HasThreads /\ TrackedOnce /\ \A t \in Threads : Adding(t)

Tracked == <<open, closed>>

USE DEF worldVars, logVars, trackerVars, marketVars, threadVars, boundVars

-----------------------------------------------------------------------------
LEMMA ThreadsDiffer == Threads = {Main, Listener} /\ Main # Listener
  BY DEF Threads, Main, Listener

LEMMA InitInv == Init => TrackInv
<1>1. ASSUME Init PROVE TrackInv
  <2>1. Counted /\ TrackedOnce
    BY <1>1 DEF Init, Counted, TrackedOnce
  <2>2. HasThreads /\ \A t \in Threads : pc[t] # "add"
    BY <1>1, ThreadsDiffer DEF Init, HasThreads, FreshPc, NoFills, Main
  <2> QED
    BY <2>1, <2>2 DEF TrackInv, Adding
<1> QED
  BY <1>1

(* A step of thread t that leaves the tracker alone, does not send t into   *)
(* add_position, and gives the lock back only if t holds it.                *)
LEMMA OtherStep ==
    ASSUME TrackInv, NEW t \in Threads, UNCHANGED Tracked,
           NEW step, step # "add", Goto(t, step),
           fill' = fill \/ \E f : fill' = [fill EXCEPT ![t] = f],
           lock' = lock \/ (lock = t /\ lock' = NoThread)
    PROVE  TrackInv'
<1>1. Counted' /\ TrackedOnce'
  BY DEF TrackInv, Counted, TrackedOnce, Tracked
<1>2. HasThreads'
  BY DEF TrackInv, HasThreads, Goto
<1>3. ASSUME NEW u \in Threads PROVE Adding(u)'
  <2>1. CASE u = t
    BY <2>1 DEF TrackInv, HasThreads, Goto, Adding
  <2>2. CASE u # t
    <3>1. pc'[u] = pc[u] /\ fill'[u] = fill[u]
      BY <2>2 DEF TrackInv, HasThreads, Goto
    <3>2. Known(fill[u])' <=> Known(fill[u])
      BY <3>1 DEF Known, Tracked
    <3>3. Adding(u)
      BY DEF TrackInv
    <3> QED
      BY <2>2, <3>1, <3>2, <3>3 DEF Adding, Known, Tracked
  <2> QED
    BY <2>1, <2>2
<1> QED
  BY <1>1, <1>2, <1>3 DEF TrackInv

-----------------------------------------------------------------------------
LEMMA ReceiveStep == TrackInv /\ Receive => TrackInv'
<1> SUFFICES ASSUME TrackInv, Receive PROVE TrackInv'
  OBVIOUS
<1> QED
  BY OtherStep, ThreadsDiffer DEF Receive, Tracked

(* The check passes and takes the lock, or the fill is dropped.             *)
LEMMA CheckFillStep ==
    ASSUME TrackInv, NEW t \in Threads, CheckFill(t)
    PROVE  TrackInv'
<1>1. CASE Goto(t, AfterFill(t)) /\ fill' = [fill EXCEPT ![t] = NoFill] /\ lock' = lock
  BY <1>1, OtherStep DEF CheckFill, Tracked, AfterFill
<1>2. CASE ~Known(fill[t]) /\ lock' = t /\ Goto(t, "add") /\ fill' = fill
  <2>1. Counted' /\ TrackedOnce' /\ HasThreads'
    BY <1>2 DEF CheckFill, TrackInv, Counted, TrackedOnce, HasThreads, Goto
  <2>2. open' = open /\ closed' = closed
    BY DEF CheckFill
  <2>3. ASSUME NEW u \in Threads PROVE Adding(u)'
    <3>1. CASE u = t
      BY <1>2, <2>2, <3>1 DEF Adding, Known
    <3>2. CASE u # t
      <4>1. lock = NoThread
        BY DEF CheckFill, LockFree
      <4>2. pc[u] # "add"
        BY <4>1 DEF TrackInv, Adding, NoThread, Threads, Main, Listener
      <4> QED
        BY <1>2, <3>2, <4>2 DEF TrackInv, HasThreads, Goto, Adding
    <3> QED
      BY <3>1, <3>2
  <2> QED
    BY <2>1, <2>3 DEF TrackInv
<1> QED
  BY <1>1, <1>2 DEF CheckFill

(* Only the holder of the lock adds, and the fill it checked is not known.  *)
LEMMA AddPositionStep ==
    ASSUME TrackInv, NEW t \in Threads, AddPosition(t)
    PROVE  TrackInv'
<1>1. pc[t] = "add" /\ lock = t /\ lock' = lock /\ fill' = fill /\ closed' = closed
  BY DEF AddPosition, TrackInv, Adding
<1>2. pc' = [pc EXCEPT ![t] = "net"]
  BY DEF AddPosition, Goto
<1>3. HasThreads'
  BY <1>1, <1>2 DEF TrackInv, HasThreads
<1>4. open' = open \/ open' = [open EXCEPT ![fill[t]] = @ + 1]
  BY DEF AddPosition
<1>5. Counted'
  BY <1>1, <1>4 DEF TrackInv, Counted
<1>6. ASSUME NEW f \in Fills PROVE open'[f] + closed'[f] <= 1
  <2>1. CASE f = fill[t] /\ open' # open
    <3>1. ~Known(f)
      BY <1>1, <2>1 DEF TrackInv, Adding
    <3>2. open[f] \in Nat /\ closed[f] \in Nat
      BY DEF TrackInv, Counted
    <3>3. open[f] = 0 /\ closed[f] = 0
      BY <3>1, <3>2 DEF Known
    <3>4. open'[f] = open[f] + 1
      BY <1>4, <2>1 DEF TrackInv, Counted
    <3> QED
      BY <1>1, <3>3, <3>4
  <2>2. CASE ~(f = fill[t] /\ open' # open)
    BY <1>1, <1>4, <2>2 DEF TrackInv, Counted, TrackedOnce
  <2> QED
    BY <2>1, <2>2
<1>7. ASSUME NEW u \in Threads PROVE pc'[u] # "add"
  <2>1. u = t \/ pc[u] # "add"
    BY <1>1 DEF TrackInv, Adding
  <2> QED
    BY <1>2, <2>1 DEF TrackInv, HasThreads
<1> QED
  BY <1>3, <1>5, <1>6, <1>7 DEF TrackInv, TrackedOnce, Adding

LEMMA RebalanceStep ==
    ASSUME TrackInv, NEW t \in Threads,
           ReadNetDelta(t) \/ ReadHedge(t) \/ (OpenHedge(t) /\ resume # "add")
    PROVE  TrackInv'
<1>1. CASE ReadNetDelta(t)
  BY <1>1, OtherStep DEF ReadNetDelta, Tracked
<1>2. CASE ReadHedge(t)
  BY <1>2, OtherStep DEF ReadHedge, Tracked
<1>3. CASE OpenHedge(t) /\ resume # "add"
  <2>1. UNCHANGED Tracked
    BY <1>3 DEF OpenHedge, Tracked
  <2>2. CASE lock = t
    BY <1>3, <2>1, <2>2, OtherStep DEF OpenHedge, EndRebalance, AfterFill
  <2>3. CASE lock # t
    BY <1>3, <2>1, <2>3, OtherStep DEF OpenHedge, EndRebalance
  <2> QED
    BY <2>2, <2>3
<1> QED
  BY <1>1, <1>2, <1>3

LEMMA NextFillStep == TrackInv /\ NextFill => TrackInv'
<1> SUFFICES ASSUME TrackInv, NextFill PROVE TrackInv'
  OBVIOUS
<1>0. Main \in Threads /\ UNCHANGED Tracked /\ lock' = lock
  BY ThreadsDiffer DEF NextFill, Tracked
<1>1. CASE Goto(Main, "expiries") /\ fill' = fill
  BY <1>0, <1>1, OtherStep
<1>2. CASE fill' = fill /\ pc' = pc
  BY <1>0, <1>2 DEF TrackInv, Counted, TrackedOnce, HasThreads, Adding, Known, Tracked
<1>3. CASE Goto(Main, "lock") /\ fill' = [fill EXCEPT ![Main] = Head(todo)]
  BY <1>0, <1>3, OtherStep
<1> QED
  BY <1>1, <1>2, <1>3 DEF NextFill

(* An expiry moves positions from open to closed and keeps their number.    *)
LEMMA CheckExpiriesStep == TrackInv /\ CheckExpiries => TrackInv'
<1> SUFFICES ASSUME TrackInv, CheckExpiries PROVE TrackInv'
  OBVIOUS
<1>1. CASE open' = open /\ closed' = closed
  BY <1>1, OtherStep, ThreadsDiffer DEF CheckExpiries, Tracked
<1>2. CASE /\ closed' = [f \in Fills |-> closed[f] + open[f]]
           /\ open' = [f \in Fills |-> 0]
  <2>1. Counted' /\ TrackedOnce'
    BY <1>2 DEF TrackInv, Counted, TrackedOnce
  <2>2. \E step : step # "add" /\ pc' = [pc EXCEPT ![Main] = step]
    BY DEF CheckExpiries, Goto
  <2>3. HasThreads' /\ fill' = fill /\ lock' = lock
    BY <2>2 DEF TrackInv, HasThreads, CheckExpiries
  <2>4. ASSUME NEW u \in Threads PROVE Adding(u)'
    <3>1. pc'[u] = "add" => pc[u] = "add"
      BY <2>2 DEF TrackInv, HasThreads
    <3>2. ASSUME fill[u] \in Fills PROVE Known(fill[u])' <=> Known(fill[u])
      <4> DEFINE f == fill[u]
      <4>1. open'[f] = 0 /\ closed'[f] = closed[f] + open[f] /\ f' = f
        BY <1>2, <2>3, <3>2
      <4>2. open[f] \in Nat /\ closed[f] \in Nat
        BY <3>2 DEF TrackInv, Counted
      <4> QED
        BY <4>1, <4>2, <2>3 DEF Known
    <3>3. Adding(u)
      BY DEF TrackInv
    <3> QED
      BY <2>3, <3>1, <3>2, <3>3 DEF Adding
  <2> QED
    BY <2>1, <2>3, <2>4 DEF TrackInv
<1> QED
  BY <1>1, <1>2 DEF CheckExpiries

LEMMA MainLoopStep ==
    ASSUME TrackInv, PollFills \/ RefreshMarket \/ CacheAndRecalculate
    PROVE  TrackInv'
<1>0. Main \in Threads
  BY ThreadsDiffer
<1>1. CASE PollFills
  BY <1>0, <1>1, OtherStep DEF PollFills, Tracked
<1>2. CASE RefreshMarket
  BY <1>0, <1>2, OtherStep DEF RefreshMarket, Tracked
<1>3. CASE CacheAndRecalculate
  BY <1>0, <1>3, OtherStep DEF CacheAndRecalculate, AfterCaching, Tracked
<1> QED
  BY <1>1, <1>2, <1>3

(* A restart tracks each fill it recovers once, and nothing else.           *)
LEMMA RestartStep == TrackInv /\ Restart => TrackInv'
<1> SUFFICES ASSUME TrackInv, Restart PROVE TrackInv'
  OBVIOUS
<1>1. \E recovered : StartWith(recovered)
  BY DEF Restart
<1>2. Counted' /\ TrackedOnce'
  BY <1>1 DEF StartWith, Counted, TrackedOnce
<1>3. HasThreads' /\ \A t \in Threads : pc'[t] # "add"
  BY DEF Restart, HasThreads, FreshPc, NoFills
<1> QED
  BY <1>2, <1>3 DEF TrackInv, Adding

-----------------------------------------------------------------------------
(* Where the main loop goes on after rebalancing is never add_position.     *)
Resumes == resume \in MainSteps

LEMMA ResumesInductive == Resumes /\ [Next]_vars => Resumes'
  BY DEF Resumes, MainSteps, Next, MainStep, ListenerStep, Handle, vars, Receive,
         CheckFill, AddPosition, ReadNetDelta, ReadHedge, OpenHedge, PollFills,
         NextFill, CheckExpiries, RefreshMarket, CacheAndRecalculate, Execute,
         Renotify, Expire, Restart

LEMMA InvInductive == TrackInv /\ Resumes /\ [Next]_vars => TrackInv'
<1> SUFFICES ASSUME TrackInv, Resumes, [Next]_vars PROVE TrackInv'
  OBVIOUS
<1>1. ASSUME NEW t \in Threads, Handle(t) PROVE TrackInv'
  BY <1>1, CheckFillStep, AddPositionStep, RebalanceStep
  DEF Handle, Resumes, MainSteps
<1>2. CASE MainStep
  BY <1>1, <1>2, ThreadsDiffer, NextFillStep, CheckExpiriesStep, MainLoopStep
  DEF MainStep
<1>3. CASE ListenerStep
  BY <1>1, <1>3, ThreadsDiffer, ReceiveStep DEF ListenerStep
<1>4. CASE \/ \E f \in Fills : Execute(f) \/ Renotify(f)
           \/ Expire
           \/ vars' = vars
  <2>1. UNCHANGED <<open, closed, pc, fill, lock>>
    BY <1>4 DEF Execute, Renotify, Expire, vars
  <2> QED
    BY <2>1 DEF TrackInv, Counted, TrackedOnce, HasThreads, Adding, Known
<1>5. CASE Restart
  BY <1>5, RestartStep
<1> QED
  BY <1>2, <1>3, <1>4, <1>5 DEF Next

\* In every execution, whatever the two threads' interleaving (_handle_fill), no
\* fill is tracked by more than one position.
THEOREM NeverTwice == Spec => []TrackedOnce
<1>1. Init => TrackInv /\ Resumes
  BY InitInv DEF Init, Resumes, MainSteps
<1>2. TrackInv /\ Resumes /\ [Next]_vars => (TrackInv /\ Resumes)'
  BY InvInductive, ResumesInductive
<1>3. TrackInv => TrackedOnce
  BY DEF TrackInv
<1> QED
  BY <1>1, <1>2, <1>3, PTL DEF Spec
=============================================================================
