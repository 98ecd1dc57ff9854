----------------------- MODULE ProtectiveStopsProofs -----------------------
(***************************************************************************)
(* For every size of position, every number of stops, failures and         *)
(* restarts: ProtectiveStops is type correct and, until something fails,   *)
(* an exit that reaches the broker finds every stop cancelled and is       *)
(* refused only for want of shares; and until something fails or a route   *)
(* caches orders older than an order, no stop rests beside a working close.*)
(***************************************************************************)
EXTENDS ProtectiveStops, FiniteSetTheorems, TLAPS

\* An orders read of which nothing is missing: what works at the broker was
\* there when it was taken, and was no smaller.
Covers(orders) ==
    /\ \A s \in Slots : stops[s] <= orders.stops[s]
    /\ closing <= orders.closing

\* Nothing has failed, and no route has cached orders older than an order.
Calm == faults = 0 /\ ~crossed

\* A cached read misses nothing: whatever adds an order empties the cache, and
\* only an answer that order has overtaken could fill it again.
CacheCovers == Calm /\ ordCache.full => Covers(ordCache.orders)
FlightCovers == faults = 0 /\ flight.kind = "orders" /\ ~flight.late => Covers(flight.orders)
SeenCovers == Calm /\ phase = "decide" => Covers(seen.orders)

\* Before the first order of a cycle no answer is older than an order, wherever
\* it is: the wait between cycles has emptied the cache and ended every read.
Fresh ==
    /\ ordCache.full => Covers(ordCache.orders)
    /\ flight.kind = "orders" => Covers(flight.orders)
BeforeOrders == phase = "exits" \/ (phase \in {"clear", "cancel"} /\ want > 0)
FreshBeforeOrders == faults = 0 /\ BeforeOrders => Fresh

\* ensure_stops replaces stops only where it has seen no close.
NoCloseWhileReplacing ==
    Calm /\ want = 0 /\ phase \in {"clear", "cancel", "confirm", "replace"} => closing = 0

\* An exit has cancelled, or has yet to cancel, every stop; when it sells, none
\* is left.
ClearedBeforeSell ==
    faults = 0 =>
        /\ phase = "cancel" /\ want > 0 => \A s \in Slots \ todo : stops[s] = 0
        /\ phase = "sell" => \A s \in Slots : stops[s] = 0

WantedInExitsOnly ==
    /\ phase \notin {"clear", "cancel", "sell"} => want = 0
    /\ phase = "sell" => want > 0

IInv ==
    /\ TypeOK
    /\ CacheCovers
    /\ FlightCovers
    /\ SeenCovers
    /\ FreshBeforeOrders
    /\ NoCloseWhileReplacing
    /\ ClearedBeforeSell
    /\ WantedInExitsOnly
    /\ StopsAndClosesApart

USE HeldAssumption, BoundsAssumption

-----------------------------------------------------------------------------
(* Reads *)

LEMMA NoOrdersType ==
    /\ NoOrders \in Orders
    /\ UnreadOrders \in [full : BOOLEAN, orders : Orders]
    /\ NoFlight \in Flights
<1>1. NoOrders \in Orders
  BY DEF NoOrders, Orders
<1>2. 0 \in Shares
  BY DEF Shares
<1> QED BY <1>1, <1>2 DEF UnreadOrders, NoFlight, Flights

LEMMA UnreadType == Unread \in [full : BOOLEAN, qty : Shares] /\ NothingSeen \in [qty : Shares, orders : Orders]
BY NoOrdersType DEF Unread, Shares, NothingSeen

LEMMA AnswerTypes ==
    ASSUME TypeOK, NEW p, NEW o
    PROVE  PositionsAnswer(p) \in Shares /\ OrdersAnswer(o) \in Orders
BY NoOrdersType DEF TypeOK, PositionsAnswer, OrdersAnswer, Shares, Orders

LEMMA FaultsType ==
    ASSUME TypeOK, NEW fine \in BOOLEAN, Faults(fine)
    PROVE  faults' \in 0..MaxFaults /\ (fine => faults' = faults) /\ (~fine => faults' > 0)
BY DEF TypeOK, Faults

LEMMA CoversItself == ASSUME TypeOK PROVE Covers([stops |-> stops, closing |-> closing])
<1>1. closing <= closing /\ \A s \in Slots : stops[s] <= stops[s]
  BY SMT DEF TypeOK
<1> QED BY <1>1 DEF Covers

\* A read that did not fail misses nothing, unless the cache does.
LEMMA AnswerCovers ==
    ASSUME TypeOK, ordCache.full => Covers(ordCache.orders), NEW o, o = "ok"
    PROVE  Covers(OrdersAnswer(o))
<1>1. CASE ordCache.full
  BY <1>1 DEF OrdersAnswer
<1>2. CASE ~ordCache.full
  <2>1. OrdersAnswer(o) = [stops |-> stops, closing |-> closing]
    BY <1>2 DEF OrdersAnswer
  <2> QED BY <2>1, CoversItself
<1> QED BY <1>1, <1>2

\* A read leaves types as they are, and if it did not fail it is complete and
\* no fault was counted.
LEMMA LiveStateStep ==
    ASSUME IInv, NEW p \in {"ok", "bad"}, NEW o \in {"ok", "bad", "empty"}, LiveState(p, o)
    PROVE  /\ posCache' \in [full : BOOLEAN, qty : Shares]
           /\ ordCache' \in [full : BOOLEAN, orders : Orders]
           /\ faults' \in 0..MaxFaults
           /\ faults' = 0 => /\ faults = 0
                             /\ ordCache'.orders = OrdersAnswer(o)
                             /\ ~crossed \/ BeforeOrders => Covers(OrdersAnswer(o))
<1>1. faults' \in 0..MaxFaults /\ (p = "ok" /\ o = "ok" => faults' = faults)
      /\ (~(p = "ok" /\ o = "ok") => faults' > 0)
  BY FaultsType DEF LiveState, IInv
<1>2. posCache' \in [full : BOOLEAN, qty : Shares]
  BY AnswerTypes DEF LiveState, IInv, TypeOK
<1>3. ordCache' \in [full : BOOLEAN, orders : Orders]
  BY AnswerTypes DEF LiveState, IInv, TypeOK
<1>4. ASSUME faults' = 0 PROVE faults = 0 /\ o = "ok" /\ ordCache'.orders = OrdersAnswer(o)
  BY <1>1, <1>4 DEF LiveState
<1>5. ASSUME faults' = 0, ~crossed \/ BeforeOrders PROVE Covers(OrdersAnswer(o))
  <2>1. ordCache.full => Covers(ordCache.orders)
    BY <1>4, <1>5 DEF IInv, CacheCovers, Calm, FreshBeforeOrders, Fresh
  <2> QED BY <1>4, <1>5, <2>1, AnswerCovers DEF IInv
<1> QED BY <1>1, <1>2, <1>3, <1>4, <1>5

-----------------------------------------------------------------------------
(* What a step leaves alone *)

\* A step that changes no order, and no orders answer, but counts what failed.
LEMMA OrdersLeftAlone ==
    ASSUME IInv, UNCHANGED <<stops, closing, ordCache, flight, crossed>>, faults' = 0 => faults = 0
    PROVE  /\ CacheCovers' /\ FlightCovers' /\ StopsAndClosesApart'
           /\ faults' = 0 /\ BeforeOrders => Fresh'
<1>1. CacheCovers' /\ FlightCovers'
  BY DEF IInv, CacheCovers, FlightCovers, Calm, Covers
<1>2. StopsAndClosesApart'
  BY DEF IInv, StopsAndClosesApart, NeverAlongside, Resting
<1>3. faults' = 0 /\ BeforeOrders => Fresh'
  BY DEF IInv, FreshBeforeOrders, Fresh, Covers
<1> QED BY <1>1, <1>2, <1>3

\* A read that fills the cache.
LEMMA OrdersRead ==
    ASSUME IInv, NEW p \in {"ok", "bad"}, NEW o \in {"ok", "bad", "empty"}, LiveState(p, o),
           UNCHANGED <<stops, closing, flight, crossed>>
    PROVE  /\ CacheCovers' /\ FlightCovers' /\ StopsAndClosesApart'
           /\ faults' = 0 /\ BeforeOrders => Fresh'
<1>1. faults' = 0 => /\ faults = 0
                     /\ ordCache'.orders = OrdersAnswer(o)
                     /\ ~crossed \/ BeforeOrders => Covers(OrdersAnswer(o))
  BY LiveStateStep
<1>2. CacheCovers'
  BY <1>1 DEF CacheCovers, Calm, Covers
<1>3. FlightCovers'
  BY <1>1 DEF IInv, FlightCovers, Covers
<1>4. StopsAndClosesApart'
  BY <1>1 DEF IInv, StopsAndClosesApart, NeverAlongside, Resting
<1>5. faults' = 0 /\ BeforeOrders => Fresh'
  BY <1>1 DEF IInv, FreshBeforeOrders, Fresh, Covers
<1> QED BY <1>2, <1>3, <1>4, <1>5

-----------------------------------------------------------------------------
(* Software exits *)

LEMMA ExitBeginsStep == ASSUME IInv, NEW n \in Shares, ExitBegins(n) PROVE IInv'
<1>1. PositionsAnswer("ok") \in Shares
  BY AnswerTypes DEF IInv
<1>2. TypeOK'
  BY <1>1 DEF IInv, TypeOK, ExitBegins, Shares, Phases, brokerVars, counters
<1>3. WantedInExitsOnly' /\ NoCloseWhileReplacing' /\ ClearedBeforeSell' /\ SeenCovers'
  BY <1>1 DEF IInv, ExitBegins, WantedInExitsOnly, NoCloseWhileReplacing, ClearedBeforeSell,
              SeenCovers, Shares
<1>4. CacheCovers' /\ FlightCovers' /\ StopsAndClosesApart' /\ (faults' = 0 /\ BeforeOrders => Fresh')
  <2>1. UNCHANGED <<stops, closing, ordCache, flight, crossed, faults>>
    BY DEF ExitBegins, brokerVars, counters
  <2> QED BY <2>1, OrdersLeftAlone
<1>5. FreshBeforeOrders'
  BY <1>4 DEF ExitBegins, FreshBeforeOrders, BeforeOrders
<1> QED BY <1>2, <1>3, <1>4, <1>5 DEF IInv

LEMMA NoExitStep == ASSUME IInv, NEW p \in {"ok", "bad"}, NoExit(p) PROVE IInv'
<1>1. /\ faults' \in 0..MaxFaults
      /\ faults' = 0 => faults = 0
      /\ posCache' \in [full : BOOLEAN, qty : Shares]
  <2>1. CASE due
    <3>1. Faults(p = "ok") /\ posCache' = IF p = "ok" THEN [full |-> TRUE, qty |-> 0] ELSE posCache
      BY <2>1 DEF NoExit
    <3>2. faults' \in 0..MaxFaults /\ (faults' = 0 => faults = 0)
      BY <3>1 DEF Faults, IInv, TypeOK
    <3> QED BY <3>1, <3>2 DEF IInv, TypeOK, Shares
  <2>2. CASE ~due
    BY <2>2 DEF IInv, TypeOK, NoExit
  <2> QED BY <2>1, <2>2
<1>2. TypeOK'
  BY <1>1 DEF IInv, TypeOK, NoExit, Phases, brokerVars, passVars, counters
<1>3. WantedInExitsOnly' /\ NoCloseWhileReplacing' /\ ClearedBeforeSell' /\ SeenCovers'
      /\ FreshBeforeOrders'
  BY DEF IInv, NoExit, WantedInExitsOnly, NoCloseWhileReplacing, ClearedBeforeSell, SeenCovers,
         FreshBeforeOrders, BeforeOrders, passVars
<1>4. CacheCovers' /\ FlightCovers' /\ StopsAndClosesApart'
  <2>1. UNCHANGED <<stops, closing, ordCache, flight, crossed>>
    BY DEF NoExit, brokerVars, counters
  <2> QED BY <1>1, <2>1, OrdersLeftAlone
<1> QED BY <1>2, <1>3, <1>4 DEF IInv

LEMMA ClearReadsStep ==
    ASSUME IInv, NEW p \in {"ok", "bad"}, NEW o \in {"ok", "bad", "empty"}, ClearReads(p, o)
    PROVE  IInv'
<1>1. LiveState(p, o) /\ UNCHANGED <<stops, closing, flight, crossed, want>>
  BY DEF ClearReads, brokerVars, counters
<1>2. /\ posCache' \in [full : BOOLEAN, qty : Shares]
      /\ ordCache' \in [full : BOOLEAN, orders : Orders]
      /\ faults' \in 0..MaxFaults
      /\ faults' = 0 => /\ faults = 0
                        /\ ~crossed \/ BeforeOrders => Covers(OrdersAnswer(o))
  BY <1>1, LiveStateStep
<1>3. TypeOK'
  BY <1>2 DEF IInv, TypeOK, ClearReads, Phases, brokerVars, counters, Resting
<1>4. faults' = 0 /\ want > 0 => \A s \in Slots \ todo' : stops[s] = 0
  <2> SUFFICES ASSUME faults' = 0, want > 0, NEW s \in Slots \ todo' PROVE stops[s] = 0
    OBVIOUS
  <2>1. OrdersAnswer(o).stops \in [Slots -> Nat] /\ stops \in [Slots -> Nat]
    BY AnswerTypes DEF IInv, TypeOK, Orders
  <2>2. stops[s] <= OrdersAnswer(o).stops[s]
    BY <1>2 DEF Covers, ClearReads, BeforeOrders
  <2>3. ~(OrdersAnswer(o).stops[s] > 0)
    BY DEF ClearReads, Resting
  <2> QED BY <2>1, <2>2, <2>3
<1>5. WantedInExitsOnly' /\ NoCloseWhileReplacing' /\ SeenCovers'
  BY <1>2 DEF IInv, ClearReads, WantedInExitsOnly, NoCloseWhileReplacing, SeenCovers, Calm,
              brokerVars, counters
<1>6. ClearedBeforeSell'
  BY <1>1, <1>4 DEF ClearReads, ClearedBeforeSell
<1>7. CacheCovers' /\ FlightCovers' /\ StopsAndClosesApart' /\ (faults' = 0 /\ BeforeOrders => Fresh')
  BY <1>1, OrdersRead
<1>8. FreshBeforeOrders'
  BY <1>1, <1>7 DEF ClearReads, FreshBeforeOrders, BeforeOrders
<1> QED BY <1>3, <1>5, <1>6, <1>7, <1>8 DEF IInv

\* A cancel takes a stop away, and if it fails a fault is counted.
LEMMA CancelStep == ASSUME IInv, NEW s \in Slots, Cancel(s) PROVE IInv'
<1>1. /\ faults' \in 0..MaxFaults
      /\ faults' = 0 => faults = 0 /\ stops' = [stops EXCEPT ![s] = 0]
      /\ stops' \in [Slots -> Nat]
      /\ \A t \in Slots : stops'[t] <= stops[t]
  BY DEF IInv, TypeOK, Cancel, Faults
<1>2. UNCHANGED <<closing, ordCache, flight, crossed, want, phase, seen>>
  BY DEF Cancel, cacheVars, counters
<1>3. TypeOK'
  BY <1>1 DEF IInv, TypeOK, Cancel, cacheVars, counters
<1>4. WantedInExitsOnly' /\ NoCloseWhileReplacing' /\ SeenCovers'
  BY <1>1, <1>2 DEF IInv, Cancel, WantedInExitsOnly, NoCloseWhileReplacing, SeenCovers, Calm
<1>5. ClearedBeforeSell'
  BY <1>1, <1>2 DEF IInv, TypeOK, Cancel, ClearedBeforeSell
<1>6. \A orders \in Orders : Covers(orders) =>
        closing' <= orders.closing /\ \A t \in Slots : stops'[t] <= orders.stops[t]
  BY <1>1, <1>2 DEF IInv, TypeOK, Orders, Covers
<1>7. CacheCovers' /\ FlightCovers' /\ FreshBeforeOrders'
  BY <1>1, <1>2, <1>6 DEF IInv, TypeOK, Flights, CacheCovers, FlightCovers, FreshBeforeOrders,
                          BeforeOrders, Fresh, Calm, Covers
<1>8. StopsAndClosesApart'
  BY <1>1, <1>2 DEF IInv, TypeOK, StopsAndClosesApart, NeverAlongside, Resting
<1> QED BY <1>3, <1>4, <1>5, <1>7, <1>8 DEF IInv

LEMMA ClearedStep == ASSUME IInv, Cleared \/ ClearRaises PROVE IInv'
<1>1. faults' \in 0..MaxFaults /\ (faults' = 0 => faults = 0 /\ Cleared)
  BY DEF IInv, TypeOK, Cleared, ClearRaises, Faults
<1>2. UNCHANGED <<stops, closing, ordCache, flight, crossed, want>>
  BY DEF Cleared, ClearRaises, brokerVars, cacheVars, passVars, counters
<1>3. TypeOK'
  BY <1>1 DEF IInv, TypeOK, Cleared, ClearRaises, Phases, brokerVars, cacheVars, passVars, counters
<1>4. SeenCovers' /\ NoCloseWhileReplacing' /\ FreshBeforeOrders'
  <2>1. phase' # "decide" /\ phase' \in {"sell", "confirm"}
    BY DEF Cleared, ClearRaises
  <2>2. want > 0 => phase' = "sell"
    BY DEF Cleared, ClearRaises
  <2>3. want = 0 \/ want > 0
    BY SMT DEF IInv, TypeOK, Shares
  <2> QED BY <1>1, <1>2, <2>1, <2>2, <2>3
          DEF IInv, Cleared, NoCloseWhileReplacing, SeenCovers, FreshBeforeOrders, BeforeOrders, Calm
<1>5. WantedInExitsOnly'
  <2>1. want = 0 \/ want > 0
    BY SMT DEF IInv, TypeOK, Shares
  <2> QED BY <2>1, <1>2 DEF Cleared, ClearRaises, WantedInExitsOnly
<1>6. ClearedBeforeSell'
  BY <1>1 DEF IInv, Cleared, ClearedBeforeSell, brokerVars, passVars
<1>7. CacheCovers' /\ FlightCovers' /\ StopsAndClosesApart'
  BY <1>1, <1>2, OrdersLeftAlone
<1> QED BY <1>3, <1>4, <1>5, <1>6, <1>7 DEF IInv

\* What an order the broker takes does to an answer that is on its way.
LEMMA OvertakeType == ASSUME IInv, Overtake PROVE flight' \in Flights /\ FlightCovers'
<1>1. flight' = [flight EXCEPT !.late = (flight.kind = "orders")]
  BY DEF Overtake
<1>2. flight \in Flights
  BY DEF IInv, TypeOK
<1>3. flight' \in Flights
  BY <1>1, <1>2 DEF Flights
<1>4. flight'.kind = flight.kind /\ flight'.late = (flight.kind = "orders")
  BY <1>1, <1>2 DEF Flights
<1> QED BY <1>3, <1>4 DEF FlightCovers

LEMMA SellStep == ASSUME IInv, Sells PROVE IInv'
<1>1. /\ faults' \in 0..MaxFaults
      /\ faults' = 0 => faults = 0
      /\ closing' \in Nat
      /\ stops' = stops /\ crossed' = crossed
      /\ phase = "sell" /\ phase' = "ensure" /\ want' = 0
  BY DEF IInv, TypeOK, Shares, Sells, SellAccepted, SellUnanswered, SellTaken, SellRefused,
         brokerVars, counters, Faults
<1>2. flight' \in Flights /\ FlightCovers'
  <2>1. CASE SellTaken
    BY <2>1, OvertakeType DEF SellTaken
  <2>2. CASE SellRefused
    BY <2>2, <1>1 DEF SellRefused, IInv, TypeOK, FlightCovers, Covers, brokerVars
  <2> QED BY <2>1, <2>2 DEF Sells, SellAccepted, SellUnanswered
<1>3. /\ posCache' \in [full : BOOLEAN, qty : Shares]
      /\ ordCache' \in [full : BOOLEAN, orders : Orders]
  <2>1. CASE SellAccepted
    BY <2>1, UnreadType, NoOrdersType DEF SellAccepted, Invalidate
  <2>2. CASE SellUnanswered \/ SellRefused
    BY <2>2 DEF SellUnanswered, SellRefused, cacheVars, IInv, TypeOK
  <2> QED BY <2>1, <2>2 DEF Sells
<1>4. TypeOK'
  <2>1. want' \in Shares
    BY <1>1 DEF Shares
  <2>3. due' \in BOOLEAN
    BY DEF Sells, SellAccepted, SellUnanswered, SellRefused, IInv, TypeOK
  <2>2. UNCHANGED <<held, marker, covered, seen, todo, trades, restarts>>
    BY DEF Sells, SellAccepted, SellUnanswered, SellTaken, SellRefused, brokerVars, counters
  <2> QED BY <1>1, <1>2, <1>3, <2>1, <2>2, <2>3 DEF IInv, TypeOK, Phases
<1>5. WantedInExitsOnly' /\ NoCloseWhileReplacing' /\ SeenCovers' /\ ClearedBeforeSell'
      /\ FreshBeforeOrders'
  BY <1>1 DEF WantedInExitsOnly, NoCloseWhileReplacing, SeenCovers, ClearedBeforeSell,
              FreshBeforeOrders, BeforeOrders
<1>6. CacheCovers'
  <2>1. CASE SellAccepted
    BY <2>1 DEF SellAccepted, Invalidate, UnreadOrders, CacheCovers
  <2>2. CASE SellUnanswered
    <3>1. faults' > 0
      BY <2>2 DEF SellUnanswered, Faults, IInv, TypeOK
    <3> QED BY <3>1 DEF CacheCovers, Calm
  <2>3. CASE SellRefused
    BY <2>3, <1>1 DEF SellRefused, IInv, CacheCovers, Calm, Covers, brokerVars, cacheVars
  <2> QED BY <2>1, <2>2, <2>3 DEF Sells
<1>7. StopsAndClosesApart'
  BY <1>1 DEF IInv, ClearedBeforeSell, StopsAndClosesApart, NeverAlongside, Resting
<1> QED BY <1>2, <1>4, <1>5, <1>6, <1>7 DEF IInv

-----------------------------------------------------------------------------
(* ensure_stops *)

LEMMA EnsureReadsStep ==
    ASSUME IInv, NEW p \in {"ok", "bad"}, NEW o \in {"ok", "bad", "empty"}, EnsureReads(p, o)
    PROVE  IInv'
<1>1. LiveState(p, o) /\ UNCHANGED <<stops, closing, flight, crossed>>
  BY DEF EnsureReads, brokerVars, counters
<1>2. /\ posCache' \in [full : BOOLEAN, qty : Shares]
      /\ ordCache' \in [full : BOOLEAN, orders : Orders]
      /\ faults' \in 0..MaxFaults
      /\ faults' = 0 => faults = 0 /\ (~crossed => Covers(OrdersAnswer(o)))
  BY <1>1, LiveStateStep
<1>3. PositionsAnswer(p) \in Shares /\ OrdersAnswer(o) \in Orders
  BY AnswerTypes DEF IInv
<1>4. TypeOK'
  BY <1>2, <1>3 DEF IInv, TypeOK, EnsureReads, Phases, brokerVars, counters
<1>5. SeenCovers'
  BY <1>1, <1>2 DEF EnsureReads, SeenCovers, Calm, Covers
<1>6. WantedInExitsOnly' /\ NoCloseWhileReplacing' /\ ClearedBeforeSell' /\ FreshBeforeOrders'
  BY DEF IInv, EnsureReads, WantedInExitsOnly, NoCloseWhileReplacing, ClearedBeforeSell,
         FreshBeforeOrders, BeforeOrders
<1>7. CacheCovers' /\ FlightCovers' /\ StopsAndClosesApart'
  BY <1>1, OrdersRead
<1> QED BY <1>4, <1>5, <1>6, <1>7 DEF IInv

LEMMA ConfirmStep ==
    ASSUME IInv, NEW p \in {"ok", "bad"}, NEW o \in {"ok", "bad", "empty"}, Confirm(p, o)
    PROVE  IInv'
<1>1. LiveState(p, o) /\ UNCHANGED <<stops, closing, flight, crossed>>
  BY DEF Confirm, brokerVars, counters
<1>2. /\ posCache' \in [full : BOOLEAN, qty : Shares]
      /\ ordCache' \in [full : BOOLEAN, orders : Orders]
      /\ faults' \in 0..MaxFaults
      /\ faults' = 0 => faults = 0
  BY <1>1, LiveStateStep
<1>3. TypeOK'
  BY <1>2 DEF IInv, TypeOK, Confirm, Phases, brokerVars, passVars, counters
<1>4. WantedInExitsOnly' /\ NoCloseWhileReplacing' /\ SeenCovers' /\ ClearedBeforeSell'
      /\ FreshBeforeOrders'
  BY <1>1, <1>2 DEF IInv, Confirm, WantedInExitsOnly, NoCloseWhileReplacing, SeenCovers, Calm,
              ClearedBeforeSell, FreshBeforeOrders, BeforeOrders, passVars
<1>5. CacheCovers' /\ FlightCovers' /\ StopsAndClosesApart'
  BY <1>1, OrdersRead
<1> QED BY <1>3, <1>4, <1>5 DEF IInv

\* A pass that ends early, decides nothing or waits leaves broker and caches be.
QuietEnd == EnsureRaises \/ DecideNothing \/ DecideGrace \/ DecideReplace \/ Save

LEMMA QuietEndStep == ASSUME IInv, QuietEnd PROVE IInv'
<1>1. faults' \in 0..MaxFaults /\ (faults' = 0 => faults = 0)
  BY DEF QuietEnd, IInv, TypeOK, EnsureRaises, DecideNothing, DecideGrace, DecideReplace, Save, Faults
<1>2. UNCHANGED <<held, stops, closing, posCache, ordCache, flight, due, want, todo, trades,
                  restarts, crossed>>
  BY DEF QuietEnd, EnsureRaises, DecideNothing, DecideGrace, DecideReplace, Save, brokerVars,
         cacheVars, passVars, counters
<1>3. marker' \in BOOLEAN /\ covered' \in BOOLEAN /\ seen' \in [qty : Shares, orders : Orders]
  BY UnreadType
     DEF QuietEnd, IInv, TypeOK, EnsureRaises, DecideNothing, DecideGrace, DecideReplace, Save,
         passVars
<1>4. phase' \in {"waiting", "save", "clear"}
  BY DEF QuietEnd, EnsureRaises, DecideNothing, DecideGrace, DecideReplace, Save
<1>5. TypeOK'
  BY <1>1, <1>2, <1>3, <1>4 DEF IInv, TypeOK, Phases
<1>6. WantedInExitsOnly' /\ SeenCovers' /\ ClearedBeforeSell' /\ FreshBeforeOrders'
  <2>1. want = 0
    BY DEF QuietEnd, EnsureRaises, DecideNothing, DecideGrace, DecideReplace, Save, IInv,
           WantedInExitsOnly
  <2> QED BY <2>1, <1>2, <1>4 DEF WantedInExitsOnly, SeenCovers, ClearedBeforeSell,
                                  FreshBeforeOrders, BeforeOrders
<1>7. NoCloseWhileReplacing'
  <2>1. CASE DecideReplace
    <3>1. Calm => closing <= 0 /\ closing \in Nat
      BY <2>1 DEF DecideReplace, Stoppable, IInv, TypeOK, SeenCovers, Covers
    <3> QED BY <3>1, <1>1, <1>2 DEF NoCloseWhileReplacing, Calm
  <2>2. CASE ~DecideReplace
    BY <2>2, <1>1, <1>2 DEF QuietEnd, EnsureRaises, DecideNothing, DecideGrace, Save,
       NoCloseWhileReplacing
  <2> QED BY <2>1, <2>2
<1>8. CacheCovers' /\ FlightCovers' /\ StopsAndClosesApart'
  BY <1>1, <1>2, OrdersLeftAlone
<1> QED BY <1>5, <1>6, <1>7, <1>8 DEF IInv

\* The order for a stop of q shares, however it ends.
StopOrder(q) == StopAccepted(q) \/ StopRefused(q) \/ StopUnanswered(q)

\* Where no close is working, a stop for q shares may be placed or refused.
LEMMA StopOrdered ==
    ASSUME IInv, NEW q \in Nat, StopOrder(q), Calm => closing = 0, crossed' = crossed
    PROVE  /\ held' = held /\ closing' = closing
           /\ stops' \in [Slots -> Nat]
           /\ posCache' \in [full : BOOLEAN, qty : Shares]
           /\ ordCache' \in [full : BOOLEAN, orders : Orders]
           /\ flight' \in Flights
           /\ faults' \in 0..MaxFaults
           /\ CacheCovers' /\ FlightCovers' /\ StopsAndClosesApart'
<1>1. CASE StopTaken(q) /\ (StopAccepted(q) \/ StopUnanswered(q))
  <2>1. PICK s \in Slots : stops' = [stops EXCEPT ![s] = q]
    BY <1>1 DEF StopTaken
  <2>2. stops' \in [Slots -> Nat]
    BY <2>1 DEF IInv, TypeOK
  <2>3. held' = held /\ closing' = closing /\ flight' \in Flights /\ FlightCovers'
    BY <1>1, OvertakeType DEF StopTaken
  <2>4. faults' \in 0..MaxFaults /\ (faults' = 0 => faults = 0)
    BY <1>1 DEF StopAccepted, StopUnanswered, Faults, IInv, TypeOK
  <2>5. CASE StopAccepted(q)
    <3>1. /\ posCache' \in [full : BOOLEAN, qty : Shares]
          /\ ordCache' \in [full : BOOLEAN, orders : Orders]
          /\ ordCache'.full = FALSE
      BY <2>5, UnreadType, NoOrdersType DEF StopAccepted, Invalidate, UnreadOrders
    <3>2. CacheCovers' /\ StopsAndClosesApart'
      BY <2>3, <2>4, <3>1
         DEF IInv, TypeOK, CacheCovers, Calm, StopsAndClosesApart, NeverAlongside
    <3> QED BY <2>2, <2>3, <2>4, <3>1, <3>2
  <2>6. CASE StopUnanswered(q)
    <3>1. /\ posCache' \in [full : BOOLEAN, qty : Shares]
          /\ ordCache' \in [full : BOOLEAN, orders : Orders]
      BY <2>6 DEF StopUnanswered, cacheVars, IInv, TypeOK
    <3>2. faults' > 0
      BY <2>6 DEF StopUnanswered, Faults, IInv, TypeOK
    <3> QED BY <2>2, <2>3, <2>4, <3>1, <3>2 DEF CacheCovers, Calm, StopsAndClosesApart
  <2> QED BY <1>1, <2>5, <2>6
<1>2. CASE StopRefused(q)
  <2>1. faults' \in 0..MaxFaults /\ (faults' = 0 => faults = 0)
    BY <1>2 DEF StopRefused, Faults, IInv, TypeOK
  <2>2. UNCHANGED <<held, stops, closing, posCache, ordCache, flight>>
    BY <1>2 DEF StopRefused, brokerVars, cacheVars
  <2>3. CacheCovers' /\ FlightCovers' /\ StopsAndClosesApart'
    BY <2>1, <2>2, OrdersLeftAlone
  <2> QED BY <2>1, <2>2, <2>3 DEF IInv, TypeOK
<1> QED BY <1>1, <1>2 DEF StopOrder, StopAccepted, StopUnanswered

Places == DecidePlace \/ (\E s \in Slots : DecideAdd(s)) \/ Replace \/ ReplaceRaises

LEMMA PlacesStep == ASSUME IInv, Places PROVE IInv'
<1>1. Calm => closing = 0
  <2>1. CASE phase = "decide"
    <3>1. seen.orders.closing = 0
      BY <2>1 DEF Places, DecidePlace, DecideAdd, Replace, ReplaceRaises, Stoppable
    <3> QED BY <2>1, <3>1 DEF IInv, TypeOK, SeenCovers, Covers
  <2>2. CASE phase = "replace"
    BY <2>2 DEF IInv, NoCloseWhileReplacing, WantedInExitsOnly
  <2> QED BY <2>1, <2>2 DEF Places, DecidePlace, DecideAdd, Replace, ReplaceRaises
<1>2. \E q \in Nat : StopOrder(q) \/ (Faults(FALSE) /\ UNCHANGED <<brokerVars, cacheVars, flight>>)
  <2>1. seen.qty \in Nat /\ \A s \in Slots : seen.orders.stops[s] \in Nat
    BY DEF IInv, TypeOK, Shares, Orders
  <2>2. CASE \E s \in Slots : DecideAdd(s)
    <3>1. PICK s \in Slots : DecideAdd(s)
      BY <2>2
    <3>2. ShortBy(s) \in Nat
      BY <2>1, <3>1 DEF DecideAdd, Short, ShortBy
    <3> QED BY <3>1, <3>2 DEF DecideAdd, StopOrder
  <2>3. CASE DecidePlace \/ Replace \/ ReplaceRaises
    BY <2>1, <2>3 DEF DecidePlace, Replace, ReplaceRaises, StopOrder
  <2> QED BY <2>2, <2>3 DEF Places
<1>3. crossed' = crossed
  BY DEF Places, DecidePlace, DecideAdd, Replace, ReplaceRaises, counters
<1>4. /\ held' = held /\ closing' = closing
      /\ stops' \in [Slots -> Nat]
      /\ posCache' \in [full : BOOLEAN, qty : Shares]
      /\ ordCache' \in [full : BOOLEAN, orders : Orders]
      /\ flight' \in Flights
      /\ faults' \in 0..MaxFaults
      /\ CacheCovers' /\ FlightCovers' /\ StopsAndClosesApart'
  <2>1. CASE \E q \in Nat : StopOrder(q)
    BY <1>1, <1>3, <2>1, StopOrdered
  <2>2. CASE Faults(FALSE) /\ UNCHANGED <<brokerVars, cacheVars, flight>>
    <3>1. UNCHANGED <<held, stops, closing, posCache, ordCache, flight>>
      BY <2>2 DEF brokerVars, cacheVars
    <3>2. faults' \in 0..MaxFaults /\ (faults' = 0 => faults = 0)
      BY <2>2 DEF Faults, IInv, TypeOK
    <3>3. CacheCovers' /\ FlightCovers' /\ StopsAndClosesApart'
      BY <1>3, <3>1, <3>2, OrdersLeftAlone
    <3> QED BY <3>1, <3>2, <3>3 DEF IInv, TypeOK
  <2> QED BY <1>2, <2>1, <2>2
<1>5. /\ UNCHANGED <<marker, want, todo, due, trades, restarts>>
      /\ covered' \in BOOLEAN
      /\ phase' \in {"save", "waiting"} /\ want = 0
  BY DEF Places, DecidePlace, DecideAdd, Replace, ReplaceRaises, passVars, counters, IInv, TypeOK,
         WantedInExitsOnly
<1>6. seen' \in [qty : Shares, orders : Orders]
  BY UnreadType DEF Places, DecidePlace, DecideAdd, Replace, ReplaceRaises, passVars, IInv, TypeOK
<1>7. TypeOK'
  BY <1>3, <1>4, <1>5, <1>6 DEF IInv, TypeOK, Phases
<1>8. WantedInExitsOnly' /\ NoCloseWhileReplacing' /\ SeenCovers' /\ ClearedBeforeSell'
      /\ FreshBeforeOrders'
  BY <1>5 DEF WantedInExitsOnly, NoCloseWhileReplacing, SeenCovers, ClearedBeforeSell,
              FreshBeforeOrders, BeforeOrders
<1> QED BY <1>4, <1>7, <1>8 DEF IInv

LEMMA FreshStart == ASSUME IInv, NextCycle \/ Restart PROVE IInv'
<1>1. /\ posCache' \in [full : BOOLEAN, qty : Shares]
      /\ ordCache' \in [full : BOOLEAN, orders : Orders]
      /\ ordCache'.full = FALSE
      /\ flight' \in Flights /\ flight'.kind = "none"
  <2>1. posCache' = Unread /\ ordCache' = UnreadOrders /\ flight' = NoFlight
    BY DEF NextCycle, Restart, Invalidate
  <2>2. UnreadOrders.full = FALSE /\ NoFlight.kind = "none"
    BY DEF UnreadOrders, NoFlight
  <2> QED BY <2>1, <2>2, UnreadType, NoOrdersType
<1>2. want' = 0 /\ phase' = "exits"
  BY DEF NextCycle, Restart, passVars, IInv, WantedInExitsOnly
<1>3. UNCHANGED <<held, stops, closing, marker, due, trades, faults, crossed>>
  BY DEF NextCycle, Restart, brokerVars, counters
<1>4. covered' \in BOOLEAN /\ seen' \in [qty : Shares, orders : Orders] /\ todo' \in SUBSET Slots
  BY UnreadType DEF NextCycle, Restart, passVars, IInv, TypeOK
<1>5. want' \in Shares
  BY <1>2 DEF Shares
<1>6. restarts' \in 0..MaxRestarts
  BY DEF NextCycle, Restart, counters, IInv, TypeOK
<1>7. TypeOK'
  BY <1>1, <1>2, <1>3, <1>4, <1>5, <1>6 DEF IInv, TypeOK, Phases
<1>8. WantedInExitsOnly' /\ NoCloseWhileReplacing' /\ SeenCovers' /\ ClearedBeforeSell'
  BY <1>2 DEF WantedInExitsOnly, NoCloseWhileReplacing, SeenCovers, ClearedBeforeSell
<1>9. CacheCovers' /\ FlightCovers' /\ FreshBeforeOrders'
  BY <1>1 DEF CacheCovers, FlightCovers, FreshBeforeOrders, Fresh
<1>10. StopsAndClosesApart'
  BY <1>3 DEF IInv, StopsAndClosesApart, NeverAlongside, Resting
<1> QED BY <1>7, <1>8, <1>9, <1>10 DEF IInv

-----------------------------------------------------------------------------
(* The rest of the world *)

\* Fills, fired stops and expiries only ever take shares off working orders.
LEMMA BrokerStep == ASSUME IInv, Broker PROVE IInv'
<1>1. /\ stops' \in [Slots -> Nat] /\ closing' \in Nat
      /\ \A s \in Slots : stops'[s] <= stops[s]
      /\ closing' <= closing
  <2>1. CASE \E s \in Slots : StopFires(s)
    BY <2>1 DEF IInv, TypeOK, StopFires
  <2>2. CASE BuyFills \/ CloseFills \/ ClosesExpire
    BY <2>2 DEF IInv, TypeOK, BuyFills, CloseFills, ClosesExpire
  <2> QED BY <2>1, <2>2 DEF Broker
<1>2. held' \in Shares /\ trades' \in 0..MaxTrades
  BY DEF IInv, TypeOK, Shares, Broker, BuyFills, StopFires, CloseFills, ClosesExpire, counters
<1>3. UNCHANGED <<posCache, ordCache, flight, marker, covered, want, seen, todo, due, phase, faults,
                  restarts, crossed>>
  BY DEF Broker, BuyFills, StopFires, CloseFills, ClosesExpire, cacheVars, passVars, counters
<1>4. TypeOK'
  BY <1>1, <1>2, <1>3 DEF IInv, TypeOK
<1>5. WantedInExitsOnly' /\ NoCloseWhileReplacing' /\ ClearedBeforeSell'
  BY <1>1, <1>3
     DEF IInv, TypeOK, WantedInExitsOnly, NoCloseWhileReplacing, ClearedBeforeSell, Calm
<1>6. StopsAndClosesApart'
  BY <1>1, <1>3 DEF IInv, TypeOK, StopsAndClosesApart, NeverAlongside, Resting
<1>7. \A orders \in Orders : Covers(orders) =>
        closing' <= orders.closing /\ \A s \in Slots : stops'[s] <= orders.stops[s]
  BY <1>1 DEF IInv, TypeOK, Orders, Covers
<1>8. CacheCovers' /\ SeenCovers'
  BY <1>3, <1>7 DEF IInv, TypeOK, CacheCovers, SeenCovers, Calm, Covers
<1>9. FlightCovers' /\ FreshBeforeOrders'
  BY <1>3, <1>7 DEF IInv, TypeOK, Flights, FlightCovers, FreshBeforeOrders, BeforeOrders, Fresh,
                    CacheCovers, Covers
<1> QED BY <1>4, <1>5, <1>6, <1>8, <1>9 DEF IInv

LEMMA RouteReadsStep == ASSUME IInv, RouteReads PROVE IInv'
<1>1. UNCHANGED <<held, stops, closing, posCache, ordCache, marker, covered, want, seen, todo, due,
                  phase, trades, faults, restarts, crossed>>
  BY DEF RouteReads, brokerVars, cacheVars, passVars, counters
<1>2. /\ flight' \in Flights
      /\ flight'.kind = "orders" => flight'.orders = [stops |-> stops, closing |-> closing]
  <2>1. NoFlight \in Flights /\ held \in Shares /\ [stops |-> stops, closing |-> closing] \in Orders
    BY NoOrdersType DEF IInv, TypeOK, Orders
  <2>2. \/ flight' = [NoFlight EXCEPT !.kind = "positions", !.qty = held]
        \/ flight' = [NoFlight EXCEPT !.kind = "orders",
                                      !.orders = [stops |-> stops, closing |-> closing]]
    BY DEF RouteReads
  <2> QED BY <2>1, <2>2 DEF Flights
<1>3. TypeOK'
  BY <1>1, <1>2 DEF IInv, TypeOK
<1>4. flight'.kind = "orders" => Covers(flight'.orders)
  BY <1>2, CoversItself DEF IInv
<1>5. CacheCovers' /\ FlightCovers' /\ FreshBeforeOrders'
  BY <1>1, <1>4 DEF IInv, CacheCovers, FlightCovers, FreshBeforeOrders, BeforeOrders, Fresh, Calm,
                    Covers
<1>6. /\ SeenCovers' /\ StopsAndClosesApart' /\ WantedInExitsOnly' /\ NoCloseWhileReplacing'
      /\ ClearedBeforeSell'
  BY <1>1 DEF IInv, SeenCovers, Calm, Covers, StopsAndClosesApart, NeverAlongside, Resting,
              WantedInExitsOnly, NoCloseWhileReplacing, ClearedBeforeSell
<1> QED BY <1>3, <1>5, <1>6 DEF IInv

\* What a route caches misses nothing, or `crossed` says so; before the first
\* order of a cycle it misses nothing.
LEMMA RouteEndsStep == ASSUME IInv, RouteStores \/ RouteFails PROVE IInv'
<1>1. UNCHANGED <<held, stops, closing, marker, covered, want, seen, todo, due, phase, trades,
                  faults, restarts>>
  BY DEF RouteStores, RouteFails, brokerVars, passVars, counters
<1>2. flight' \in Flights /\ flight'.kind = "none" /\ crossed' \in BOOLEAN
  BY NoOrdersType DEF RouteStores, RouteFails, NoFlight, counters, Flights, IInv, TypeOK
<1>3. posCache' \in [full : BOOLEAN, qty : Shares] /\ ordCache' \in [full : BOOLEAN, orders : Orders]
  <2>1. /\ posCache \in [full : BOOLEAN, qty : Shares] /\ flight.qty \in Shares
        /\ ordCache \in [full : BOOLEAN, orders : Orders] /\ flight.orders \in Orders
    BY DEF Flights, IInv, TypeOK
  <2>2. posCache' = posCache \/ posCache' = [full |-> TRUE, qty |-> flight.qty]
    BY DEF RouteStores, RouteFails, cacheVars
  <2>3. ordCache' = ordCache \/ ordCache' = [full |-> TRUE, orders |-> flight.orders]
    BY DEF RouteStores, RouteFails, cacheVars
  <2>4. \A q \in Shares : [full |-> TRUE, qty |-> q] \in [full : BOOLEAN, qty : Shares]
    OBVIOUS
  <2>5. \A orders \in Orders : [full |-> TRUE, orders |-> orders] \in [full : BOOLEAN, orders : Orders]
    OBVIOUS
  <2>6. posCache' \in [full : BOOLEAN, qty : Shares]
    BY <2>1, <2>2, <2>4, Zenon
  <2>7. ordCache' \in [full : BOOLEAN, orders : Orders]
    BY <2>1, <2>3, <2>5, Zenon
  <2> QED BY <2>6, <2>7
<1>4. TypeOK'
  BY <1>1, <1>2, <1>3 DEF IInv, TypeOK
<1>5. \/ ordCache' = ordCache
      \/ flight.kind = "orders" /\ ordCache'.orders = flight.orders
  BY DEF RouteStores, RouteFails, cacheVars
<1>6. ~crossed' => ~crossed /\ (ordCache' = ordCache \/ ~flight.late)
  BY DEF RouteStores, RouteFails, cacheVars, counters, Flights, IInv, TypeOK
<1>7. CacheCovers'
  BY <1>1, <1>5, <1>6 DEF IInv, CacheCovers, FlightCovers, Calm, Covers
<1>8. FlightCovers'
  BY <1>2 DEF FlightCovers
<1>9. FreshBeforeOrders'
  BY <1>1, <1>2, <1>5 DEF IInv, FreshBeforeOrders, BeforeOrders, Fresh, Covers
<1>10. /\ SeenCovers' /\ StopsAndClosesApart' /\ WantedInExitsOnly' /\ NoCloseWhileReplacing'
       /\ ClearedBeforeSell'
  BY <1>1, <1>6 DEF IInv, SeenCovers, Calm, Covers, StopsAndClosesApart, NeverAlongside, Resting,
              WantedInExitsOnly, NoCloseWhileReplacing, ClearedBeforeSell
<1> QED BY <1>4, <1>7, <1>8, <1>9, <1>10 DEF IInv

LEMMA OtherStep ==
    ASSUME IInv, ExitIsDue \/ PositionsExpire \/ OrdersExpire \/ MarkerAges \/ UNCHANGED vars
    PROVE  IInv'
<1>1. UNCHANGED <<held, stops, closing, flight, covered, want, seen, todo, phase, faults, restarts,
                  crossed>>
  BY DEF ExitIsDue, PositionsExpire, OrdersExpire, MarkerAges, vars, brokerVars, cacheVars, passVars,
         counters
<1>2. /\ posCache' \in [full : BOOLEAN, qty : Shares]
      /\ ordCache' \in [full : BOOLEAN, orders : Orders]
      /\ ordCache'.full => ordCache' = ordCache
  BY UnreadType, NoOrdersType
     DEF ExitIsDue, PositionsExpire, OrdersExpire, MarkerAges, vars, cacheVars, IInv, TypeOK,
         UnreadOrders
<1>3. marker' \in BOOLEAN /\ due' \in BOOLEAN /\ trades' \in 0..MaxTrades
  <2>1. CASE ExitIsDue
    BY <2>1 DEF ExitIsDue, IInv, TypeOK
  <2>2. CASE ~ExitIsDue
    BY <2>2 DEF PositionsExpire, OrdersExpire, MarkerAges, vars, counters, IInv, TypeOK
  <2> QED BY <2>1, <2>2
<1>4. TypeOK'
  BY <1>1, <1>2, <1>3 DEF IInv, TypeOK
<1>5. CacheCovers' /\ FlightCovers' /\ FreshBeforeOrders'
  BY <1>1, <1>2 DEF IInv, CacheCovers, FlightCovers, FreshBeforeOrders, BeforeOrders, Fresh, Calm,
                    Covers
<1>6. /\ SeenCovers' /\ StopsAndClosesApart' /\ WantedInExitsOnly' /\ NoCloseWhileReplacing'
      /\ ClearedBeforeSell'
  BY <1>1 DEF IInv, SeenCovers, Calm, Covers, StopsAndClosesApart, NeverAlongside, Resting,
              WantedInExitsOnly, NoCloseWhileReplacing, ClearedBeforeSell
<1> QED BY <1>4, <1>5, <1>6 DEF IInv

-----------------------------------------------------------------------------
(* Theorems *)

LEMMA InitIInv == Init => IInv
<1> SUFFICES ASSUME Init PROVE IInv
  OBVIOUS
<1>1. /\ held \in Shares /\ want \in Shares
      /\ trades \in 0..MaxTrades /\ faults \in 0..MaxFaults /\ restarts \in 0..MaxRestarts
  BY DEF Init, Shares
<1>2. stops \in [Slots -> Nat] /\ closing \in Nat /\ \A s \in Slots : stops[s] = 0
  BY DEF Init, NoOrders
<1>3. TypeOK
  BY <1>1, <1>2, UnreadType, NoOrdersType DEF Init, TypeOK, Phases
<1>4. CacheCovers
  BY DEF Init, CacheCovers, UnreadOrders
<1>7. FlightCovers /\ FreshBeforeOrders
  BY DEF Init, FlightCovers, FreshBeforeOrders, Fresh, UnreadOrders, NoFlight
<1>5. SeenCovers /\ NoCloseWhileReplacing /\ ClearedBeforeSell /\ WantedInExitsOnly
  BY DEF Init, SeenCovers, NoCloseWhileReplacing, ClearedBeforeSell, WantedInExitsOnly
<1>6. StopsAndClosesApart
  BY DEF Init, StopsAndClosesApart, NeverAlongside
<1> QED BY <1>3, <1>4, <1>5, <1>6, <1>7 DEF IInv

LEMMA StepIInv == IInv /\ [Next]_vars => IInv'
<1> SUFFICES ASSUME IInv, [Next]_vars PROVE IInv'
  OBVIOUS
<1>1. CASE Exits
  BY <1>1, ExitBeginsStep, NoExitStep DEF Exits
<1>2. CASE Reads
  BY <1>2, ClearReadsStep, EnsureReadsStep, ConfirmStep DEF Reads
<1>3. CASE Clears
  BY <1>3, CancelStep, ClearedStep DEF Clears
<1>4. CASE Sells
  BY <1>4, SellStep
<1>5. CASE Decides
  BY <1>5, QuietEndStep, PlacesStep, FreshStart DEF Decides, QuietEnd, Places
<1>6. CASE Broker
  BY <1>6, BrokerStep
<1>7. CASE World \/ Restart \/ UNCHANGED vars
  BY <1>7, RouteReadsStep, RouteEndsStep, OtherStep, FreshStart DEF World, Routes
<1> QED BY <1>1, <1>2, <1>3, <1>4, <1>5, <1>6, <1>7 DEF Next, Cycle

LEMMA Invariance == Spec => []IInv
<1> QED BY InitIInv, StepIInv, PTL DEF Spec

\* Every variable has its type, whatever the size of the position and however
\* reads, orders and cancels fail.
THEOREM TypeCorrect == Spec => []TypeOK
<1>1. IInv => TypeOK
  BY DEF IInv
<1> QED BY <1>1, Invariance, PTL

\* Until a read, an order or a cancel fails, or a route caches orders that are
\* older than an order accepted since, no stop rests beside a working close:
\* through cached reads, routes, fills, fired stops and restarts between any two
\* calls of clear_stop, book_exit and ensure_stops.
THEOREM StopsApart == Spec => []StopsAndClosesApart
<1>1. IInv => StopsAndClosesApart
  BY DEF IInv
<1> QED BY <1>1, Invariance, PTL

\* Until something fails, an exit that book_exit sends finds every resting stop
\* cancelled: clear_stop, deciding on a cached orders read that a route may have
\* stored, has missed none.
THEOREM ExitsFindStopsCleared ==
    Spec => [](faults = 0 /\ phase = "sell" => \A s \in Slots : stops[s] = 0)
<1>1. IInv => (faults = 0 /\ phase = "sell" => \A s \in Slots : stops[s] = 0)
  BY DEF IInv, ClearedBeforeSell
<1> QED BY <1>1, Invariance, PTL


-----------------------------------------------------------------------------
(* Refusals *)

\* Stops that are all gone reserve nothing.  The fold takes the slots one by
\* one: a set of slots it is wrong of would have a smallest one.
LEMMA NothingCovered ==
    ASSUME NEW st, \A s \in Slots : st[s] = 0
    PROVE  Coverage(st) = 0
<1> DEFINE Picked(S) == CHOOSE s \in S : TRUE
           Folds(g) == g = [S \in SUBSET Slots |-> IF S = {} THEN 0
                                                   ELSE st[Picked(S)] + g[S \ {Picked(S)}]]
           zero == [S \in SUBSET Slots |-> 0]
<1>1. Coverage(st) = (CHOOSE g : Folds(g))[Slots]
  BY DEF Coverage, MapThenSumSet, MapThenFoldSet
<1>2. \A S \in SUBSET Slots : S # {} => Picked(S) \in S /\ st[Picked(S)] = 0
  OBVIOUS
<1> HIDE DEF Picked
<1>3. Folds(zero)
  BY <1>2
<1>4. ASSUME NEW g, Folds(g) PROVE g[Slots] = 0
  <2> DEFINE Wrong == {S \in SUBSET Slots : g[S] # 0}
  <2>1. ASSUME Wrong # {} PROVE FALSE
    <3> HIDE DEF Wrong
    <3>1. IsWellFoundedOn(StrictSubsetOrdering(Slots), SUBSET Slots) /\ Wrong \subseteq SUBSET Slots
      BY SlotsAssumption, FS_StrictSubsetOrderingWellFounded, FS_FiniteSubsetsOfFinite DEF Wrong
    <3>2. PICK S \in Wrong : \A T \in Wrong : ~(<<T, S>> \in StrictSubsetOrdering(Slots))
      BY <2>1, <3>1, WFMin
    <3> USE DEF Wrong
    <3>3. S \in SUBSET Slots /\ S # {}
      BY <1>4, <3>2
    <3>4. S \ {Picked(S)} \notin Wrong
      BY <1>2, <3>2, <3>3 DEF StrictSubsetOrdering
    <3> QED
      BY <1>2, <1>4, <3>2, <3>3, <3>4
  <2> QED
    BY <2>1
<1> HIDE DEF Folds
<1>5. Folds(CHOOSE g : Folds(g))
  BY <1>3
<1> QED
  BY <1>1, <1>4, <1>5

\* Until something fails, a sell is refused only for want of shares: those the
\* account has left beside the working closes are free (ExitsAreNotBlocked).
THEOREM ExitsUnblocked == Spec => ExitsAreNotBlocked
<1>1. IInv /\ [Next]_vars =>
        [phase = "sell" /\ phase' = "ensure" /\ faults' = 0 /\ want <= held - closing
            => closing' = closing + want]_vars
  <2> SUFFICES ASSUME IInv, Next, phase = "sell", phase' = "ensure", faults' = 0,
                      want <= held - closing
               PROVE  closing' = closing + want
    BY DEF vars
  <2>1. CASE SellAccepted
    BY <2>1 DEF SellAccepted, SellTaken
  <2>2. CASE SellRefused
    <3>1. faults = 0 /\ want > Free
      BY <2>2 DEF SellRefused, Faults, IInv, TypeOK
    <3>2. Coverage(stops) = 0
      BY <3>1, NothingCovered DEF IInv, ClearedBeforeSell
    <3>3. Free = held - closing
      BY <3>2 DEF Free, IInv, TypeOK, Shares
    <3> QED BY <3>1, <3>3 DEF IInv, TypeOK, Shares
  <2>3. CASE SellUnanswered
    BY <2>3 DEF SellUnanswered, SellTaken
  <2>4. Sells
    <3>1. ~Exits /\ ~Reads /\ ~Clears /\ ~Decides
      BY DEF Exits, ExitBegins, NoExit, Reads, ClearReads, EnsureReads, Confirm, Clears, Cancel,
             Cleared, ClearRaises, Decides, DecideNothing, DecideGrace, DecidePlace, DecideAdd,
             DecideReplace, Replace, ReplaceRaises, Save, EnsureRaises, NextCycle
    <3>2. ~Broker /\ ~World /\ ~Restart
      BY DEF Broker, BuyFills, StopFires, CloseFills, ClosesExpire, World, ExitIsDue, Routes, RouteReads,
             RouteStores, RouteFails, PositionsExpire, OrdersExpire, MarkerAges, Restart
    <3> QED BY <3>1, <3>2 DEF Next, Cycle
  <2> QED BY <2>1, <2>2, <2>3, <2>4 DEF Sells
<1> QED BY <1>1, Invariance, PTL DEF Spec, ExitsAreNotBlocked
=============================================================================
