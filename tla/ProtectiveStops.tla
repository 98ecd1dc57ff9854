-------------------------- MODULE ProtectiveStops --------------------------
(***************************************************************************)
(* Resting disaster stops (broker_protective_stop_engine) for one long     *)
(* equity position, and the software exits that must clear them first      *)
(* (greyline_sim_execution_engine.book_exit).  Once a cycle:               *)
(*                                                                         *)
(*    exits -> clear -> cancel -> sell -> ensure -> decide                 *)
(*          -> (clear -> cancel -> confirm -> replace) -> save -> waiting  *)
(*                                                                         *)
(* Reads of positions and of orders are served from the gateway's cache    *)
(* while it is young.  An order that is accepted empties the cache; a      *)
(* cancel, a fill and a fired stop do not.  Routes read through the same   *)
(* cache in other threads: between the broker's answer and its store they  *)
(* hold the lock that a read past the cache needs, but neither an order    *)
(* nor the emptying of the cache waits for it.  The broker fills orders,   *)
(* and the process may restart.                                            *)
(***************************************************************************)
EXTENDS Integers, FiniteSets, FiniteSetsExt

CONSTANTS
    MaxHeld,      \* bound on the shares held
    Slots,        \* identities of the resting stop orders
    TopUp,        \* GREYLINE_BROKER_STOP_TOPUP
    MaxTrades,    \* bound on buys and on exits decided
    MaxFaults,    \* bound on failed reads, orders and cancels
    MaxRestarts   \* bound on restarts of the process

ASSUME HeldAssumption == MaxHeld \in Nat
ASSUME SlotsAssumption == IsFiniteSet(Slots)
ASSUME TopUpAssumption == TopUp \in BOOLEAN
ASSUME BoundsAssumption == MaxTrades \in Nat /\ MaxFaults \in Nat /\ MaxRestarts \in Nat

VARIABLES
    held,       \* shares in the account
    stops,      \* shares each resting stop would sell; 0 when there is none
    closing,    \* shares that working closes would sell
    posCache,   \* _READ_CACHE["positions"]
    ordCache,   \* _READ_CACHE["orders"]
    flight,     \* a route's read between the broker's answer and the cache
    marker,     \* the coverage marker on disk is younger than six minutes
    covered,    \* ensure_stops has seen or made coverage in this pass
    due,        \* an exit engine wants shares sold
    want,       \* shares the exit being booked sells; 0 inside ensure_stops
    seen,       \* the positions and orders ensure_stops decides on
    todo,       \* the stops clear_stop still has to cancel
    phase,      \* where the cycle is
    trades, faults, restarts,
    crossed     \* history: an orders answer older than an order was cached after it

brokerVars == <<held, stops, closing>>
cacheVars == <<posCache, ordCache>>
passVars == <<covered, want, seen, todo>>
counters == <<trades, restarts, crossed>>
vars == <<brokerVars, cacheVars, flight, marker, passVars, due, phase, faults, counters>>

-----------------------------------------------------------------------------
(* State *)

Shares == 0..MaxHeld
Orders == [stops : [Slots -> Nat], closing : Nat]
NoOrders == [stops |-> [s \in Slots |-> 0], closing |-> 0]
Unread == [full |-> FALSE, qty |-> 0]
UnreadOrders == [full |-> FALSE, orders |-> NoOrders]
Flights == [kind : {"none", "positions", "orders"}, qty : Shares, orders : Orders, late : BOOLEAN]
NoFlight == [kind |-> "none", qty |-> 0, orders |-> NoOrders, late |-> FALSE]
NothingSeen == [qty |-> 0, orders |-> NoOrders]
Phases == {"exits", "clear", "cancel", "sell", "ensure", "decide", "confirm",
           "replace", "save", "waiting"}

TypeOK ==
    /\ held \in Shares
    /\ stops \in [Slots -> Nat]
    /\ closing \in Nat
    /\ posCache \in [full : BOOLEAN, qty : Shares]
    /\ ordCache \in [full : BOOLEAN, orders : Orders]
    /\ flight \in Flights
    /\ marker \in BOOLEAN
    /\ covered \in BOOLEAN
    /\ due \in BOOLEAN
    /\ want \in Shares
    /\ seen \in [qty : Shares, orders : Orders]
    /\ todo \in SUBSET Slots
    /\ phase \in Phases
    /\ trades \in 0..MaxTrades
    /\ faults \in 0..MaxFaults
    /\ restarts \in 0..MaxRestarts
    /\ crossed \in BOOLEAN

Init ==
    /\ held = 0
    /\ stops = NoOrders.stops
    /\ closing = 0
    /\ posCache = Unread
    /\ ordCache = UnreadOrders
    /\ flight = NoFlight
    /\ marker = FALSE
    /\ covered = FALSE
    /\ due = FALSE
    /\ want = 0
    /\ seen = NothingSeen
    /\ todo = {}
    /\ phase = "exits"
    /\ trades = 0
    /\ faults = 0
    /\ restarts = 0
    /\ crossed = FALSE

Resting(st) == {s \in Slots : st[s] > 0}
Coverage(st) == MapThenSumSet(LAMBDA s : st[s], Slots)

\* Shares no working order has reserved; the broker refuses to sell others.
Free == held - closing - Coverage(stops)

-----------------------------------------------------------------------------
(* Reads and orders *)

\* Each read ends well ("ok") or not ("bad"); an orders read may also be
\* answered with no orders in it ("empty"), which the caller cannot tell from
\* a good one.  What is cached is not asked for.
PositionsEnd == IF posCache.full THEN {"ok"} ELSE {"ok", "bad"}
OrdersEnd == IF ordCache.full THEN {"ok"} ELSE {"ok", "bad", "empty"}

PositionsAnswer(p) ==
    IF posCache.full THEN posCache.qty ELSE IF p = "ok" THEN held ELSE 0
OrdersAnswer(o) ==
    IF ordCache.full THEN ordCache.orders
    ELSE IF o = "ok" THEN [stops |-> stops, closing |-> closing] ELSE NoOrders

\* A read past the cache waits for the lock a route's read holds.
Unlocked == flight.kind = "none"

\* One more fault unless `fine`.
Faults(fine) ==
    /\ fine \/ faults < MaxFaults
    /\ faults' = IF fine THEN faults ELSE faults + 1

\* _live_state: positions, then orders, each from its cache or into it.
LiveState(p, o) ==
    /\ Unlocked \/ (posCache.full /\ ordCache.full)
    /\ p \in PositionsEnd
    /\ o \in OrdersEnd
    /\ Faults(p = "ok" /\ o = "ok")
    /\ posCache' = IF p = "ok" THEN [full |-> TRUE, qty |-> PositionsAnswer(p)] ELSE posCache
    /\ ordCache' = IF o # "bad" THEN [full |-> TRUE, orders |-> OrdersAnswer(o)] ELSE ordCache

ReadsOk(p, o) == p = "ok" /\ o # "bad"

Invalidate == posCache' = Unread /\ ordCache' = UnreadOrders

\* The broker takes an order: an orders answer still on its way does not have it.
Overtake == flight' = [flight EXCEPT !.late = (flight.kind = "orders")]

\* The broker takes a stop for q shares.
StopTaken(q) ==
    /\ q <= Free
    /\ \E s \in Slots \ Resting(stops) : stops' = [stops EXCEPT ![s] = q]
    /\ Overtake
    /\ UNCHANGED <<held, closing>>

StopAccepted(q) == StopTaken(q) /\ Invalidate /\ UNCHANGED faults

\* It refuses the stop, or the POST fails on its way to it.
StopRefused(q) ==
    /\ Faults(q > Free)
    /\ UNCHANGED <<brokerVars, cacheVars, flight>>

\* The POST raises although the broker has the stop.
StopUnanswered(q) == StopTaken(q) /\ Faults(FALSE) /\ UNCHANGED cacheVars

-----------------------------------------------------------------------------
(* Software exits *)

\* sim_position sizes the exit from the positions read; nothing is booked when
\* it fails or shows none.
ExitBegins(n) ==
    /\ phase = "exits" /\ due
    /\ Unlocked \/ posCache.full
    /\ n \in 1..PositionsAnswer("ok")
    /\ want' = n
    /\ posCache' = [full |-> TRUE, qty |-> PositionsAnswer("ok")]
    /\ phase' = "clear"
    /\ UNCHANGED <<brokerVars, ordCache, flight, marker, covered, seen, todo, due, faults, counters>>

NoExit(p) ==
    /\ phase = "exits"
    /\ IF due THEN /\ Unlocked \/ posCache.full
                   /\ p \in PositionsEnd
                   /\ PositionsAnswer(p) = 0
                   /\ Faults(p = "ok")
                   /\ posCache' = IF p = "ok" THEN [full |-> TRUE, qty |-> 0] ELSE posCache
       ELSE p = "ok" /\ UNCHANGED <<posCache, faults>>
    /\ phase' = "ensure"
    /\ UNCHANGED <<brokerVars, ordCache, flight, marker, passVars, due, counters>>

\* Fault: the exit leaves the resting stops alone.
ClearReadsNothing(p, o) ==
    /\ phase = "clear"
    /\ LiveState(p, o)
    /\ todo' = {}
    /\ phase' = "cancel"
    /\ UNCHANGED <<brokerVars, flight, marker, covered, want, seen, due, counters>>

\* Fault: only the first stop found is cancelled.
ClearReadsOne(p, o) ==
    /\ phase = "clear"
    /\ LiveState(p, o)
    /\ \E s \in Slots : todo' = {s} \cap Resting(OrdersAnswer(o).stops)
    /\ phase' = "cancel"
    /\ UNCHANGED <<brokerVars, flight, marker, covered, want, seen, due, counters>>

\* clear_stop looks for stops in whatever the reads gave: it ignores reads_ok.
ClearReads(p, o) ==
    /\ phase = "clear"
    /\ LiveState(p, o)
    /\ todo' = Resting(OrdersAnswer(o).stops)
    /\ phase' = "cancel"
    /\ UNCHANGED <<brokerVars, flight, marker, covered, want, seen, due, counters>>

Cancel(s) ==
    /\ phase = "cancel" /\ s \in todo
    /\ todo' = todo \ {s}
    /\ \/ stops' = [stops EXCEPT ![s] = 0] /\ UNCHANGED faults
       \/ stops' = stops /\ Faults(FALSE)
    /\ UNCHANGED <<held, closing, cacheVars, flight, marker, covered, want, seen, due, phase, counters>>

Cleared ==
    /\ phase = "cancel" /\ todo = {}
    /\ phase' = IF want > 0 THEN "sell" ELSE "confirm"
    /\ UNCHANGED <<brokerVars, cacheVars, flight, marker, passVars, due, faults, counters>>

\* A read of clear_stop raised; book_exit swallows that and sells all the same.
ClearRaises ==
    /\ phase = "clear" /\ want > 0
    /\ Unlocked /\ ~(posCache.full /\ ordCache.full)
    /\ Faults(FALSE)
    /\ phase' = "sell"
    /\ UNCHANGED <<brokerVars, cacheVars, flight, marker, passVars, due, counters>>

SellTaken ==
    /\ phase = "sell" /\ want <= Free
    /\ closing' = closing + want
    /\ Overtake
    /\ want' = 0
    /\ phase' = "ensure"
    /\ UNCHANGED <<held, stops, marker, covered, seen, todo, counters>>

SellAccepted ==
    /\ SellTaken
    /\ due' = FALSE
    /\ Invalidate
    /\ UNCHANGED faults

\* The POST raises although the broker has the sell: the engine that wanted it
\* knows of no exit.
SellUnanswered ==
    /\ SellTaken
    /\ Faults(FALSE)
    /\ UNCHANGED <<cacheVars, due>>

SellRefused ==
    /\ phase = "sell"
    /\ Faults(want > Free)
    /\ want' = 0
    /\ phase' = "ensure"
    /\ UNCHANGED <<brokerVars, cacheVars, flight, marker, covered, seen, todo, due, counters>>

-----------------------------------------------------------------------------
(* ensure_stops *)

EnsureReads(p, o) ==
    /\ phase = "ensure"
    /\ LiveState(p, o)
    /\ IF ReadsOk(p, o)
       THEN /\ seen' = [qty |-> PositionsAnswer(p), orders |-> OrdersAnswer(o)]
            /\ phase' = "decide"
       ELSE phase' = "waiting" /\ UNCHANGED seen
    /\ UNCHANGED <<brokerVars, flight, marker, covered, want, todo, due, counters>>

\* A read raised somewhere in ensure_stops: the scheduler swallows it, and what
\* the pass had learned of the coverage is not saved.
EnsureRaises ==
    /\ phase \in {"ensure", "confirm"} \/ (phase = "clear" /\ want = 0)
    /\ Unlocked /\ ~(posCache.full /\ ordCache.full)
    /\ Faults(FALSE)
    /\ covered' = FALSE
    /\ seen' = NothingSeen
    /\ phase' = "waiting"
    /\ UNCHANGED <<brokerVars, cacheVars, flight, marker, want, todo, due, counters>>

SeenStops == Resting(seen.orders.stops)
SeenCoverage == Coverage(seen.orders.stops)
Stoppable == seen.qty > 0 /\ seen.orders.closing = 0

\* More than one stop, or one for too many shares.
Replaceable == TopUp /\ (Cardinality(SeenStops) > 1 \/ SeenCoverage > seen.qty)

\* One stop, s, for too few shares.
ShortBy(s) == seen.qty - seen.orders.stops[s]
Short(s) == TopUp /\ SeenStops = {s} /\ ShortBy(s) > 0

\* Nothing to do: no long position, a close at work, or covered.
DecideNothing ==
    /\ phase = "decide"
    /\ \/ ~Stoppable /\ UNCHANGED covered
       \/ Stoppable /\ SeenStops # {} /\ ~Replaceable /\ (\A s \in Slots : ~Short(s))
          /\ covered' = TRUE
    /\ phase' = "save"
    /\ UNCHANGED <<brokerVars, cacheVars, flight, marker, want, seen, todo, due, faults, counters>>

\* Fault: waiting counts as coverage.
DecideGraceRefreshed ==
    /\ phase = "decide" /\ Stoppable /\ SeenStops = {} /\ marker
    /\ covered' = TRUE
    /\ phase' = "save"
    /\ UNCHANGED <<brokerVars, cacheVars, flight, marker, want, seen, todo, due, faults, counters>>

\* No stop is seen but one was confirmed lately: wait.
DecideGrace ==
    /\ phase = "decide" /\ Stoppable /\ SeenStops = {} /\ marker
    /\ phase' = "save"
    /\ UNCHANGED <<brokerVars, cacheVars, flight, marker, passVars, due, faults, counters>>

\* Fault: the shares a working close leaves are given a stop beside it.
DecidePlaceBesideClose ==
    /\ phase = "decide" /\ seen.qty > 0 /\ SeenStops = {} /\ ~marker
    /\ \/ StopAccepted(seen.qty - seen.orders.closing) /\ covered' = TRUE
       \/ StopRefused(seen.qty) /\ UNCHANGED covered
    /\ phase' = "save"
    /\ UNCHANGED <<marker, want, seen, todo, due, counters>>

DecidePlace ==
    /\ phase = "decide" /\ Stoppable /\ SeenStops = {} /\ ~marker
    /\ \/ StopAccepted(seen.qty) /\ covered' = TRUE
       \/ StopRefused(seen.qty) /\ UNCHANGED covered
       \/ StopUnanswered(seen.qty) /\ UNCHANGED covered
    /\ phase' = "save"
    /\ UNCHANGED <<marker, want, seen, todo, due, counters>>

DecideAdd(s) ==
    /\ phase = "decide" /\ Stoppable /\ Short(s)
    /\ covered' = TRUE
    /\ StopAccepted(ShortBy(s)) \/ StopRefused(ShortBy(s)) \/ StopUnanswered(ShortBy(s))
    /\ phase' = "save"
    /\ UNCHANGED <<marker, want, seen, todo, due, counters>>

\* _reconcile_coverage: cancel, confirm, replace.
DecideReplace ==
    /\ phase = "decide" /\ Stoppable /\ Replaceable
    /\ covered' = TRUE
    /\ phase' = "clear"
    /\ UNCHANGED <<brokerVars, cacheVars, flight, marker, want, seen, todo, due, faults, counters>>

\* A new stop is placed only if the read shows that the old ones are gone.
Confirm(p, o) ==
    /\ phase = "confirm"
    /\ LiveState(p, o)
    /\ phase' = IF ReadsOk(p, o) /\ Resting(OrdersAnswer(o).stops) = {}
                THEN "replace" ELSE "save"
    /\ UNCHANGED <<brokerVars, flight, marker, passVars, due, counters>>

Replace ==
    /\ phase = "replace"
    /\ StopAccepted(seen.qty) \/ StopRefused(seen.qty)
    /\ phase' = "save"
    /\ UNCHANGED <<marker, passVars, due, counters>>

\* The POST of the new stop raises, whether the broker has it or not: nothing
\* in ensure_stops catches that, and the pass is over.
ReplaceRaises ==
    /\ phase = "replace"
    /\ StopUnanswered(seen.qty) \/ (Faults(FALSE) /\ UNCHANGED <<brokerVars, cacheVars, flight>>)
    /\ covered' = FALSE
    /\ seen' = NothingSeen
    /\ phase' = "waiting"
    /\ UNCHANGED <<marker, want, todo, due, counters>>

Save ==
    /\ phase = "save"
    /\ marker' = (marker \/ covered)
    /\ covered' = FALSE
    /\ seen' = NothingSeen
    /\ phase' = "waiting"
    /\ UNCHANGED <<brokerVars, cacheVars, flight, want, todo, due, faults, counters>>

\* The wait before the next cycle is longer than a GET may take and its cached
\* answer lives.
NextCycle ==
    /\ phase = "waiting"
    /\ Invalidate
    /\ flight' = NoFlight
    /\ phase' = "exits"
    /\ UNCHANGED <<brokerVars, marker, passVars, due, faults, counters>>

-----------------------------------------------------------------------------
(* The rest of the world *)

\* Some other engine's buy fills.
BuyFills ==
    /\ held < MaxHeld /\ trades < MaxTrades
    /\ held' = held + 1
    /\ trades' = trades + 1
    /\ UNCHANGED <<stops, closing, cacheVars, flight, marker, passVars, due, phase, faults, restarts, crossed>>

\* The price falls to a stop; it fills a share at a time.
StopFires(s) ==
    /\ stops[s] > 0 /\ held > 0
    /\ stops' = [stops EXCEPT ![s] = @ - 1]
    /\ held' = held - 1
    /\ UNCHANGED <<closing, cacheVars, flight, marker, passVars, due, phase, faults, counters>>

CloseFills ==
    /\ closing > 0 /\ held > 0
    /\ closing' = closing - 1
    /\ held' = held - 1
    /\ UNCHANGED <<stops, cacheVars, flight, marker, passVars, due, phase, faults, counters>>

\* Closes are good for the day.
ClosesExpire ==
    /\ closing > 0
    /\ closing' = 0
    /\ UNCHANGED <<held, stops, cacheVars, flight, marker, passVars, due, phase, faults, counters>>

\* The doctrine decides that shares are to be sold.
ExitIsDue ==
    /\ held > 0 /\ ~due /\ trades < MaxTrades
    /\ due' = TRUE
    /\ trades' = trades + 1
    /\ UNCHANGED <<brokerVars, cacheVars, flight, marker, passVars, phase, faults, restarts, crossed>>

\* A route's read misses the cache and, holding the lock, has the broker's
\* answer.
RouteReads ==
    /\ flight.kind = "none"
    /\ \/ ~posCache.full /\ flight' = [NoFlight EXCEPT !.kind = "positions", !.qty = held]
       \/ /\ ~ordCache.full
          /\ flight' = [NoFlight EXCEPT !.kind = "orders",
                                        !.orders = [stops |-> stops, closing |-> closing]]
    /\ UNCHANGED <<brokerVars, cacheVars, marker, passVars, due, phase, faults, counters>>

\* The answer is cached and the lock released, whatever has been ordered since.
RouteStores ==
    /\ \/ flight.kind = "positions" /\ posCache' = [full |-> TRUE, qty |-> flight.qty] /\ UNCHANGED ordCache
       \/ flight.kind = "orders" /\ ordCache' = [full |-> TRUE, orders |-> flight.orders] /\ UNCHANGED posCache
    /\ flight' = NoFlight
    /\ crossed' = (crossed \/ flight.late)
    /\ UNCHANGED <<brokerVars, marker, passVars, due, phase, faults, trades, restarts>>

\* The read failed: nothing is cached.
RouteFails ==
    /\ flight.kind # "none"
    /\ flight' = NoFlight
    /\ UNCHANGED <<brokerVars, cacheVars, marker, passVars, due, phase, faults, counters>>

PositionsExpire ==
    /\ posCache.full
    /\ posCache' = Unread
    /\ UNCHANGED <<brokerVars, ordCache, flight, marker, passVars, due, phase, faults, counters>>

OrdersExpire ==
    /\ ordCache.full
    /\ ordCache' = UnreadOrders
    /\ UNCHANGED <<brokerVars, posCache, flight, marker, passVars, due, phase, faults, counters>>

MarkerAges ==
    /\ marker
    /\ marker' = FALSE
    /\ UNCHANGED <<brokerVars, cacheVars, flight, passVars, due, phase, faults, counters>>

\* Orders and the marker outlive the process; caches and the pass do not.
Restart ==
    /\ restarts < MaxRestarts
    /\ restarts' = restarts + 1
    /\ Invalidate
    /\ flight' = NoFlight
    /\ covered' = FALSE
    /\ want' = 0
    /\ seen' = NothingSeen
    /\ todo' = {}
    /\ phase' = "exits"
    /\ UNCHANGED <<brokerVars, marker, due, faults, trades, crossed>>

-----------------------------------------------------------------------------
(* Specification *)

Exits == (\E n \in Shares : ExitBegins(n)) \/ (\E p \in {"ok", "bad"} : NoExit(p))
Reads ==
    \E p \in {"ok", "bad"}, o \in {"ok", "bad", "empty"} :
        ClearReads(p, o) \/ EnsureReads(p, o) \/ Confirm(p, o)
Clears == (\E s \in Slots : Cancel(s)) \/ Cleared \/ ClearRaises
Sells == SellAccepted \/ SellUnanswered \/ SellRefused
Decides ==
    DecideNothing \/ DecideGrace \/ DecidePlace \/ (\E s \in Slots : DecideAdd(s)) \/ DecideReplace
    \/ Replace \/ ReplaceRaises \/ Save \/ EnsureRaises \/ NextCycle

Cycle == Exits \/ Reads \/ Clears \/ Sells \/ Decides
Broker == BuyFills \/ (\E s \in Slots : StopFires(s)) \/ CloseFills \/ ClosesExpire
Routes == RouteReads \/ RouteStores \/ RouteFails
World == ExitIsDue \/ Routes \/ PositionsExpire \/ OrdersExpire \/ MarkerAges

Next == Cycle \/ Broker \/ World \/ Restart

Spec == Init /\ [][Next]_vars

\* The scheduler repeats the cycle, and gets the lock in the end, which a route
\* holds for one GET at most; the marker ages within minutes, and a day order is
\* over by the end of the day.
Fairness ==
    /\ SF_vars(Cycle)
    /\ WF_vars(RouteStores)
    /\ WF_vars(MarkerAges)
    /\ WF_vars(ClosesExpire)

FairSpec == Spec /\ Fairness

-----------------------------------------------------------------------------
(* Properties *)

\* A stop never rests beside a working close: the module's own "CANCELLED
\* BEFORE any software-initiated close, never alongside it".
NeverAlongside == closing > 0 => Resting(stops) = {}

\* As long as no read, order or cancel has failed and no route has cached orders
\* that are older than an order accepted since, a stop never rests beside a
\* working close, through cached reads, routes, restarts and fills between any
\* two calls.
StopsAndClosesApart == faults = 0 /\ ~crossed => NeverAlongside

\* As long as nothing has failed, the broker refuses an exit only if the shares
\* are gone or another close has them; never because a stop still has them.
ExitsAreNotBlocked ==
    [][phase = "sell" /\ phase' = "ensure" /\ faults' = 0 /\ want <= held - closing
        => closing' = closing + want]_vars

\* An exit that is due is sooner or later with the broker, unless the position
\* is gone: no standing fight between clear_stop and ensure_stops.
ExitsGetThrough == due ~> (~due \/ held = 0)

\* When trading stops, the position comes to be covered by one stop for exactly
\* its shares and stays so: adding, consolidating, aborting and the grace period
\* do not chase each other for ever.
CoverageStabilizes ==
    <>[](Coverage(stops) = held /\ Cardinality(Resting(stops)) <= 1)
=============================================================================
