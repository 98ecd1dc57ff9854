--------------------------- MODULE DeploymentCap ---------------------------
(***************************************************************************)
(* The book deployment cap in front of an equity BUY                       *)
(* (book_deployment_cap_engine.py, called by place_order of                *)
(* tradestation_sim_booking_engine.py).  The value already committed is    *)
(* read in two calls, positions and then orders, each through the cached   *)
(* read of the gateway (module SimBooking), while the broker fills orders, *)
(* a route's reads fill the cache, the answer to a POST may be lost, and an *)
(* orders answer may lack usable Orders, which is taken for none resting.  *)
(* Values are counted in units of the account's currency; the prices at    *)
(* which positions are marked do not move.                                 *)
(***************************************************************************)
EXTENDS Integers

CONSTANTS
    Cap,        \* cap_usd
    Sizes,      \* values of the buys the sleeves ask for
    OrderTypes, \* subset of {"Limit", "Market"}
    MaxMarkets, \* bound on the value of the resting market buys
    MaxLost,    \* bound on answers lost by a POST
    MaxBlank,   \* bound on orders answers without usable Orders
    NoRead      \* no cached answer

ASSUME CapAssumption == Cap \in Nat
ASSUME SizesAssumption == Sizes \subseteq Nat \ {0}
ASSUME OrderTypesAssumption == OrderTypes \subseteq {"Limit", "Market"}
ASSUME BoundsAssumption == MaxMarkets \in Nat /\ MaxLost \in Nat /\ MaxBlank \in Nat
ASSUME NoReadAssumption == NoRead \notin Int

VARIABLES
    filled,    \* value of the long equity positions
    limits,    \* value of the resting limit buys, at their limits
    markets,   \* value of the resting market buys
    cache,     \* _READ_CACHE: the value the positions or orders answer shows
    route,     \* a read of a route between the broker's answer and the cache
    step,      \* where place_order is
    buy,       \* the buy place_order was called for
    counted,   \* `deployed`, so far
    lost,      \* answers lost
    blank      \* orders answers without usable Orders

brokerVars == <<filled, limits, markets>>
callVars == <<step, buy, counted>>
vars == <<brokerVars, cache, route, callVars, lost, blank>>

Kinds == {"positions", "orders"}
Steps == {"idle", "positions", "orders", "post", "answered"}
NoBuy == [type |-> "none", value |-> 0]

TypeOK ==
    /\ filled \in Nat
    /\ limits \in Nat
    /\ markets \in Nat
    /\ cache \in [Kinds -> Nat \cup {NoRead}]
    /\ route \in [kind : Kinds \cup {"none"}, shows : Nat]
    /\ step \in Steps
    /\ buy \in [type : {"none", "Limit", "Market"}, value : Nat]
    /\ counted \in Nat
    /\ lost \in 0..MaxLost
    /\ blank \in 0..MaxBlank
    /\ step = "idle" => buy = NoBuy

NoRoute == [kind |-> "none", shows |-> 0]
EmptyCache == [k \in Kinds |-> NoRead]

Init ==
    /\ filled = 0
    /\ limits = 0
    /\ markets = 0
    /\ cache = EmptyCache
    /\ route = NoRoute
    /\ step = "idle"
    /\ buy = NoBuy
    /\ counted = 0
    /\ lost = 0
    /\ blank = 0

-----------------------------------------------------------------------------
(* The broker *)

LimitFills ==
    /\ \E n \in 1..limits : limits' = limits - n /\ filled' = filled + n
    /\ UNCHANGED <<markets, cache, route, callVars, lost, blank>>

MarketFills ==
    /\ markets > 0
    /\ markets' = 0
    /\ filled' = filled + markets
    /\ UNCHANGED <<limits, cache, route, callVars, lost, blank>>

\* A resting buy is cancelled or expires.
BuyDies ==
    /\ \/ limits' \in 0..limits /\ UNCHANGED markets
       \/ markets' = 0 /\ UNCHANGED limits
    /\ UNCHANGED <<filled, cache, route, callVars, lost, blank>>

\* Exits are never gated.
Sold ==
    /\ filled' \in 0..filled
    /\ UNCHANGED <<limits, markets, cache, route, callVars, lost, blank>>

-----------------------------------------------------------------------------
(* The gateway's reads *)

\* What an answer of the broker counts for: positions at their price, resting
\* buys at their limit, and a market buy has none.
Shows(kind) == IF kind = "positions" THEN filled ELSE limits

\* A 200 whose body does not parse, or has no Orders, counts for nothing; for
\* positions the same is a degraded read.
Answer(kind, empty) == IF empty THEN 0 ELSE Shows(kind)

Answered(kind, empty) ==
    /\ empty => kind = "orders" /\ blank < MaxBlank
    /\ blank' = IF empty THEN blank + 1 ELSE blank

\* A route's read of this kind misses the cache and, holding the lock, has the
\* broker's answer.
RouteReads(kind, empty) ==
    /\ route.kind = "none"
    /\ cache[kind] = NoRead
    /\ Answered(kind, empty)
    /\ route' = [kind |-> kind, shows |-> Answer(kind, empty)]
    /\ UNCHANGED <<brokerVars, cache, callVars, lost>>

\* The answer is cached and the lock released.
RouteStores ==
    /\ route.kind # "none"
    /\ cache' = [cache EXCEPT ![route.kind] = route.shows]
    /\ route' = NoRoute
    /\ UNCHANGED <<brokerVars, callVars, lost, blank>>

\* The read failed: nothing is cached.
RouteFails ==
    /\ route.kind # "none"
    /\ route' = NoRoute
    /\ UNCHANGED <<brokerVars, cache, callVars, lost, blank>>

CacheExpires(kind) ==
    /\ cache[kind] # NoRead
    /\ cache' = [cache EXCEPT ![kind] = NoRead]
    /\ UNCHANGED <<brokerVars, route, callVars, lost, blank>>

\* place_order's own read of this kind: the cached answer or, once no other read
\* holds the lock, the broker's.
Handed(kind, empty) == IF cache[kind] # NoRead THEN cache[kind] ELSE Answer(kind, empty)

Read(kind, empty) ==
    /\ IF cache[kind] # NoRead THEN ~empty ELSE route.kind = "none"
    /\ Answered(kind, empty)
    /\ cache' = [cache EXCEPT ![kind] = Handed(kind, empty)]

-----------------------------------------------------------------------------
(* place_order *)

\* A sleeve asks for a buy, and neither the kill switch nor the daily-loss halt
\* is in its way.  A market buy is sized off a live quote.
PlaceOrder ==
    /\ step = "idle"
    /\ buy' \in [type : OrderTypes, value : Sizes]
    /\ step' = "positions"
    /\ counted' = 0
    /\ UNCHANGED <<brokerVars, cache, route, lost, blank>>

Return ==
    /\ step' = "idle"
    /\ buy' = NoBuy
    /\ counted' = 0

\* A degraded read, or no price to size the buy: blocked.
CheckFails ==
    /\ step \in {"positions", "orders"}
    /\ Return
    /\ UNCHANGED <<brokerVars, cache, route, lost, blank>>

CountPositions ==
    /\ step = "positions"
    /\ Read("positions", FALSE)
    /\ counted' = Handed("positions", FALSE)
    /\ step' = "orders"
    /\ UNCHANGED <<brokerVars, route, buy, lost>>

\* Fault: the buy itself is left out of the comparison.
AllowedBefore(deployed) == deployed <= Cap

Allowed(deployed) == deployed + buy.value <= Cap

CountOrders(empty) ==
    /\ step = "orders"
    /\ Read("orders", empty)
    /\ LET deployed == counted + Handed("orders", empty) IN
       IF Allowed(deployed)
       THEN step' = "post" /\ counted' = deployed /\ UNCHANGED buy
       ELSE Return
    /\ UNCHANGED <<brokerVars, route, lost>>

Booked ==
    IF buy.type = "Limit"
    THEN limits' = limits + buy.value /\ UNCHANGED markets
    ELSE markets' = markets + buy.value /\ markets' <= MaxMarkets /\ UNCHANGED limits

Accepted ==
    /\ step = "post"
    /\ Booked
    /\ step' = "answered"
    /\ UNCHANGED <<filled, cache, route, buy, counted, lost, blank>>

\* The answer says the order was taken: the cached answers are dropped, and
\* not the one a route is about to store.
InvalidateReads ==
    /\ step = "answered"
    /\ cache' = EmptyCache
    /\ Return
    /\ UNCHANGED <<brokerVars, route, lost, blank>>

Refused ==
    /\ step = "post"
    /\ Return
    /\ UNCHANGED <<brokerVars, cache, route, lost, blank>>

\* The request times out, and the broker has the order.
AnswerLost ==
    /\ step = "post"
    /\ lost < MaxLost
    /\ lost' = lost + 1
    /\ Booked
    /\ Return
    /\ UNCHANGED <<filled, cache, route, blank>>

Next ==
    \/ LimitFills \/ MarketFills \/ BuyDies \/ Sold
    \/ \E kind \in Kinds : CacheExpires(kind) \/ \E empty \in BOOLEAN : RouteReads(kind, empty)
    \/ RouteStores \/ RouteFails
    \/ PlaceOrder \/ CheckFails \/ CountPositions \/ \E empty \in BOOLEAN : CountOrders(empty)
    \/ Accepted \/ InvalidateReads \/ Refused \/ AnswerLost

Spec == Init /\ [][Next]_vars

-----------------------------------------------------------------------------
(* Properties *)

Committed == filled + limits + markets

\* One cap for each lost answer and for each orders answer without Orders.
Slack == (lost + blank) * Cap

\* The resting limit buys exceed the cap at most once over, and once more for
\* each lost answer and each orders answer without Orders: a route that caches an
\* answer late hides one buy, because the next check waits for the lock that
\* route holds, and an answer without Orders lets one buy more through, because
\* that buy empties the cache.
RestingIsBounded == limits <= 2 * Cap + Slack

\* Whatever fills between the two reads, whatever a route caches late, no more is
\* ever committed than three times the cap, one cap more for each lost answer and
\* each orders answer without Orders, and what rested as market buys.
CommittedIsBounded == Committed <= 3 * Cap + Slack + MaxMarkets
=============================================================================
