------------------------ MODULE DeploymentCapProofs ------------------------
(***************************************************************************)
(* For every cap, every set of buy sizes and any number of lost answers:   *)
(* what module DeploymentCap checks of small instances.  Each answer that  *)
(* can still be counted, cached or in a route's hands, is paired with how  *)
(* much of the book it may be missing.                                     *)
(***************************************************************************)
EXTENDS DeploymentCap, TLAPS

\* The bounds themselves.
Within ==
    /\ markets <= MaxMarkets
    /\ limits <= 2 * Cap + Slack
    /\ Committed <= 3 * Cap + Slack + MaxMarkets

\* What a buy that passed the check may still add.
CheckedInv ==
    /\ step \in {"post", "answered"} => buy.value <= Cap
    /\ step = "post" =>
          /\ counted + buy.value <= Cap
          /\ limits + buy.value <= 2 * Cap + Slack
          /\ Committed + buy.value <= 3 * Cap + Slack + MaxMarkets

\* How many resting buys an orders answer may be missing.
OrdersInv ==
    /\ step # "answered" /\ cache["orders"] # NoRead =>
          limits <= cache["orders"] + Cap + Slack
    /\ route.kind = "orders" =>
          /\ cache["orders"] = NoRead
          /\ limits <= route.shows + Cap + Slack
          /\ step = "post" => limits + buy.value <= route.shows + Cap + Slack

\* How much of the book a positions answer may be missing.
PositionsInv ==
    /\ step # "answered" /\ cache["positions"] # NoRead =>
          Committed <= cache["positions"] + 2 * Cap + Slack + MaxMarkets
    /\ step = "orders" => Committed <= counted + 2 * Cap + Slack + MaxMarkets
    /\ route.kind = "positions" =>
          /\ cache["positions"] = NoRead
          /\ Committed <= route.shows + 2 * Cap + Slack + MaxMarkets
          /\ step = "post" =>
                Committed + buy.value <= route.shows + 2 * Cap + Slack + MaxMarkets
          /\ step # "answered" /\ cache["orders"] # NoRead =>
                Committed <= route.shows + cache["orders"] + Cap + Slack + MaxMarkets

IInv ==
    /\ TypeOK
    /\ Within
    /\ CheckedInv
    /\ OrdersInv
    /\ PositionsInv

LEMMA Sums == \A x, y, z \in Nat : x + y + z \in Nat
  OBVIOUS

\* The types the bounds are about.
Amounts ==
    /\ filled \in Nat /\ limits \in Nat /\ markets \in Nat /\ counted \in Nat
    /\ buy.value \in Nat /\ route.shows \in Nat
    /\ \A k \in Kinds : cache[k] # NoRead => cache[k] \in Nat
    /\ route.kind \in Kinds \cup {"none"}
    /\ step \in Steps
    /\ Slack \in Nat

LEMMA AmountsTyped == TypeOK => Amounts
<1> SUFFICES ASSUME TypeOK PROVE Amounts
  OBVIOUS
<1>1. lost \in Nat /\ blank \in Nat
  BY DEF TypeOK
<1>2. Slack \in Nat
  BY <1>1, CapAssumption DEF Slack
<1> QED
  BY <1>2 DEF TypeOK, Amounts

\* The state is well typed.
THEOREM TypeCorrect == Spec => []TypeOK
<1> USE CapAssumption, SizesAssumption, OrderTypesAssumption, BoundsAssumption,
        NoReadAssumption
<1>1. Init => TypeOK
  BY DEF Init, TypeOK, Kinds, Steps, NoBuy, NoRoute, EmptyCache
<1>2. TypeOK /\ [Next]_vars => TypeOK'
  <2> SUFFICES ASSUME TypeOK, [Next]_vars PROVE TypeOK'
    OBVIOUS
  <2> USE DEF TypeOK, Kinds, Steps, NoBuy
  <2>1. ASSUME LimitFills \/ MarketFills \/ BuyDies \/ Sold PROVE TypeOK'
    BY <2>1 DEF LimitFills, MarketFills, BuyDies, Sold, callVars
  <2>10. ASSUME NEW kind \in Kinds, NEW empty \in BOOLEAN
         PROVE  /\ Answer(kind, empty) \in Nat /\ Handed(kind, empty) \in Nat
                /\ Answered(kind, empty) => blank' \in 0..MaxBlank
    BY <2>10 DEF Answer, Handed, Answered, Shows
  <2> HIDE DEF Kinds
  <2>2. ASSUME NEW kind \in Kinds, CacheExpires(kind) PROVE TypeOK'
    BY <2>2 DEF CacheExpires, brokerVars, callVars
  <2>11. ASSUME NEW kind \in Kinds, NEW empty \in BOOLEAN, RouteReads(kind, empty) PROVE TypeOK'
    BY <2>10, <2>11 DEF RouteReads, brokerVars, callVars
  <2> USE DEF Kinds
  <2>3. ASSUME RouteStores \/ RouteFails PROVE TypeOK'
    BY <2>3 DEF RouteStores, RouteFails, NoRoute, brokerVars, callVars
  <2>4. ASSUME CheckFails \/ Refused \/ InvalidateReads PROVE TypeOK'
    BY <2>4 DEF CheckFails, Refused, InvalidateReads, Return, EmptyCache, brokerVars
  <2>9. CASE PlaceOrder
    BY <2>9 DEF PlaceOrder, brokerVars
  <2>5. CASE CountPositions
    BY <2>5, <2>10 DEF CountPositions, Read, brokerVars
  <2>6. ASSUME NEW empty \in BOOLEAN, CountOrders(empty) PROVE TypeOK'
    BY <2>6, <2>10 DEF CountOrders, Read, Allowed, Return, brokerVars
  <2>7. CASE Accepted \/ AnswerLost
    BY <2>7 DEF Accepted, AnswerLost, Booked, Return
  <2>8. CASE UNCHANGED vars
    BY <2>8 DEF vars, brokerVars, callVars
  <2> QED
    BY <2>1, <2>2, <2>3, <2>4, <2>5, <2>6, <2>7, <2>8, <2>9, <2>11 DEF Next
<1> QED
  BY <1>1, <1>2, PTL DEF Spec

\* The pairing is inductive: fills only move value from the resting buys to the
\* positions, and a route that holds a stale answer holds the lock that the next
\* check needs.
LEMMA Inductive == Spec => []IInv
<1> USE CapAssumption, BoundsAssumption, NoReadAssumption
<1>1. Init => IInv
  <2> SUFFICES ASSUME Init PROVE IInv
    OBVIOUS
  <2>1. Slack = 0
    BY SMT DEF Init, Slack
  <2>2. TypeOK
    BY DEF Init, TypeOK, Kinds, Steps, NoBuy, NoRoute, EmptyCache
  <2> QED
    BY <2>1, <2>2 DEF IInv, Init, Kinds, NoBuy, NoRoute, EmptyCache,
       Within, CheckedInv, OrdersInv, PositionsInv, Committed
<1>2. TypeOK' /\ IInv /\ [Next]_vars => IInv'
  <2> SUFFICES ASSUME TypeOK', IInv, [Next]_vars PROVE IInv'
    OBVIOUS
  <2>1. Amounts /\ Amounts'
    <3>1. Amounts
      BY AmountsTyped DEF IInv
    <3>2. Amounts'
      BY AmountsTyped, PTL
    <3> QED
      BY <3>1, <3>2
  <2>0. Committed' = filled' + limits' + markets'
    BY DEF Committed
  <2>2. Committed \in Nat /\ Committed' \in Nat
    <3>1. filled \in Nat /\ limits \in Nat /\ markets \in Nat
      BY <2>1 DEF Amounts
    <3>2. filled' \in Nat /\ limits' \in Nat /\ markets' \in Nat
      BY <2>1 DEF Amounts
    <3>3. Committed \in Nat
      BY <3>1 DEF Committed
    <3>4. filled' + limits' + markets' \in Nat
      BY <3>2, Sums
    <3> QED
      BY <3>3, <3>4, <2>0
  <2>3. UNCHANGED <<brokerVars>> => Committed' = Committed
    BY DEF Committed, brokerVars
  <2>4. lost' = lost /\ blank' = blank => Slack' = Slack
    BY DEF Slack
  <2>5. /\ lost' = lost + 1 /\ blank' = blank => Slack' = Slack + Cap
        /\ lost' = lost /\ blank' = blank + 1 => Slack' = Slack + Cap
    <3>1. lost \in Nat /\ blank \in Nat
      BY DEF IInv, TypeOK
    <3>2. \A n, m \in Nat : /\ ((n + 1) + m) * Cap = (n + m) * Cap + Cap
                            /\ (n + (m + 1)) * Cap = (n + m) * Cap + Cap
      OBVIOUS
    <3>3. ((lost + 1) + blank) * Cap = Slack + Cap /\ (lost + (blank + 1)) * Cap = Slack + Cap
      BY <3>1, <3>2 DEF Slack
    <3>4. Slack' = (lost' + blank') * Cap
      BY DEF Slack
    <3> QED
      BY <3>3, <3>4
  <2>6. cache \in [Kinds -> Nat \cup {NoRead}]
    BY DEF IInv, TypeOK
  <2>7. Within /\ CheckedInv /\ OrdersInv /\ PositionsInv
    BY DEF IInv
  <2>8. SUFFICES Within' /\ CheckedInv' /\ OrdersInv' /\ PositionsInv'
    BY DEF IInv
  <2>20. ASSUME LimitFills \/ MarketFills \/ BuyDies \/ Sold
         PROVE  limits' <= limits /\ markets' <= markets /\ Committed' <= Committed
    <3>1. filled \in Nat /\ limits \in Nat /\ markets \in Nat
      BY <2>1 DEF Amounts
    <3>2. CASE LimitFills
      BY <3>1, <3>2 DEF LimitFills, Committed
    <3>3. CASE MarketFills
      BY <3>1, <3>3 DEF MarketFills, Committed
    <3>4. CASE BuyDies
      BY <3>1, <3>4 DEF BuyDies, Committed
    <3>5. CASE Sold
      <4>1. PICK n \in 0..filled : filled' = n
        BY <3>5 DEF Sold
      <4>2. limits' = limits /\ markets' = markets
        BY <3>5 DEF Sold
      <4>3. Committed' = n + limits + markets
        BY <4>1, <4>2 DEF Committed
      <4>4. n + limits + markets <= filled + limits + markets
        BY <3>1
      <4> QED
        BY <3>1, <4>2, <4>3, <4>4 DEF Committed
    <3> QED
      BY <2>20, <3>2, <3>3, <3>4, <3>5
  <2> USE <2>1, <2>2, <2>7 DEF Amounts, Kinds, Steps
  <2>9. ASSUME LimitFills \/ MarketFills \/ BuyDies \/ Sold
        PROVE  Within' /\ CheckedInv' /\ OrdersInv' /\ PositionsInv'
    <3>1. UNCHANGED <<cache, route, callVars, lost, blank>>
      BY <2>9 DEF LimitFills, MarketFills, BuyDies, Sold
    <3>2. limits' <= limits /\ markets' <= markets /\ Committed' <= Committed
      BY <2>9, <2>20
    <3>3. Within'
      BY <2>4, <3>1, <3>2 DEF Within, callVars
    <3>4. CheckedInv'
      BY <2>4, <3>1, <3>2 DEF CheckedInv, callVars
    <3>5. OrdersInv'
      BY <2>4, <3>1, <3>2 DEF OrdersInv, callVars
    <3>6. PositionsInv'
      BY <2>4, <3>1, <3>2 DEF PositionsInv, callVars
    <3> QED
      BY <3>3, <3>4, <3>5, <3>6
  <2>22. ASSUME NEW S \in Nat, S = Slack \/ S = Slack + Cap
         PROVE  /\ limits <= 2 * Cap + S
                /\ Committed <= 3 * Cap + S + MaxMarkets
                /\ step = "post" => /\ limits + buy.value <= 2 * Cap + S
                                    /\ Committed + buy.value <= 3 * Cap + S + MaxMarkets
    BY <2>22 DEF Within, CheckedInv
  <2>23. ASSUME NEW S \in Nat, S = Slack \/ S = Slack + Cap
         PROVE  /\ step # "answered" /\ cache["positions"] # NoRead =>
                      Committed <= cache["positions"] + 2 * Cap + S + MaxMarkets
                /\ step = "orders" => Committed <= counted + 2 * Cap + S + MaxMarkets
                /\ route.kind = "positions" =>
                      /\ cache["positions"] = NoRead
                      /\ Committed <= route.shows + 2 * Cap + S + MaxMarkets
                      /\ step = "post" =>
                            Committed + buy.value <= route.shows + 2 * Cap + S + MaxMarkets
                      /\ step # "answered" /\ cache["orders"] # NoRead =>
                            Committed <= route.shows + cache["orders"] + Cap + S + MaxMarkets
    BY <2>23 DEF PositionsInv
  <2>21. ASSUME lost' = lost, NEW kind \in Kinds, NEW empty \in BOOLEAN, Answered(kind, empty)
         PROVE  /\ ~empty => Slack' = Slack
                /\ empty => kind = "orders" /\ Slack' = Slack + Cap
    BY <2>4, <2>5, <2>21 DEF Answered
  <2>10. ASSUME NEW kind \in Kinds, NEW empty \in BOOLEAN, RouteReads(kind, empty)
         PROVE  Within' /\ CheckedInv' /\ OrdersInv' /\ PositionsInv'
    <3>1. /\ UNCHANGED <<cache, step, buy, counted, limits, markets>> /\ Committed' = Committed
          /\ cache[kind] = NoRead
          /\ route' = [kind |-> kind, shows |-> Answer(kind, empty)]
      BY <2>3, <2>10 DEF RouteReads, brokerVars, callVars
    <3>2. \/ Slack' = Slack /\ Answer(kind, empty) = Shows(kind)
          \/ kind = "orders" /\ Slack' = Slack + Cap /\ Answer(kind, empty) = 0
      BY <2>10, <2>21 DEF RouteReads, Answer, callVars
    <3>3. Slack' \in Nat /\ (Slack' = Slack \/ Slack' = Slack + Cap)
      BY <3>2
    <3>4. Within' /\ CheckedInv'
      BY <2>22, <3>1, <3>3 DEF Within, CheckedInv
    <3>5. OrdersInv'
      <4>1. CASE kind = "orders"
        <5>1. /\ limits <= route'.shows + Cap + Slack'
              /\ step = "post" => limits + buy.value <= route'.shows + Cap + Slack'
          BY <3>1, <3>2, <4>1 DEF Shows, Within, CheckedInv
        <5> QED
          BY <3>1, <4>1, <5>1 DEF OrdersInv
      <4>2. CASE kind = "positions"
        BY <3>1, <3>2, <4>2 DEF OrdersInv
      <4> QED
        BY <4>1, <4>2
    <3>6. PositionsInv'
      <4>1. CASE kind = "orders"
        BY <2>23, <3>1, <3>3, <4>1 DEF PositionsInv
      <4>2. CASE kind = "positions"
        <5>1. /\ Committed <= filled + 2 * Cap + Slack + MaxMarkets
              /\ step = "post" =>
                    Committed + buy.value <= filled + 2 * Cap + Slack + MaxMarkets
              /\ step # "answered" /\ cache["orders"] # NoRead =>
                    Committed <= filled + cache["orders"] + Cap + Slack + MaxMarkets
          BY DEF Committed, Within, CheckedInv, OrdersInv
        <5>2. Slack' = Slack /\ route'.shows = filled
          BY <3>1, <3>2, <4>2 DEF Shows
        <5> QED
          BY <3>1, <4>2, <5>1, <5>2 DEF PositionsInv
      <4> QED
        BY <4>1, <4>2
    <3> QED
      BY <3>4, <3>5, <3>6
  <2>11. ASSUME NEW kind \in Kinds, CacheExpires(kind)
         PROVE  Within' /\ CheckedInv' /\ OrdersInv' /\ PositionsInv'
    <3>1. Within'
      BY <2>3, <2>4, <2>6, <2>11 DEF Within, CacheExpires, brokerVars, callVars
    <3>2. CheckedInv'
      BY <2>3, <2>4, <2>6, <2>11 DEF CheckedInv, CacheExpires, brokerVars, callVars
    <3>3. OrdersInv'
      BY <2>3, <2>4, <2>6, <2>11 DEF OrdersInv, CacheExpires, brokerVars, callVars
    <3>4. PositionsInv'
      BY <2>3, <2>4, <2>6, <2>11 DEF PositionsInv, CacheExpires, brokerVars, callVars
    <3> QED
      BY <3>1, <3>2, <3>3, <3>4
  <2>12. CASE RouteStores
    <3>1. Within'
      BY <2>3, <2>4, <2>6, <2>12 DEF Within, RouteStores, NoRoute, brokerVars, callVars
    <3>2. CheckedInv'
      BY <2>3, <2>4, <2>6, <2>12 DEF CheckedInv, RouteStores, NoRoute, brokerVars, callVars
    <3>3. OrdersInv'
      BY <2>3, <2>4, <2>6, <2>12 DEF OrdersInv, RouteStores, NoRoute, brokerVars, callVars
    <3>4. PositionsInv'
      BY <2>3, <2>4, <2>6, <2>12 DEF PositionsInv, RouteStores, NoRoute, brokerVars, callVars
    <3> QED
      BY <3>1, <3>2, <3>3, <3>4
  <2>13. CASE RouteFails
    <3>1. Within'
      BY <2>3, <2>4, <2>13 DEF Within, RouteFails, NoRoute, brokerVars, callVars
    <3>2. CheckedInv'
      BY <2>3, <2>4, <2>13 DEF CheckedInv, RouteFails, NoRoute, brokerVars, callVars
    <3>3. OrdersInv'
      BY <2>3, <2>4, <2>13 DEF OrdersInv, RouteFails, NoRoute, brokerVars, callVars
    <3>4. PositionsInv'
      BY <2>3, <2>4, <2>13 DEF PositionsInv, RouteFails, NoRoute, brokerVars, callVars
    <3> QED
      BY <3>1, <3>2, <3>3, <3>4
  <2>14. ASSUME PlaceOrder \/ CheckFails \/ Refused
         PROVE  Within' /\ CheckedInv' /\ OrdersInv' /\ PositionsInv'
    <3>1. /\ UNCHANGED <<brokerVars, cache, route, lost, blank>>
          /\ step # "answered" /\ step' \in {"idle", "positions"}
      BY <2>14 DEF PlaceOrder, CheckFails, Refused, Return
    <3>2. Within'
      BY <2>3, <2>4, <3>1 DEF Within, brokerVars
    <3>3. CheckedInv'
      BY <2>3, <2>4, <3>1 DEF CheckedInv
    <3>4. OrdersInv'
      BY <2>3, <2>4, <3>1 DEF OrdersInv, brokerVars
    <3>5. PositionsInv'
      BY <2>3, <2>4, <3>1 DEF PositionsInv
    <3> QED
      BY <3>2, <3>3, <3>4, <3>5
  <2>15. CASE InvalidateReads
    <3>1. Within'
      BY <2>3, <2>4, <2>15 DEF Within, InvalidateReads, Return, EmptyCache, brokerVars
    <3>2. CheckedInv'
      BY <2>3, <2>4, <2>15 DEF CheckedInv, InvalidateReads, Return, EmptyCache, brokerVars
    <3>3. OrdersInv'
      BY <2>3, <2>4, <2>15 DEF OrdersInv, InvalidateReads, Return, EmptyCache, brokerVars
    <3>4. PositionsInv'
      BY <2>3, <2>4, <2>15 DEF PositionsInv, InvalidateReads, Return, EmptyCache, brokerVars
    <3> QED
      BY <3>1, <3>2, <3>3, <3>4
  <2>16. CASE CountPositions
    <3>1. Within'
      BY <2>3, <2>4, <2>6, <2>16 DEF Within, CountPositions, Read, Handed, Answer, Answered, Shows, brokerVars, Committed
    <3>2. CheckedInv'
      BY <2>3, <2>4, <2>6, <2>16 DEF CheckedInv, CountPositions, Read, Handed, Answer, Answered, Shows, brokerVars, Committed
    <3>3. OrdersInv'
      BY <2>3, <2>4, <2>6, <2>16 DEF OrdersInv, CountPositions, Read, Handed, Answer, Answered, Shows, brokerVars, Committed
    <3> DEFINE p == Handed("positions", FALSE)
    <3>5. /\ p \in Nat /\ Committed <= p + 2 * Cap + Slack + MaxMarkets
          /\ cache' = [cache EXCEPT !["positions"] = p]
          /\ route.kind # "positions" /\ step' = "orders" /\ counted' = p
          /\ route' = route /\ Committed' = Committed /\ Slack' = Slack
      BY <2>3, <2>4, <2>16 DEF CountPositions, Read, Handed, Answer, Answered, Shows, PositionsInv, Committed, Within
    <3> HIDE DEF p
    <3>6. cache'["positions"] = p
      BY <2>6, <3>5
    <3>4. PositionsInv'
      BY <3>5, <3>6 DEF PositionsInv
    <3> QED
      BY <3>1, <3>2, <3>3, <3>4
  <2>17. ASSUME NEW empty \in BOOLEAN, CountOrders(empty)
         PROVE  Within' /\ CheckedInv' /\ OrdersInv' /\ PositionsInv'
    <3> DEFINE s == Handed("orders", empty)
    <3>1. /\ cache' = [cache EXCEPT !["orders"] = s]
          /\ step = "orders"
          /\ UNCHANGED <<filled, limits, markets, route>> /\ Committed' = Committed
          /\ s \in Nat
      BY <2>3, <2>17 DEF CountOrders, Read, Handed, Answer, Shows, brokerVars
    <3>11. \/ cache["orders"] # NoRead /\ s = cache["orders"] /\ Slack' = Slack
           \/ route.kind = "none" /\ s = limits /\ Slack' = Slack
           \/ route.kind = "none" /\ s = 0 /\ Slack' = Slack + Cap
      BY <2>17, <2>21 DEF CountOrders, Read, Handed, Answer, Shows
    <3>12. route.kind # "orders" /\ limits <= s + Cap + Slack'
      BY <3>1, <3>11 DEF OrdersInv, Within
    <3>13. Slack' \in Nat /\ (Slack' = Slack \/ Slack' = Slack + Cap)
      BY <3>11
    <3>2. cache'["orders"] = s /\ cache'["positions"] = cache["positions"]
      BY <2>6, <3>1
    <3>3. \/ /\ step' = "post" /\ counted' = counted + s /\ UNCHANGED buy
             /\ counted + s + buy.value <= Cap
          \/ step' = "idle"
      BY <2>17 DEF CountOrders, Allowed, Return
    <3>4. route.kind = "positions" =>
             Committed <= route.shows + s + Cap + Slack' + MaxMarkets
      BY <3>1, <3>11 DEF PositionsInv
    <3>5. Committed <= counted + 2 * Cap + Slack' + MaxMarkets
      BY <2>23, <3>1, <3>13
    <3> HIDE DEF s
    <3>6. Within'
      BY <2>22, <3>1, <3>13 DEF Within
    <3>7. CheckedInv'
      <4>1. ASSUME NEW S \in Nat, counted + s + buy.value <= Cap,
                   limits <= s + Cap + S, Committed <= counted + 2 * Cap + S + MaxMarkets
            PROVE  /\ buy.value <= Cap
                   /\ limits + buy.value <= 2 * Cap + S
                   /\ Committed + buy.value <= 3 * Cap + S + MaxMarkets
        BY <3>1, <4>1
      <4> QED
        BY <3>1, <3>3, <3>5, <3>12, <3>13, <4>1 DEF CheckedInv
    <3>8. OrdersInv'
      BY <3>1, <3>2, <3>12 DEF OrdersInv
    <3>14. route.kind = "positions" =>
             /\ cache["positions"] = NoRead
             /\ Committed <= route.shows + 2 * Cap + Slack' + MaxMarkets
      BY <2>23, <3>13
    <3>15. cache["positions"] # NoRead =>
             Committed <= cache["positions"] + 2 * Cap + Slack' + MaxMarkets
      BY <2>23, <3>1, <3>13
    <3>16. step' = "post" => s + buy'.value <= Cap
      BY <3>1, <3>3
    <3>17. step' = "post" /\ route.kind = "positions" =>
             Committed + buy'.value <= route.shows + 2 * Cap + Slack' + MaxMarkets
      <4>1. ASSUME NEW S \in Nat, NEW b \in Nat, s + b <= Cap,
                   Committed <= route.shows + s + Cap + S + MaxMarkets
            PROVE  Committed + b <= route.shows + 2 * Cap + S + MaxMarkets
        BY <3>1, <4>1
      <4> QED
        BY <3>4, <3>13, <3>16, <4>1
    <3>9. PositionsInv'
      BY <3>1, <3>2, <3>3, <3>4, <3>14, <3>15, <3>17 DEF PositionsInv
    <3> QED
      BY <3>6, <3>7, <3>8, <3>9
  <2>18. ASSUME Accepted \/ AnswerLost
         PROVE  Within' /\ CheckedInv' /\ OrdersInv' /\ PositionsInv'
    <3>1. /\ step = "post" /\ markets' <= MaxMarkets
          /\ limits' <= limits + buy.value /\ Committed' = Committed + buy.value
          /\ UNCHANGED <<cache, route>>
      BY <2>18 DEF Accepted, AnswerLost, Booked, Committed, Within
    <3>2. \/ step' = "answered" /\ UNCHANGED <<buy, counted, lost, blank>>
          \/ step' = "idle" /\ lost' = lost + 1 /\ blank' = blank
      BY <2>18 DEF Accepted, AnswerLost, Return
    <3>3. /\ buy.value <= Cap
          /\ limits + buy.value <= 2 * Cap + Slack
          /\ Committed + buy.value <= 3 * Cap + Slack + MaxMarkets
      BY <3>1 DEF CheckedInv
    <3>8. Slack' = Slack \/ Slack' = Slack + Cap
      BY <2>4, <2>5, <3>2
    <3>9. limits' <= 2 * Cap + Slack
      BY <3>1, <3>3
    <3>10. Committed' <= 3 * Cap + Slack + MaxMarkets
      BY <3>1, <3>3
    <3>4. Within'
      <4>1. ASSUME NEW S \in Nat, S = Slack \/ S = Slack + Cap
            PROVE  /\ limits' <= 2 * Cap + S
                   /\ Committed' <= 3 * Cap + S + MaxMarkets
        BY <3>9, <3>10, <4>1
      <4> QED
        BY <3>1, <3>8, <4>1 DEF Within
    <3>5. CheckedInv'
      BY <2>4, <2>5, <3>1, <3>2, <3>3 DEF CheckedInv
    <3>6. OrdersInv'
      BY <2>4, <2>5, <3>1, <3>2, <3>3 DEF OrdersInv
    <3>7. PositionsInv'
      BY <2>4, <2>5, <3>1, <3>2, <3>3 DEF PositionsInv
    <3> QED
      BY <3>4, <3>5, <3>6, <3>7
  <2>19. CASE UNCHANGED vars
    BY <2>3, <2>4, <2>19 DEF vars, brokerVars, callVars, Within, CheckedInv, OrdersInv, PositionsInv
  <2> QED
    BY <2>9, <2>10, <2>11, <2>12, <2>13, <2>14, <2>15, <2>16, <2>17, <2>18, <2>19 DEF Next
<1> QED
  BY <1>1, <1>2, TypeCorrect, PTL DEF Spec

\* The resting limit buys are at most twice the cap, and one cap more for each
\* lost answer and each orders answer without Orders.
THEOREM RestingCorrect == Spec => []RestingIsBounded
  BY Inductive, PTL DEF IInv, Within, RestingIsBounded, CommittedIsBounded

\* No more is ever committed than three times the cap, one cap more for each lost
\* answer and each orders answer without Orders, and what rested as market buys.
THEOREM CommittedCorrect == Spec => []CommittedIsBounded
  BY Inductive, PTL DEF IInv, Within, RestingIsBounded, CommittedIsBounded
=============================================================================
