-------------------------- MODULE SleeveBookProofs --------------------------
(* Proofs about SleeveBook, for every set of targets, budget, cap and bound. *)
EXTENDS SleeveBook, TLAPS

\* The broker's books balance: what is bought fits under the cap on the book,
\* and what is being sold, the stop included, is held.
Balanced == held + buys <= BookCap /\ sells + stop <= held

LEMMA CountFacts == 0 \in Count /\ Count \subseteq Int /\ NoRead \notin Count
BY SleeveAssumption, NoReadAssumption DEF Count

LEMMA InitTypes == Init => TypeOK /\ Balanced
<1> SUFFICES ASSUME Init PROVE TypeOK /\ Balanced
  OBVIOUS
<1>1. held \in Count
  BY SleeveAssumption DEF Init, Count
<1>2. lots \in [Sleeves -> Count]
  BY <1>1, CountFacts DEF Init
<1>3. stopped \in BOOLEAN
  BY SleeveAssumption DEF Init
<1>4. held <= BookCap /\ held \in Int /\ 0 <= held
  BY <1>1, SleeveAssumption DEF Count
<1>5. Balanced
  BY <1>4 DEF Init, Balanced
<1>6. /\ buys \in Count /\ sells \in Count /\ stop \in Count
      /\ positions \in Count \cup {NoRead} /\ target \in Targets \cup {0}
  BY CountFacts DEF Init
<1>7. net = NoRead /\ pc \in Steps /\ raced \in BOOLEAN /\ blind \in BOOLEAN
  BY DEF Init, Steps
<1>8. faults \in 0..MaxFaults
  BY SleeveAssumption DEF Init
<1> QED
  BY <1>1, <1>2, <1>3, <1>5, <1>6, <1>7, <1>8 DEF TypeOK

\* The broker's moves.
LEMMA MarketTypes == TypeOK /\ Balanced /\ Market => TypeOK' /\ Balanced'
<1> SUFFICES ASSUME TypeOK, Balanced, Market PROVE TypeOK' /\ Balanced'
  OBVIOUS
<1>1. /\ held' \in Count /\ buys' \in Count /\ sells' \in Count /\ stop' \in Count
      /\ Balanced'
  BY SleeveAssumption DEF Market, BuyFills, SellFills, BuyDies, SellDies, TypeOK, Balanced, Count
<1>2. raced' \in BOOLEAN
  BY DEF Market, BuyFills, SellFills, BuyDies, SellDies, TypeOK, Moved
<1>3. UNCHANGED <<positions, lots, target, pc, net, faults, blind, stopped>>
  BY DEF Market, BuyFills, SellFills, BuyDies, SellDies
<1> QED
  BY <1>1, <1>2, <1>3 DEF TypeOK

LEMMA ThreadTypes == TypeOK /\ Balanced /\ Threads => TypeOK' /\ Balanced'
<1> SUFFICES ASSUME TypeOK, Balanced, Threads PROVE TypeOK' /\ Balanced'
  OBVIOUS
<1>1. positions' \in Count \cup {NoRead}
  BY DEF Threads, RequestReads, CacheExpires, TypeOK
<1>2. UNCHANGED <<broker, lots, target, pc, net, faults, history, stopped>>
  BY DEF Threads, RequestReads, CacheExpires
<1> QED
  BY <1>1, <1>2 DEF TypeOK, Balanced, broker, history

\* A read is of a position the account has had.
LEMMA SeenFacts == TypeOK => SeenPosition \in Count
BY DEF TypeOK, SeenPosition

LEMMA ShareFacts ==
    ASSUME TypeOK, NEW s \in Sleeves, NEW total \in Count
    PROVE  Share(s, total) \in Count
<1>1. lots["trend"] \in Count /\ lots["xs"] \in Count
  BY DEF TypeOK, Sleeves
<1> QED
  BY <1>1, SleeveAssumption DEF Share, Max0, HeldByOther, Count

LEMMA LotsFacts ==
    ASSUME TypeOK, NEW s \in Sleeves, ReconcileLots(s)
    PROVE  lots' \in [Sleeves -> Count] /\ faults' \in 0..MaxFaults
<1>1. Share(s, SeenPosition) \in Count /\ Share(s, 0) \in Count
  BY SeenFacts, ShareFacts, CountFacts
<1>2. lots' \in [Sleeves -> Count]
  BY <1>1 DEF ReconcileLots, Reconciled, ReconciledBlind, TypeOK
<1>3. faults' \in 0..MaxFaults
  BY SleeveAssumption DEF ReconcileLots, Fault, TypeOK
<1> QED
  BY <1>2, <1>3

\* What an order does to the broker.
LEMMA PlaceFacts ==
    ASSUME TypeOK, Balanced, NEW q \in Int, q # 0, Place(q) \/ Rejected(q)
    PROVE  /\ held' \in Count /\ buys' \in Count /\ sells' \in Count /\ stop' \in Count
           /\ Balanced'
BY SleeveAssumption DEF TypeOK, Balanced, Place, Bought, Sold, Rejected, broker, Count

LEMMA DeltaFacts ==
    ASSUME TypeOK, NEW own \in Count
    PROVE  Quantity(own) \in Int
<1>1. target \in Int /\ own \in Int /\ Budget \in Int
  BY SleeveAssumption, CountFacts DEF TypeOK
<1>2. Delta(own) \in Int
  BY <1>1 DEF Delta, TypeOK
<1>3. lots["trend"] \in Int
  BY CountFacts DEF TypeOK, Sleeves
<1>4. PICK d \in Int : d = Delta(own)
  BY <1>2
<1>5. Quantity(own) = IF net = NoRead /\ target # 0 THEN 0
                      ELSE IF d > 0 THEN Least(d, Max0(Budget - own))
                      ELSE IF Armed THEN -Least(-d, lots["trend"]) ELSE d
  BY <1>4 DEF Quantity
<1>6. Least(d, Max0(Budget - own)) \in Int /\ -Least(-d, lots["trend"]) \in Int
  BY <1>1, <1>3 DEF Least, Max0
<1> QED
  BY <1>5, <1>6

LEMMA PassTypes == TypeOK /\ Balanced /\ Pass => TypeOK' /\ Balanced'
<1> SUFFICES ASSUME TypeOK, Balanced, Pass PROVE TypeOK' /\ Balanced'
  OBVIOUS
<1>0. SeenPosition \in Count
  BY SeenFacts
<1>1. CASE Reconcile
  <2>1. lots' \in [Sleeves -> Count] /\ faults' \in 0..MaxFaults
    BY <1>1, LotsFacts DEF Reconcile, Sleeves
  <2>2. target' \in Targets /\ pc' \in Steps /\ positions' \in Count \cup {NoRead}
    BY <1>0, <1>1 DEF Reconcile, Steps
  <2>3. raced' \in BOOLEAN
    BY <1>1 DEF Reconcile
  <2>4. UNCHANGED <<broker, net, blind, stopped>>
    BY <1>1 DEF Reconcile
  <2> QED
    BY <2>1, <2>2, <2>3, <2>4 DEF TypeOK, Balanced, broker
<1>2. CASE Snapshot
  <2>1. UNCHANGED <<broker, positions, lots, target, history, stopped>> /\ pc' \in Steps
    BY <1>2 DEF Snapshot, Steps
  <2>2. faults' \in 0..MaxFaults
    BY <1>2, SleeveAssumption DEF Snapshot, Fault, TypeOK
  <2>3. InFlight \in -(2 * BookCap)..BookCap
    BY SleeveAssumption DEF InFlight, TypeOK, Count
  <2>4. net' \in -(2 * BookCap)..BookCap \cup {NoRead}
    BY <1>2, <2>3 DEF Snapshot
  <2> QED
    BY <2>1, <2>2, <2>4 DEF TypeOK, Balanced, broker, history
<1>3. CASE Trade
  <2>1. PICK own \in Count : \/ Order(Quantity(own)) /\ UNCHANGED blind
                             \/ /\ blind' = TRUE
                                /\ \/ Quantity(own) # 0 /\ Place(Quantity(own)) /\ Invalidated
                                   \/ /\ IF Quantity(own) = 0 THEN UNCHANGED broker
                                                              ELSE Rejected(Quantity(own))
                                      /\ UNCHANGED positions
                                /\ Fault /\ UNCHANGED raced
    BY <1>0, <1>3, CountFacts, ShareFacts DEF Trade, Sleeves
  <2>2. PICK q \in Int : q = Quantity(own)
    BY DeltaFacts
  <2>3. \/ q # 0 /\ (Place(q) \/ Rejected(q))
        \/ UNCHANGED broker
    BY <2>1, <2>2 DEF Order
  <2>4. /\ held' \in Count /\ buys' \in Count /\ sells' \in Count /\ stop' \in Count
        /\ Balanced'
    BY <2>3, PlaceFacts DEF TypeOK, Balanced, broker
  <2>5. positions' \in Count \cup {NoRead}
    BY <1>0, <2>1 DEF Order, Invalidated, TypeOK
  <2>6. faults' = faults \/ Fault
    BY <2>1 DEF Order
  <2>7. faults' \in 0..MaxFaults
    BY <2>6, SleeveAssumption DEF Fault, TypeOK
  <2>8. raced' \in BOOLEAN /\ blind' \in BOOLEAN
    BY <2>1 DEF Order, Moved, TypeOK
  <2>9. pc' \in Steps /\ net' = NoRead /\ UNCHANGED <<lots, target, stopped>>
    BY <1>3 DEF Trade, Steps
  <2> QED
    BY <2>4, <2>5, <2>7, <2>8, <2>9 DEF TypeOK
<1>4. CASE XsReconcile
  <2>1. lots' \in [Sleeves -> Count] /\ faults' \in 0..MaxFaults
    BY <1>4, LotsFacts DEF XsReconcile, Sleeves
  <2>2. pc' \in Steps /\ positions' \in Count \cup {NoRead}
    BY <1>4 DEF XsReconcile, Paused, Invalidated, Steps, TypeOK
  <2>3. UNCHANGED <<broker, target, net, history, stopped>>
    BY <1>4 DEF XsReconcile
  <2> QED
    BY <2>1, <2>2, <2>3 DEF TypeOK, Balanced, broker, history
<1>5. CASE EnsureStops
  <2>1. UNCHANGED <<held, buys, sells, lots, target, net, faults, history, stopped>>
    BY <1>5 DEF EnsureStops
  <2>2. stop' = stop \/ (stop' = SeenPosition /\ SeenPosition <= held - sells - stop)
    BY <1>0, <1>5, CountFacts DEF EnsureStops, TypeOK, Count
  <2>3. stop' \in Count /\ sells + stop' <= held
    BY <1>0, <2>2, SleeveAssumption DEF TypeOK, Balanced, Count
  <2>4. pc' \in Steps /\ positions' = NoRead
    BY <1>5 DEF EnsureStops, Paused, Invalidated, Steps
  <2> QED
    BY <2>1, <2>3, <2>4 DEF TypeOK, Balanced, history
<1>6. CASE Skip
  <2>1. pc' \in Steps /\ net' = NoRead /\ UNCHANGED <<broker, lots, target, faults, history, stopped>>
    BY <1>6 DEF Skip, Steps
  <2>2. positions' \in Count \cup {NoRead}
    BY <1>0, <1>6 DEF Skip, TypeOK
  <2> QED
    BY <2>1, <2>2 DEF TypeOK, Balanced, broker, history
<1> QED
  BY <1>1, <1>2, <1>3, <1>4, <1>5, <1>6 DEF Pass

\* The sleeve's state keeps its types: no lot, order or position ever leaves
\* the range the cap on the book gives it.
THEOREM TypeCorrect == Spec => [](TypeOK /\ Balanced)
<1>1. TypeOK /\ Balanced /\ UNCHANGED vars => TypeOK' /\ Balanced'
  BY DEF TypeOK, Balanced, vars, broker, history
<1>2. TypeOK /\ Balanced /\ [Next]_vars => TypeOK' /\ Balanced'
  BY <1>1, MarketTypes, ThreadTypes, PassTypes DEF Next
<1> QED
  BY InitTypes, <1>2, PTL DEF Spec

-----------------------------------------------------------------------------
(* No stacking. *)

\* Unless the broker moved under them, the reads of a pass are what the broker
\* would answer now; and no stop rests where none is placed.
ReadsHold ==
    /\ ~raced => /\ positions \in {NoRead, held}
                 /\ pc = "trade" /\ net # NoRead => net = InFlight
    /\ ~stopped => stop = 0 /\ pc # "ensure"

LEMMA InitReads == Init => ReadsHold
BY DEF Init, ReadsHold

LEMMA MarketReads == TypeOK /\ ReadsHold /\ Market => ReadsHold'
<1> SUFFICES ASSUME TypeOK, ReadsHold, Market PROVE ReadsHold'
  OBVIOUS
<1>1. Moved /\ UNCHANGED <<stop, positions, pc, net, stopped>>
  BY DEF Market, BuyFills, SellFills, BuyDies, SellDies
<1> QED
  BY <1>1 DEF Moved, ReadsHold

LEMMA ThreadReads == ReadsHold /\ Threads => ReadsHold'
BY DEF Threads, RequestReads, CacheExpires, ReadsHold, InFlight, broker, history

LEMMA PassReads == TypeOK /\ ReadsHold /\ Pass => ReadsHold'
<1> SUFFICES ASSUME TypeOK, ReadsHold, Pass PROVE ReadsHold'
  OBVIOUS
<1>0. ~raced => SeenPosition = held
  BY DEF ReadsHold, SeenPosition
<1>1. CASE Reconcile
  <2>1. raced' = (raced /\ positions # NoRead) /\ pc' = "snapshot" /\ UNCHANGED <<broker, stopped>>
    BY <1>1 DEF Reconcile
  <2>2. positions' \in {SeenPosition, NoRead}
    BY <1>1 DEF Reconcile
  <2>3. ~raced' => SeenPosition = held
    BY <1>0, <2>1 DEF SeenPosition
  <2> QED
    BY <2>1, <2>2, <2>3 DEF ReadsHold, broker
<1>2. CASE Snapshot
  BY <1>2 DEF Snapshot, ReadsHold, InFlight, broker, history
<1>3. CASE Trade
  <2>1. pc' = "xs" /\ UNCHANGED stopped
    BY <1>3 DEF Trade
  <2>2. ~stopped => stop' = 0
    BY <1>3 DEF Trade, Order, Place, Bought, Sold, Rejected, ReadsHold, broker
  <2>3. ~raced' => positions' \in {NoRead, held'}
    <3>1. ASSUME NEW q, Order(q), ~raced' PROVE positions' \in {NoRead, held'}
      <4>1. CASE positions' = NoRead
        BY <4>1
      <4>2. CASE positions' = SeenPosition /\ UNCHANGED raced /\ held' = held
        BY <1>0, <3>1, <4>2
      <4>3. CASE Moved
        BY <1>3, <3>1, <4>3 DEF Moved, Trade
      <4> QED
        BY <3>1, <4>1, <4>2, <4>3 DEF Order, Invalidated, Rejected, broker
    <3>2. ASSUME positions = NoRead, positions' = NoRead PROVE positions' \in {NoRead, held'}
      BY <3>2
    <3> QED
      BY <1>3, <3>1, <3>2 DEF Trade, Invalidated
  <2> QED
    BY <2>1, <2>2, <2>3 DEF ReadsHold
<1>4. CASE XsReconcile
  BY <1>4 DEF XsReconcile, Paused, Invalidated, ReadsHold, broker, history
<1>5. CASE EnsureStops
  BY <1>5 DEF EnsureStops, Paused, Invalidated, ReadsHold, history
<1>6. CASE Skip
  BY <1>0, <1>6 DEF Skip, ReadsHold, broker, history
<1> QED
  BY <1>1, <1>2, <1>3, <1>4, <1>5, <1>6 DEF Pass

LEMMA ReadsCorrect == Spec => []ReadsHold
<1>1. TypeOK /\ ReadsHold /\ UNCHANGED vars => ReadsHold'
  BY DEF ReadsHold, InFlight, vars, broker, history
<1>2. TypeOK /\ ReadsHold /\ [Next]_vars => ReadsHold'
  BY <1>1, MarketReads, ThreadReads, PassReads DEF Next
<1> QED
  BY InitReads, TypeCorrect, <1>2, PTL DEF Spec

\* A buy is the target less what is held and in flight, or less.
LEMMA BuysFacts ==
    ASSUME TypeOK, NEW own \in Count, Quantity(own) > 0, ~Armed
    PROVE  net # NoRead /\ Quantity(own) <= target - own - net
<1>1. own \in Nat /\ Budget \in Int /\ target \in Int
  BY SleeveAssumption DEF Count, TypeOK
<1>2. CASE net = NoRead
  <2>1. target = 0
    BY <1>2 DEF Quantity
  <2>2. Delta(own) = 0 - own
    BY <1>1, <1>2, <2>1 DEF Delta
  <2>3. Delta(own) <= 0 /\ ~(Delta(own) > 0)
    BY <1>1, <2>2
  <2>4. Quantity(own) = Delta(own)
    BY <2>1, <2>3 DEF Quantity
  <2> QED
    BY <2>3, <2>4
<1>3. CASE net # NoRead
  <2>1. net \in Int
    BY <1>3 DEF TypeOK
  <2>2. PICK d \in Int : d = Delta(own) /\ d = target - own - net
    BY <1>1, <1>3, <2>1 DEF Delta
  <2>3. Quantity(own) = IF d > 0 THEN Least(d, Max0(Budget - own)) ELSE d
    BY <1>3, <2>2 DEF Quantity
  <2>4. Quantity(own) <= d
    BY <1>1, <2>3 DEF Least, Max0
  <2> QED
    BY <1>3, <2>2, <2>4
<1> QED
  BY <1>2, <1>3

\* A buy never takes what is held and in flight past the target, unless the
\* broker moved between the reads and the order or the position was not readable.
THEOREM NoStackingCorrect == Spec => NoStacking
<1>1. ASSUME TypeOK, ReadsHold, Next, buys' > buys, ~raced, ~blind', ~stopped, ~Armed
      PROVE  held + buys' - sells <= target
  <2>0. buys \in Int /\ sells \in Int /\ held \in Int /\ stop = 0 /\ target \in Int
    BY <1>1, SleeveAssumption, CountFacts DEF TypeOK, ReadsHold
  <2>1. Trade
    BY <1>1, <2>0, CountFacts DEF Next, Market, BuyFills, SellFills, BuyDies, SellDies, Threads,
          RequestReads, CacheExpires, Pass, Reconcile, Snapshot, Skip, XsReconcile, EnsureStops, broker
  <2>2. SeenPosition = held /\ held \in Count
    BY <1>1 DEF ReadsHold, SeenPosition, TypeOK
  <2>3. Order(Quantity(held))
    BY <1>1, <2>1, <2>2 DEF Trade, Share
  <2>4. PICK q \in Int : q = Quantity(held)
    BY <2>2, DeltaFacts, <1>1
  <2>5. q > 0 /\ buys' = buys + q
    BY <1>1, <2>0, <2>3, <2>4 DEF Order, Place, Bought, Sold, Rejected, broker
  <2>6. net # NoRead /\ q <= target - held - net
    BY <1>1, <2>2, <2>4, <2>5, BuysFacts
  <2>7. net = buys - sells
    BY <1>1, <2>0, <2>1, <2>6 DEF ReadsHold, InFlight, Trade
  <2> QED
    BY <2>0, <2>5, <2>6, <2>7
<1>2. TypeOK /\ ReadsHold /\ [Next]_vars
        => [buys' > buys /\ ~raced /\ ~blind' /\ ~stopped /\ ~Armed
              => held + buys' - sells <= target]_vars
  BY <1>1
<1> QED
  BY <1>2, TypeCorrect, ReadsCorrect, PTL DEF Spec, NoStacking

-----------------------------------------------------------------------------
(* The stack is bounded.  Top is the largest target. *)

\* More than one target's worth of buys is working only near the budget: such
\* buys are sized after sales that were still in flight when they were netted.
Stacked(top) ==
    /\ held + buys <= Budget + 2 * top
    /\ buys > top => held + buys <= Budget + top

\* A position read before the working orders are: it covers all that is being
\* sold, and one target's worth is all it may be missing.
ReadFirst(top) ==
    pc \in {"reconcile", "snapshot"} /\ positions # NoRead =>
        /\ sells + stop <= positions
        /\ \/ held + buys <= positions + top
           \/ held + buys <= Budget + top

\* The orders as read, and the buys that work now.
Netted(top) ==
    pc = "trade" /\ net # NoRead => buys <= top \/ buys <= net + Budget

\* What a position read may be missing when the order is sized from it.
Missing(own, top) ==
    \/ held + buys <= own + top
    \/ held + buys <= own + net + Budget
    \/ held + buys <= Budget + top /\ buys <= own + net

ReadLast(top) ==
    pc = "trade" /\ net # NoRead /\ positions # NoRead => Missing(positions, top)

StackInv(top) ==
    ~blind => Stacked(top) /\ ReadFirst(top) /\ Netted(top) /\ ReadLast(top)

\* What the inequalities are about.
LEMMA Amounts ==
    ASSUME TypeOK, Balanced
    PROVE  /\ held \in Nat /\ buys \in Nat /\ sells \in Nat /\ stop \in Nat
           /\ Budget \in Nat /\ target \in Nat
           /\ positions # NoRead => positions \in Nat
           /\ net # NoRead => net \in Int
           /\ sells + stop <= held
BY SleeveAssumption DEF TypeOK, Balanced, Count

LEMMA MarketStacks ==
    ASSUME TypeOK, Balanced, Market, NEW top \in Nat, StackInv(top)
    PROVE  StackInv(top)'
<1>1. /\ held' + buys' <= held + buys /\ buys' <= buys /\ sells' + stop' <= sells + stop
      /\ held' \in Int /\ buys' \in Int /\ sells' \in Int /\ stop' \in Int
  BY Amounts DEF Market, BuyFills, SellFills, BuyDies, SellDies
<1>2. UNCHANGED <<positions, pc, net, blind>>
  BY DEF Market, BuyFills, SellFills, BuyDies, SellDies
<1> SUFFICES ASSUME ~blind
             PROVE  (Stacked(top) /\ ReadFirst(top) /\ Netted(top) /\ ReadLast(top))'
  BY <1>2 DEF StackInv
<1>3. Stacked(top)' /\ Netted(top)'
  BY <1>1, <1>2, Amounts DEF StackInv, Stacked, Netted
<1>4. ReadFirst(top)'
  BY <1>1, <1>2, Amounts DEF StackInv, ReadFirst
<1>5. ReadLast(top)'
  BY <1>1, <1>2, Amounts DEF StackInv, ReadLast, Missing
<1> QED
  BY <1>3, <1>4, <1>5

\* A position read from the broker now.
LEMMA HeldCovers ==
    ASSUME TypeOK, Balanced, NEW top \in Nat, Stacked(top)
    PROVE  /\ sells + stop <= held
           /\ \/ held + buys <= held + top
              \/ held + buys <= Budget + top
BY Amounts DEF Stacked

LEMMA HeldMisses ==
    ASSUME TypeOK, Balanced, NEW top \in Nat, Netted(top), pc = "trade", net # NoRead
    PROVE  Missing(held, top)
BY Amounts DEF Netted, Missing

LEMMA ThreadStacks ==
    ASSUME TypeOK, Balanced, Threads, NEW top \in Nat, StackInv(top)
    PROVE  StackInv(top)'
<1>1. UNCHANGED <<held, buys, sells, stop, pc, net, blind>> /\ positions' \in {held, NoRead}
  BY DEF Threads, RequestReads, CacheExpires, broker, history
<1> SUFFICES ASSUME ~blind
             PROVE  (Stacked(top) /\ ReadFirst(top) /\ Netted(top) /\ ReadLast(top))'
  BY <1>1 DEF StackInv
<1>2. Stacked(top) /\ Netted(top)
  BY DEF StackInv
<1>3. Stacked(top)' /\ Netted(top)'
  BY <1>1, <1>2 DEF Stacked, Netted
<1>4. ReadFirst(top)'
  BY <1>1, <1>2, HeldCovers DEF ReadFirst
<1>5. ReadLast(top)'
  BY <1>1, <1>2, HeldMisses DEF ReadLast, Missing
<1> QED
  BY <1>3, <1>4, <1>5

\* A buy is cut to the target less what was read, and to the headroom.
LEMMA HeadroomFacts ==
    ASSUME TypeOK, NEW own \in Count, Quantity(own) > 0, ~Armed
    PROVE  Quantity(own) <= Budget - own
<1>1. own \in Nat /\ Budget \in Int /\ target \in Int /\ net # NoRead /\ net \in Int
  BY BuysFacts, SleeveAssumption DEF Count, TypeOK
<1>2. PICK d \in Int : d = Delta(own)
  BY <1>1 DEF Delta
<1>3. Quantity(own) = IF d > 0 THEN Least(d, Max0(Budget - own)) ELSE d
  BY <1>1, <1>2 DEF Quantity
<1>4. CASE d > 0
  <2>1. PICK h \in Int : h = Budget - own
    BY <1>1
  <2>2. Quantity(own) = Least(d, Max0(h))
    BY <1>3, <1>4, <2>1
  <2>3. Quantity(own) <= Max0(h)
    BY <2>1, <2>2 DEF Least, Max0
  <2>4. h > 0
    BY <2>1, <2>2 DEF Least, Max0
  <2> QED
    BY <2>1, <2>3, <2>4 DEF Max0
<1> QED
  BY <1>2, <1>3, <1>4

LEMMA TradeStacks ==
    ASSUME TypeOK, Balanced, Trade, ~Armed, ~blind', NEW top \in Nat, target <= top, StackInv(top)
    PROVE  Stacked(top)'
<1>1. Stacked(top) /\ Netted(top) /\ ReadLast(top) /\ pc = "trade"
  BY DEF StackInv, Trade, Order
<1>2. PICK own \in Count : own = SeenPosition
  BY SeenFacts
<1>3. Order(Quantity(own))
  BY <1>2 DEF Trade, Share
<1>4. PICK q \in Int : q = Quantity(own)
  BY DeltaFacts
<1>5. CASE q > 0 /\ Place(q)
  <2>1. held' = held /\ buys' = buys + q
    BY <1>5 DEF Place, Bought
  <2>2. net # NoRead /\ q <= target - own - net /\ q <= Budget - own
    BY <1>4, <1>5, BuysFacts, HeadroomFacts
  <2>3. Missing(own, top)
    BY <1>1, <1>2, <2>2, HeldMisses DEF ReadLast, SeenPosition
  <2>4. own \in Nat
    BY CountFacts, SleeveAssumption DEF Count
  <2> QED
    BY <1>1, <2>1, <2>2, <2>3, <2>4, Amounts DEF Missing, Stacked
<1>6. CASE held' = held /\ buys' = buys
  BY <1>1, <1>6 DEF Stacked
<1> QED
  BY <1>3, <1>4, <1>5, <1>6 DEF Order, Place, Sold, Rejected, broker

LEMMA PassStacks ==
    ASSUME TypeOK, Balanced, Pass, ~Armed, NEW top \in Nat, target <= top, StackInv(top)
    PROVE  StackInv(top)'
<1>1. blind => blind'
  BY DEF Pass, Reconcile, Snapshot, Trade, Skip, XsReconcile, EnsureStops, history
<1> SUFFICES ASSUME ~blind, ~blind'
             PROVE  (Stacked(top) /\ ReadFirst(top) /\ Netted(top) /\ ReadLast(top))'
  BY <1>1 DEF StackInv
<1>2. Stacked(top) /\ ReadFirst(top) /\ Netted(top) /\ ReadLast(top)
  BY DEF StackInv
<1>3. CASE Reconcile
  <2>1. UNCHANGED <<held, buys, sells, stop>> /\ pc' = "snapshot" /\ pc = "reconcile"
    BY <1>3 DEF Reconcile, broker
  <2>2. positions' \in {positions, held, NoRead}
    BY <1>3 DEF Reconcile, SeenPosition
  <2>3. Stacked(top)'
    BY <1>2, <2>1 DEF Stacked
  <2>4. ReadFirst(top)'
    BY <1>2, <2>1, <2>2, HeldCovers DEF ReadFirst
  <2> QED
    BY <2>1, <2>3, <2>4 DEF Netted, ReadLast
<1>4. CASE Snapshot
  <2>1. /\ UNCHANGED <<held, buys, sells, stop, positions>>
        /\ pc = "snapshot" /\ pc' = "trade" /\ net' \in {InFlight, NoRead}
    BY <1>4 DEF Snapshot, broker
  <2>2. Stacked(top)'
    BY <1>2, <2>1 DEF Stacked
  <2>3. Netted(top)'
    BY <1>2, <2>1, Amounts DEF Netted, InFlight, Stacked
  <2>4. ReadLast(top)'
    BY <1>2, <2>1, Amounts DEF ReadLast, ReadFirst, Missing, InFlight
  <2> QED
    BY <2>1, <2>2, <2>3, <2>4 DEF ReadFirst
<1>5. CASE Trade
  <2>1. pc' = "xs"
    BY <1>5 DEF Trade
  <2>2. Stacked(top)'
    BY <1>5, TradeStacks
  <2> QED
    BY <2>1, <2>2 DEF ReadFirst, Netted, ReadLast
<1>6. CASE XsReconcile \/ EnsureStops
  <2>1. UNCHANGED <<held, buys>>
    BY <1>6 DEF XsReconcile, EnsureStops, broker
  <2>2. \/ pc' = "ensure"
        \/ pc' = "reconcile" /\ positions' = NoRead
    BY <1>6 DEF XsReconcile, EnsureStops, Paused, Invalidated
  <2>3. Stacked(top)'
    BY <1>2, <2>1 DEF Stacked
  <2> QED
    BY <2>2, <2>3 DEF ReadFirst, Netted, ReadLast
<1>7. CASE Skip
  <2>1. UNCHANGED <<held, buys>> /\ pc' = "xs"
    BY <1>7 DEF Skip, broker
  <2>2. Stacked(top)'
    BY <1>2, <2>1 DEF Stacked
  <2> QED
    BY <2>1, <2>2 DEF ReadFirst, Netted, ReadLast
<1> QED
  BY <1>3, <1>4, <1>5, <1>6, <1>7 DEF Pass

\* With sleeves that size orders from the whole position, and a sleeve that
\* does not begin with more than that, what is held and being bought stays
\* within the budget and two orders of the largest target.
THEOREM StackCorrect ==
    ASSUME ~Armed, NEW top \in Targets, \A t \in Targets : t <= top,
           \A n \in Seeds : n <= Budget + 2 * top
    PROVE  Spec => []StackIsBounded
<1>0. top \in Nat /\ Budget \in Nat
  BY SleeveAssumption
<1>1. Init => StackInv(top)
  <2> SUFFICES ASSUME Init PROVE StackInv(top)
    OBVIOUS
  <2>1. held \in Seeds /\ held \in Nat /\ buys = 0 /\ positions = NoRead /\ pc = "reconcile"
    BY SleeveAssumption DEF Init
  <2> QED
    BY <1>0, <2>1 DEF StackInv, Stacked, ReadFirst, Netted, ReadLast
<1>2. TypeOK => target <= top
  BY <1>0, SleeveAssumption DEF TypeOK
<1>3. UNCHANGED vars /\ StackInv(top) => StackInv(top)'
  BY DEF vars, broker, history, StackInv, Stacked, ReadFirst, Netted, ReadLast, Missing
<1>4. TypeOK /\ Balanced /\ StackInv(top) /\ [Next]_vars => StackInv(top)'
  BY <1>0, <1>2, <1>3, MarketStacks, ThreadStacks, PassStacks DEF Next
<1>5. StackInv(top) => StackIsBounded
  BY DEF StackInv, Stacked, StackIsBounded
<1> QED
  BY <1>1, <1>4, <1>5, TypeCorrect, PTL DEF Spec
=============================================================================
