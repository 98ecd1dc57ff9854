-------------------------- MODULE CondorBookProofs --------------------------
(***************************************************************************)
(* For every set of sides and any number of orders, tries and faults:      *)
(* CondorBook is type correct and the broker never owes a lot, an atomic   *)
(* condor is never naked, the legs sold and re-bought stay within what the *)
(* tries and the faults allow, and a close the fills confirm leaves no     *)
(* short behind.                                                           *)
(***************************************************************************)
EXTENDS CondorBook, FiniteSetTheorems, TLAPS

\* The working orders that open a leg, and those that close it.
OpeningIn(os, l) == {i \in OrderIds : os[i].state = "working" /\ os[i].opens /\ l \in os[i].legs}
ClosingIn(os, l) == {i \in OrderIds : os[i].state = "working" /\ ~os[i].opens /\ l \in os[i].legs}

\* Every working order that closes has a lot to close.
Reserved == \A l \in Legs : Cardinality(ClosingIn(orders, l)) <= held[l]

\* What the pass knows of the row, phase by phase.
PassInv ==
    /\ phase \in {"idle", "manage", "closes", "open"} => mem = NoRow
    /\ phase \in {"fills", "resolve"} => mem = row
    /\ phase \in {"rebuy", "cover", "close", "price"} =>
          mem.status = "OPEN" /\ row.status = "OPEN" /\ mem.tries = row.tries
    /\ phase = "rebuy" => todo \subseteq Wings /\ mem.tries < MaxTries
    /\ phase = "write" =>
          mem.status # "NONE" /\ row = NoRow /\ after \in {"manage", "closes", "open"}
    /\ phase \in {"leg", "append"} =>
          mem.status = "OPEN" /\ mem.closing = NoneClosing /\ row = NoRow
    /\ row.status = "NONE" => row = NoRow

\* The ledger, or the pass that is about to write it, accounts for the leg.
Sold(l) ==
    \/ row.status # "NONE"
    \/ phase \in {"write", "append"}
    \/ phase = "leg" /\ l \notin todo

Tries == IF phase = "write" THEN mem.tries ELSE row.tries

\* The lots of a leg that the row the condor has explains ...
ShortOwn(l) == IF Sold(l) THEN 1 ELSE 0
WingOwn(l) == (IF Sold(l) THEN 1 + Tries ELSE 0) + (IF phase = "rebuy" /\ l \notin todo THEN 1 ELSE 0)

\* ... and those of the rows that faults have lost explain the others.
Bounded ==
    /\ \A l \in Shorts : Exposed(l) <= faults + ShortOwn(l)
    /\ \A l \in Wings : Exposed(l) <= (1 + MaxTries) * faults + WingOwn(l)

\* What a row points at as closing orders are orders that close its legs.
PointsAtCloses(r) ==
    \A l \in Legs : r.closing[l] # NoOrder =>
        /\ orders[r.closing[l]].state # "free"
        /\ ~orders[r.closing[l]].opens
        /\ l \in orders[r.closing[l]].legs

\* A filled closing order has left nothing of a short, nor has a close that
\* is booked on its fills.
ClosesLeaveNothing(r) ==
    faults = 0 =>
        /\ \A l \in Shorts :
              r.closing[l] # NoOrder /\ orders[r.closing[l]].state = "filled" => Exposed(l) = 0
        /\ r.status = "CLOSED" /\ r.basis = "fills" => \A l \in Shorts : Exposed(l) = 0

Pointers == \A r \in {row, mem} : PointsAtCloses(r) /\ ClosesLeaveNothing(r)

IInv == TypeOK /\ Reserved /\ PassInv /\ Bounded /\ Pointers

-----------------------------------------------------------------------------
(* Legs *)

LEMMA LegsFacts ==
    /\ Shorts \subseteq Legs /\ Wings \subseteq Legs
    /\ Legs = Shorts \cup Wings
    /\ Shorts \cap Wings = {}
<1>1. \A s \in Sides : Short(s) \in Legs /\ Wing(s) \in Legs
  BY DEF Short, Wing, Legs
<1>2. \A l \in Legs : \E s \in Sides : l = Short(s) \/ l = Wing(s)
  BY DEF Short, Wing, Legs
<1>3. \A s, t \in Sides : Short(s) # Wing(t)
  BY DEF Short, Wing
<1> QED BY <1>1, <1>2, <1>3 DEF Shorts, Wings

LEMMA OrderIdsFacts ==
    /\ IsFiniteSet(OrderIds) /\ OrderIds \subseteq Nat /\ NoOrder \notin OrderIds
<1>1. IsFiniteSet(OrderIds)
  BY OrdersAssumption, FS_Interval DEF OrderIds
<1> QED BY <1>1, OrdersAssumption DEF OrderIds, NoOrder

LEMMA NoRowFacts ==
    /\ NoRow \in RowType
    /\ NoRow.status = "NONE" /\ NoRow.tries = 0 /\ NoRow.closing = NoneClosing
    /\ NoRow.basis = "none"
    /\ \A l \in Legs : NoneClosing[l] = NoOrder
    /\ NoneClosing \in [Legs -> OrderIds \cup {NoOrder}]
BY BoundsAssumption DEF NoRow, RowType, NoneClosing

-----------------------------------------------------------------------------
(* Sets of orders *)

LEMMA Countable ==
    ASSUME NEW S \in SUBSET OrderIds
    PROVE  IsFiniteSet(S) /\ Cardinality(S) \in Nat
BY OrderIdsFacts, FS_Subset, FS_CardinalityType

LEMMA FewerOrders ==
    ASSUME NEW S \in SUBSET OrderIds, NEW T \in SUBSET S
    PROVE  Cardinality(T) <= Cardinality(S)
BY Countable, FS_Subset

LEMMA OneOrderMore ==
    ASSUME NEW S \in SUBSET OrderIds, NEW i \in OrderIds, NEW T \in SUBSET (S \cup {i})
    PROVE  Cardinality(T) <= Cardinality(S) + 1
<1>1. S \cup {i} \in SUBSET OrderIds
  OBVIOUS
<1>2. Cardinality(T) <= Cardinality(S \cup {i})
  BY <1>1, FewerOrders
<1>3. Cardinality(S \cup {i}) = IF i \in S THEN Cardinality(S) ELSE Cardinality(S) + 1
  BY Countable, FS_AddElement
<1>4. Cardinality(T) \in Nat /\ Cardinality(S) \in Nat
  BY <1>1, Countable
<1> QED BY <1>2, <1>3, <1>4

LEMMA OneOrderLess ==
    ASSUME NEW S \in SUBSET OrderIds, NEW i \in S
    PROVE  Cardinality(S \ {i}) = Cardinality(S) - 1
BY Countable, FS_RemoveElement

LEMMA SetsOfOrders ==
    ASSUME NEW os, NEW l
    PROVE  /\ OpeningIn(os, l) \in SUBSET OrderIds /\ ClosingIn(os, l) \in SUBSET OrderIds
           /\ Cardinality(OpeningIn(os, l)) \in Nat /\ Cardinality(ClosingIn(os, l)) \in Nat
<1>1. OpeningIn(os, l) \in SUBSET OrderIds /\ ClosingIn(os, l) \in SUBSET OrderIds
  BY DEF OpeningIn, ClosingIn
<1> QED BY <1>1, Countable

LEMMA ExposedIs ==
    ASSUME NEW l
    PROVE  /\ Exposed(l) = held[l] + Cardinality(OpeningIn(orders, l))
           /\ Exposed(l)' = held'[l] + Cardinality(OpeningIn(orders', l))
BY DEF Exposed, OpeningIn, Working

-----------------------------------------------------------------------------
(* What the calls do to the orders *)

\* Orders that come from those of the state by ending some of them.
EndsSome(os) ==
    /\ os \in [OrderIds -> OrderType]
    /\ \A l : /\ OpeningIn(os, l) \subseteq OpeningIn(orders, l)
              /\ ClosingIn(os, l) \subseteq ClosingIn(orders, l)
    /\ \A j \in OrderIds : os[j].state = "working" => os[j] = orders[j]
    /\ \A j \in ToClose \cap OrderIds :
          /\ os[j].opens = orders[j].opens /\ os[j].legs = orders[j].legs
          /\ os[j].state = "free" => orders[j].state = "free"
          /\ os[j].state = "filled" => orders[j].state = "filled"

LEMMA Ending ==
    ASSUME TypeOK, NEW i \in OrderIds, Working(i), NEW how \in {"filled", "dead"}
    PROVE  /\ Ended(i, how) \in [OrderIds -> OrderType]
           /\ \A j \in OrderIds : j # i => Ended(i, how)[j] = orders[j]
           /\ Ended(i, how)[i].state \in {how, "dead", "free"}
           /\ i \in ToClose => Ended(i, how)[i] = [orders[i] EXCEPT !.state = how]
<1> DEFINE end == IF i \in ToClose THEN [orders[i] EXCEPT !.state = how]
                  ELSE IF i \in ToOpen THEN [FreeOrder EXCEPT !.state = "dead"] ELSE FreeOrder
<1>1. orders \in [OrderIds -> OrderType] /\ orders[i] \in OrderType
  BY DEF TypeOK
<1>2. Ended(i, how) = [orders EXCEPT ![i] = end]
  BY <1>1 DEF Ended
<1>3. end \in OrderType /\ end.state \in {how, "dead", "free"}
  BY <1>1 DEF OrderType, FreeOrder
<1>4. i \in ToClose => end = [orders[i] EXCEPT !.state = how]
  OBVIOUS
<1> HIDE DEF end
<1> QED BY <1>1, <1>2, <1>3, <1>4

LEMMA SameEndsSome == TypeOK => EndsSome(orders)
BY DEF EndsSome, TypeOK

LEMMA DeadEndsSome ==
    ASSUME TypeOK, NEW i \in OrderIds, Working(i)
    PROVE  EndsSome(Ended(i, "dead"))
<1> DEFINE os == Ended(i, "dead")
<1>1. /\ os \in [OrderIds -> OrderType]
      /\ \A j \in OrderIds : j # i => os[j] = orders[j]
      /\ os[i].state \in {"dead", "free"}
      /\ i \in ToClose => os[i] = [orders[i] EXCEPT !.state = "dead"]
  BY Ending
<1>2. i \in ToClose => /\ os[i].opens = orders[i].opens /\ os[i].legs = orders[i].legs
                       /\ os[i].state = "dead"
  BY <1>1 DEF TypeOK, OrderType
<1> HIDE DEF os
<1>3. ASSUME NEW l
      PROVE  OpeningIn(os, l) \subseteq OpeningIn(orders, l) /\ ClosingIn(os, l) \subseteq ClosingIn(orders, l)
  BY <1>1 DEF OpeningIn, ClosingIn
<1>4. \A j \in OrderIds : os[j].state = "working" => os[j] = orders[j]
  BY <1>1
<1>5. ASSUME NEW j \in ToClose \cap OrderIds
      PROVE  /\ os[j].opens = orders[j].opens /\ os[j].legs = orders[j].legs
             /\ os[j].state = "free" => orders[j].state = "free"
             /\ os[j].state = "filled" => orders[j].state = "filled"
  BY <1>1, <1>2
<1>6. EndsSome(os)
  BY <1>1, <1>3, <1>4, <1>5 DEF EndsSome
<1> QED BY <1>6 DEF os

LEMMA CancelledEndsSome ==
    ASSUME TypeOK, NEW l, NEW os \in Cancelled(l)
    PROVE  EndsSome(os)
BY SameEndsSome, DeadEndsSome DEF Cancelled

\* What a step that leaves the lots alone does with the orders: it sends one
\* order at most, which opens the legs S, and may end others.
Orderly(S) ==
    /\ orders' \in [OrderIds -> OrderType]
    /\ held' = held
    /\ Reserved'
    /\ \A l \in Legs : Exposed(l)' <= Exposed(l) + (IF l \in S THEN 1 ELSE 0)
    /\ \A j \in ToClose \cap OrderIds :
          /\ orders'[j].opens = orders[j].opens /\ orders'[j].legs = orders[j].legs
          /\ orders'[j].state # "free"
          /\ orders'[j].state = "filled" => orders[j].state = "filled"

\* No order a closing id points at has been forgotten.
LEMMA PointedIsKept ==
    ASSUME IInv, NEW j \in ToClose \cap OrderIds
    PROVE  orders[j].state # "free"
<1>1. PICK r \in {row, mem}, l \in Legs : j = r.closing[l]
  BY DEF ToClose
<1>2. j # NoOrder
  BY OrderIdsFacts
<1> QED BY <1>1, <1>2 DEF IInv, Pointers, PointsAtCloses

LEMMA EndingIsOrderly ==
    ASSUME IInv, NEW os, EndsSome(os), orders' = os, held' = held
    PROVE  Orderly({})
<1>1. ASSUME NEW l \in Legs
      PROVE  /\ Exposed(l)' <= Exposed(l)
             /\ Cardinality(ClosingIn(orders', l)) <= held'[l]
  <2>1. /\ OpeningIn(os, l) \in SUBSET OpeningIn(orders, l)
        /\ ClosingIn(os, l) \in SUBSET ClosingIn(orders, l)
    BY DEF EndsSome
  <2>2. /\ Cardinality(OpeningIn(os, l)) <= Cardinality(OpeningIn(orders, l))
        /\ Cardinality(ClosingIn(os, l)) <= Cardinality(ClosingIn(orders, l))
    BY <2>1, SetsOfOrders, FewerOrders
  <2>3. held[l] \in Nat /\ Cardinality(ClosingIn(orders, l)) <= held[l]
    BY DEF IInv, TypeOK, Reserved
  <2> QED BY <2>2, <2>3, SetsOfOrders, ExposedIs
<1>2. \A l \in Legs : Exposed(l)' <= Exposed(l) + (IF l \in {} THEN 1 ELSE 0)
  <2> SUFFICES ASSUME NEW l \in Legs
               PROVE  Exposed(l)' <= Exposed(l) + 0
    OBVIOUS
  <2>1. Exposed(l) \in Nat
    BY ExposedIs, SetsOfOrders DEF IInv, TypeOK
  <2> QED BY <1>1, <2>1
<1>3. Reserved'
  BY <1>1 DEF Reserved
<1>4. ASSUME NEW j \in ToClose \cap OrderIds
      PROVE  /\ orders'[j].opens = orders[j].opens /\ orders'[j].legs = orders[j].legs
             /\ orders'[j].state # "free"
             /\ orders'[j].state = "filled" => orders[j].state = "filled"
  BY PointedIsKept DEF EndsSome
<1>5. orders' \in [OrderIds -> OrderType]
  BY DEF EndsSome
<1> QED BY <1>2, <1>3, <1>4, <1>5 DEF Orderly

LEMMA Booking ==
    ASSUME IInv, NEW os, EndsSome(os), NEW i \in OrderIds,
           NEW legs \in SUBSET Legs, NEW opens \in BOOLEAN, BooksInto(os, i, legs, opens)
    PROVE  /\ orders' \in [OrderIds -> OrderType]
           /\ orders' = [os EXCEPT ![i] = [state |-> "working", opens |-> opens, legs |-> legs]]
           /\ os[i].state # "working" /\ i \notin ToClose
<1>1. /\ i \in Forgotten(os)
      /\ orders' = [os EXCEPT ![i] = [state |-> "working", opens |-> opens, legs |-> legs]]
  BY DEF BooksInto
<1>2. [state |-> "working", opens |-> opens, legs |-> legs] \in OrderType
  BY DEF OrderType
<1>3. os \in [OrderIds -> OrderType]
  BY DEF EndsSome
<1>4. CASE i \in ToClose
  <2>1. os[i].state = "free"
    BY <1>1, <1>4 DEF Forgotten
  <2>2. orders[i].state = "free"
    BY <2>1, <1>4 DEF EndsSome
  <2> QED BY <2>2, <1>4, PointedIsKept
<1>5. os[i].state # "working"
  BY <1>1 DEF Forgotten
<1> QED BY <1>1, <1>2, <1>3, <1>4, <1>5

\* What a booking leaves of the orders the closing ids point at.
LEMMA BookingKeepsPointed ==
    ASSUME IInv, NEW os, EndsSome(os), NEW i \in OrderIds \ ToClose, NEW order,
           orders' = [os EXCEPT ![i] = order]
    PROVE  \A j \in ToClose \cap OrderIds :
              /\ orders'[j].opens = orders[j].opens /\ orders'[j].legs = orders[j].legs
              /\ orders'[j].state # "free"
              /\ orders'[j].state = "filled" => orders[j].state = "filled"
<1> TAKE j \in ToClose \cap OrderIds
<1>1. orders'[j] = os[j]
  BY DEF EndsSome
<1> QED BY <1>1, PointedIsKept DEF EndsSome

LEMMA OpeningIsOrderly ==
    ASSUME IInv, NEW os, EndsSome(os), NEW i \in OrderIds, NEW legs \in SUBSET Legs,
           BooksInto(os, i, legs, TRUE), held' = held
    PROVE  Orderly(legs)
<1>1. /\ orders' \in [OrderIds -> OrderType]
      /\ orders' = [os EXCEPT ![i] = [state |-> "working", opens |-> TRUE, legs |-> legs]]
      /\ os[i].state # "working" /\ i \notin ToClose
  BY Booking
<1>2. ASSUME NEW l \in Legs
      PROVE  /\ Exposed(l)' <= Exposed(l) + (IF l \in legs THEN 1 ELSE 0)
             /\ Cardinality(ClosingIn(orders', l)) <= held'[l]
  <2>1. /\ OpeningIn(os, l) \subseteq OpeningIn(orders, l)
        /\ ClosingIn(os, l) \subseteq ClosingIn(orders, l)
        /\ os \in [OrderIds -> OrderType]
    BY DEF EndsSome
  <2>2. /\ l \in legs => OpeningIn(orders', l) = OpeningIn(os, l) \cup {i}
        /\ l \notin legs => OpeningIn(orders', l) = OpeningIn(os, l)
        /\ ClosingIn(orders', l) = ClosingIn(os, l)
    <3>1. /\ \A j \in OrderIds : j # i => orders'[j] = os[j]
          /\ orders'[i] = [state |-> "working", opens |-> TRUE, legs |-> legs]
      BY <1>1, <2>1
    <3> QED BY <1>1, <3>1 DEF OpeningIn, ClosingIn
  <2>3. held[l] \in Nat /\ Cardinality(ClosingIn(orders, l)) <= held[l]
    BY DEF IInv, TypeOK, Reserved
  <2>4. Cardinality(ClosingIn(orders', l)) <= Cardinality(ClosingIn(orders, l))
    BY <2>1, <2>2, SetsOfOrders, FewerOrders
  <2>5. CASE l \in legs
    <3>1. OpeningIn(orders', l) \in SUBSET (OpeningIn(orders, l) \cup {i})
      BY <2>1, <2>2, <2>5
    <3>2. Cardinality(OpeningIn(orders', l)) <= Cardinality(OpeningIn(orders, l)) + 1
      BY <3>1, SetsOfOrders, OneOrderMore
    <3> QED BY <2>3, <2>4, <2>5, <3>2, SetsOfOrders, ExposedIs
  <2>6. CASE l \notin legs
    <3>1. OpeningIn(orders', l) \in SUBSET OpeningIn(orders, l)
      BY <2>1, <2>2, <2>6
    <3>2. Cardinality(OpeningIn(orders', l)) <= Cardinality(OpeningIn(orders, l))
      BY <3>1, SetsOfOrders, FewerOrders
    <3> QED BY <2>3, <2>4, <2>6, <3>2, SetsOfOrders, ExposedIs
  <2> QED BY <2>5, <2>6
<1>3. Reserved'
  BY <1>2 DEF Reserved
<1> QED BY <1>1, <1>2, <1>3, BookingKeepsPointed DEF Orderly

LEMMA ClosingIsOrderly ==
    ASSUME IInv, NEW i \in OrderIds, NEW legs \in SUBSET Legs,
           Books(i, legs, FALSE), held' = held
    PROVE  Orderly({})
<1>1. BooksInto(orders, i, legs, FALSE) /\ EndsSome(orders)
  BY SameEndsSome DEF Books, IInv
<1>2. /\ orders' \in [OrderIds -> OrderType]
      /\ orders' = [orders EXCEPT ![i] = [state |-> "working", opens |-> FALSE, legs |-> legs]]
      /\ orders[i].state # "working" /\ i \notin ToClose
  BY <1>1, Booking
<1>3. \A l \in legs : Cardinality(ClosingIn(orders, l)) < held[l]
  BY <1>1 DEF BooksInto, Closable, ClosingIn, Closing, Working
<1>4. ASSUME NEW l \in Legs
      PROVE  /\ Exposed(l)' <= Exposed(l) + (IF l \in {} THEN 1 ELSE 0)
             /\ Cardinality(ClosingIn(orders', l)) <= held'[l]
  <2>1. /\ OpeningIn(orders', l) = OpeningIn(orders, l)
        /\ l \in legs => ClosingIn(orders', l) = ClosingIn(orders, l) \cup {i}
        /\ l \notin legs => ClosingIn(orders', l) = ClosingIn(orders, l)
    <3>1. /\ \A j \in OrderIds : j # i => orders'[j] = orders[j]
          /\ orders'[i] = [state |-> "working", opens |-> FALSE, legs |-> legs]
      BY <1>2 DEF IInv, TypeOK
    <3> QED BY <1>2, <3>1 DEF OpeningIn, ClosingIn
  <2>2. held[l] \in Nat /\ Cardinality(ClosingIn(orders, l)) <= held[l]
    BY DEF IInv, TypeOK, Reserved
  <2>3. Cardinality(OpeningIn(orders', l)) <= Cardinality(OpeningIn(orders, l))
    BY <2>1, SetsOfOrders
  <2>4. CASE l \in legs
    <3>1. Cardinality(ClosingIn(orders', l)) <= Cardinality(ClosingIn(orders, l)) + 1
      BY <2>1, <2>4, SetsOfOrders, OneOrderMore
    <3> QED BY <1>3, <2>2, <2>3, <2>4, <3>1, SetsOfOrders, ExposedIs
  <2>5. CASE l \notin legs
    <3>1. ClosingIn(orders', l) = ClosingIn(orders, l)
      BY <2>1, <2>5
    <3> QED BY <2>2, <2>3, <3>1, SetsOfOrders, ExposedIs
  <2> QED BY <2>4, <2>5
<1>5. Reserved'
  BY <1>4 DEF Reserved
<1>6. \A l \in Legs : Exposed(l)' <= Exposed(l) + (IF l \in {} THEN 1 ELSE 0)
  BY <1>4
<1> QED BY <1>1, <1>2, <1>5, <1>6, BookingKeepsPointed DEF Orderly

\* An order whose answer is lost is at the broker all the same.
LEMMA LosingIsOrderly ==
    ASSUME IInv, NEW legs \in SUBSET Legs, NEW opens \in BOOLEAN,
           LosesAnswer(legs, opens), held' = held
    PROVE  Orderly(IF opens THEN legs ELSE {}) \/ Orderly({})
<1>1. EndsSome(orders)
  BY SameEndsSome DEF IInv
<1>2. CASE UNCHANGED orders
  BY <1>1, <1>2, EndingIsOrderly
<1>3. ASSUME NEW i \in OrderIds, Books(i, legs, opens)
      PROVE  Orderly(IF opens THEN legs ELSE {}) \/ Orderly({})
  <2>1. CASE opens = TRUE
    <3>1. BooksInto(orders, i, legs, TRUE)
      BY <1>3, <2>1 DEF Books
    <3>2. Orderly(legs)
      BY <1>1, <3>1, OpeningIsOrderly
    <3> QED BY <2>1, <3>2
  <2>2. CASE opens = FALSE
    <3>1. Books(i, legs, FALSE)
      BY <1>3, <2>2
    <3> QED BY <3>1, ClosingIsOrderly
  <2> QED BY <2>1, <2>2
<1> QED BY <1>2, <1>3 DEF LosesAnswer

-----------------------------------------------------------------------------
(* What a step of the cycle has to show *)

PassTypes ==
    /\ atomic \in BOOLEAN /\ uw \in BOOLEAN
    /\ row \in RowType /\ mem \in RowType
    /\ phase \in Phases /\ after \in Phases
    /\ todo \in SUBSET Legs /\ seen \in SUBSET Legs
    /\ cache \in SUBSET SUBSET Legs
    /\ faults \in 0..MaxFaults

Adds(l, S) == IF l \in S THEN 1 ELSE 0

\* The step explains the legs it opens, or is a fault that does.
Grants(S) ==
    \/ /\ faults' = faults
       /\ \A l \in Shorts : ShortOwn(l) + Adds(l, S) <= ShortOwn(l)'
       /\ \A l \in Wings : WingOwn(l) + Adds(l, S) <= WingOwn(l)'
    \/ /\ faults' = faults + 1
       /\ \A l \in Shorts : ShortOwn(l) + Adds(l, S) <= ShortOwn(l)' + 1
       /\ \A l \in Wings : WingOwn(l) + Adds(l, S) <= WingOwn(l)' + 1 + MaxTries

\* A closing id of a row comes from a row there was, or is that of a new order.
Inherits(r) ==
    /\ \A l \in Legs : r.closing[l] # NoOrder =>
          \/ \E q \in {row, mem} : q.closing[l] = r.closing[l]
          \/ /\ r.closing[l] \in OrderIds
             /\ orders'[r.closing[l]] = [state |-> "working", opens |-> FALSE,
                                         legs |-> orders'[r.closing[l]].legs]
             /\ l \in orders'[r.closing[l]].legs
    /\ r.status = "CLOSED" /\ r.basis = "fills" =>
          \/ \E q \in {row, mem} : q.status = "CLOSED" /\ q.basis = "fills"
          \/ CloseFilled(mem)

Traced(S) ==
    \/ S \cap Shorts = {} /\ Inherits(row') /\ Inherits(mem')
    \/ \A r \in {row', mem'} : r.closing = NoneClosing /\ r.status # "CLOSED"

Moves(S) == Orderly(S) /\ PassTypes' /\ PassInv' /\ Grants(S) /\ Traced(S)

LEMMA ExposedIsNat ==
    /\ TypeOK => \A l \in Legs : Exposed(l) \in Nat
    /\ TypeOK' => \A l \in Legs : Exposed(l)' \in Nat
BY ExposedIs, SetsOfOrders DEF TypeOK

LEMMA Ownership ==
    /\ PassTypes => \A l : ShortOwn(l) \in Nat /\ WingOwn(l) \in Nat
    /\ PassTypes' => \A l : ShortOwn(l)' \in Nat /\ WingOwn(l)' \in Nat
<1>1. PassTypes => Tries \in Nat
  BY BoundsAssumption DEF PassTypes, Tries, RowType
<1>2. PassTypes' => Tries' \in Nat
  BY BoundsAssumption DEF PassTypes, Tries, RowType
<1> QED BY <1>1, <1>2 DEF ShortOwn, WingOwn

LEMMA Product ==
    ASSUME NEW k \in Nat, NEW f \in Nat
    PROVE  k * f \in Nat /\ k * (f + 1) = k * f + k
OBVIOUS

LEMMA MovesTypes ==
    ASSUME IInv, NEW S, Moves(S)
    PROVE  TypeOK' /\ faults <= faults'
<1>1. TypeOK'
  BY DEF Moves, Orderly, PassTypes, TypeOK, IInv
<1> QED BY <1>1 DEF Moves, Grants, IInv, TypeOK

LEMMA MovesBounded ==
    ASSUME IInv, NEW S, Moves(S)
    PROVE  Bounded'
<1>1. TypeOK' /\ TypeOK /\ PassTypes /\ PassTypes'
  BY MovesTypes DEF IInv, TypeOK, PassTypes
<1>2. \A l \in Legs : Exposed(l)' <= Exposed(l) + Adds(l, S)
  BY DEF Moves, Orderly, Adds
<1>3. \A l \in Legs : Exposed(l) \in Nat /\ Exposed(l)' \in Nat
  BY <1>1, ExposedIsNat
<1>4. \A l : /\ ShortOwn(l) \in Nat /\ WingOwn(l) \in Nat
             /\ ShortOwn(l)' \in Nat /\ WingOwn(l)' \in Nat
  BY <1>1, Ownership
<1>5. faults \in Nat /\ faults' \in Nat /\ MaxTries \in Nat
  BY <1>1, BoundsAssumption DEF TypeOK
<1> DEFINE k == 1 + MaxTries
<1>6. k * faults \in Nat /\ k * (faults + 1) = k * faults + k /\ k = 1 + MaxTries
  BY <1>5, Product
<1>7. \A l \in Wings : Exposed(l) <= k * faults + WingOwn(l)
  BY DEF IInv, Bounded
<1> HIDE DEF k
<1>8. ASSUME NEW l \in Shorts
      PROVE  Exposed(l)' <= faults' + ShortOwn(l)'
  <2>1. Exposed(l) <= faults + ShortOwn(l) /\ l \in Legs
    BY LegsFacts DEF IInv, Bounded
  <2>2. Adds(l, S) \in Nat
    BY DEF Adds
  <2> QED BY <1>2, <1>3, <1>4, <1>5, <2>1, <2>2 DEF Moves, Grants
<1>9. ASSUME NEW l \in Wings
      PROVE  Exposed(l)' <= k * faults' + WingOwn(l)'
  <2>1. Adds(l, S) \in Nat /\ l \in Legs
    BY LegsFacts DEF Adds
  <2>2. CASE faults' = faults /\ WingOwn(l) + Adds(l, S) <= WingOwn(l)'
    BY <1>2, <1>3, <1>4, <1>6, <1>7, <2>1, <2>2
  <2>3. CASE faults' = faults + 1 /\ WingOwn(l) + Adds(l, S) <= WingOwn(l)' + 1 + MaxTries
    <3>1. k * faults' = k * faults + 1 + MaxTries
      BY <1>6, <2>3, <1>5
    <3> QED BY <1>2, <1>3, <1>4, <1>5, <1>6, <1>7, <2>1, <2>3, <3>1
  <2> QED BY <2>2, <2>3 DEF Moves, Grants
<1> QED BY <1>8, <1>9 DEF Bounded, k

LEMMA MovesPointers ==
    ASSUME IInv, NEW S, Moves(S)
    PROVE  Pointers'
<1>1. CASE \A r \in {row', mem'} : r.closing = NoneClosing /\ r.status # "CLOSED"
  BY <1>1, NoRowFacts, LegsFacts DEF Pointers, PointsAtCloses, ClosesLeaveNothing
<1>2. CASE S \cap Shorts = {} /\ Inherits(row') /\ Inherits(mem')
  <2> SUFFICES ASSUME NEW r, Inherits(r), r \in {row', mem'}
               PROVE  PointsAtCloses(r)' /\ ClosesLeaveNothing(r)'
    BY <1>2 DEF Pointers, PointsAtCloses, ClosesLeaveNothing
  <2>1. \A q \in {row, mem} : PointsAtCloses(q) /\ ClosesLeaveNothing(q)
    BY DEF IInv, Pointers
  <2>2. \A q \in {row, mem}, l \in Legs : q.closing[l] # NoOrder => q.closing[l] \in ToClose \cap OrderIds
    BY DEF ToClose, IInv, TypeOK, RowType
  <2>3. \A j \in ToClose \cap OrderIds :
          /\ orders'[j].opens = orders[j].opens /\ orders'[j].legs = orders[j].legs
          /\ orders'[j].state # "free"
          /\ orders'[j].state = "filled" => orders[j].state = "filled"
    BY DEF Moves, Orderly
  <2>4. \A l \in Shorts : faults' = 0 /\ Exposed(l) = 0 => Exposed(l)' = 0
    <3> SUFFICES ASSUME NEW l \in Shorts, Exposed(l) = 0 PROVE Exposed(l)' = 0
      OBVIOUS
    <3>1. l \in Legs /\ l \notin S
      BY <1>2, LegsFacts
    <3>2. Exposed(l)' <= Exposed(l) + 0
      BY <3>1 DEF Moves, Orderly
    <3>3. Exposed(l)' \in Nat
      BY <3>1, MovesTypes, ExposedIsNat
    <3> QED BY <3>2, <3>3
  <2>5. faults' = 0 => faults = 0
    BY MovesTypes DEF IInv, TypeOK
  <2>6. ASSUME NEW l \in Legs, r.closing[l] # NoOrder
        PROVE  /\ orders'[r.closing[l]].state # "free"
               /\ ~orders'[r.closing[l]].opens
               /\ l \in orders'[r.closing[l]].legs
               /\ faults' = 0 /\ l \in Shorts /\ orders'[r.closing[l]].state = "filled" => Exposed(l)' = 0
    <3>1. CASE \E q \in {row, mem} : q.closing[l] = r.closing[l]
      <4>1. PICK q \in {row, mem} : q.closing[l] = r.closing[l]
        BY <3>1
      <4>2. /\ r.closing[l] \in ToClose \cap OrderIds
            /\ PointsAtCloses(q) /\ ClosesLeaveNothing(q)
        BY <2>1, <2>2, <2>6, <4>1
      <4> QED BY <2>3, <2>4, <2>5, <2>6, <4>1, <4>2 DEF PointsAtCloses, ClosesLeaveNothing
    <3>2. CASE /\ r.closing[l] \in OrderIds
               /\ orders'[r.closing[l]] = [state |-> "working", opens |-> FALSE,
                                           legs |-> orders'[r.closing[l]].legs]
               /\ l \in orders'[r.closing[l]].legs
      <4>1. orders'[r.closing[l]].state = "working" /\ orders'[r.closing[l]].opens = FALSE
        BY <3>2
      <4> QED BY <3>2, <4>1
    <3> QED BY <2>6, <3>1, <3>2 DEF Inherits
  <2>7. ASSUME r.status = "CLOSED", r.basis = "fills", faults' = 0, NEW l \in Shorts
        PROVE  Exposed(l)' = 0
    <3>1. CASE \E q \in {row, mem} : q.status = "CLOSED" /\ q.basis = "fills"
      BY <2>1, <2>4, <2>5, <2>7, <3>1 DEF ClosesLeaveNothing
    <3>2. CASE CloseFilled(mem)
      <4>1. mem.closing[l] # NoOrder /\ orders[mem.closing[l]].state = "filled"
        BY <3>2, LegsFacts DEF CloseFilled
      <4> QED BY <2>1, <2>4, <2>5, <2>7, <4>1 DEF ClosesLeaveNothing
    <3> QED BY <2>7, <3>1, <3>2 DEF Inherits
  <2> QED BY <2>6, <2>7, LegsFacts DEF PointsAtCloses, ClosesLeaveNothing
<1> QED BY <1>1, <1>2 DEF Moves, Traced

LEMMA MovesKeep ==
    ASSUME IInv, NEW S, Moves(S)
    PROVE  IInv'
BY MovesTypes, MovesBounded, MovesPointers DEF IInv, Moves, Orderly

LEMMA StillOrderly ==
    ASSUME IInv, UNCHANGED brokerVars
    PROVE  Orderly({})
BY EndingIsOrderly, SameEndsSome DEF IInv, brokerVars

LEMMA OldInherits ==
    /\ Inherits(row) /\ Inherits(mem) /\ Inherits(NoRow)
    /\ \A r : r.closing = NoneClosing /\ r.status # "CLOSED" => Inherits(r)
<1>1. \A r : r.closing = NoneClosing /\ r.status # "CLOSED" => Inherits(r)
  BY NoRowFacts DEF Inherits
<1>2. Inherits(NoRow)
  BY <1>1, NoRowFacts
<1>3. Inherits(row) /\ Inherits(mem)
  BY DEF Inherits
<1> QED BY <1>1, <1>2, <1>3

LEMMA OwnBounds ==
    ASSUME IInv, NEW l
    PROVE  ShortOwn(l) \in 0..1 /\ WingOwn(l) \in 0..(1 + MaxTries)
<1>1. row.tries \in 0..MaxTries /\ mem.tries \in 0..MaxTries /\ MaxTries \in Nat
  BY BoundsAssumption DEF IInv, TypeOK, RowType
<1>2. Tries \in 0..MaxTries /\ (phase = "rebuy" => Tries < MaxTries)
  BY <1>1 DEF Tries, IInv, PassInv
<1> QED BY <1>1, <1>2 DEF ShortOwn, WingOwn

\* A step that opens nothing and forgets nothing needs no explanation.
LEMMA SteadyGrants ==
    ASSUME IInv, PassTypes', faults' = faults,
           \A l \in Legs : ShortOwn(l) <= ShortOwn(l)' /\ WingOwn(l) <= WingOwn(l)'
    PROVE  Grants({})
<1>1. \A l : ShortOwn(l) \in Nat /\ WingOwn(l) \in Nat
  BY Ownership DEF IInv, TypeOK, PassTypes
<1>2. \A l : ShortOwn(l)' \in Nat /\ WingOwn(l)' \in Nat
  BY Ownership
<1>3. \A l : Adds(l, {}) = 0
  BY DEF Adds
<1> QED BY <1>1, <1>2, <1>3, LegsFacts DEF Grants

\* A fault explains any row it loses, and one leg of each kind it opens.
LEMMA FaultGrants ==
    ASSUME IInv, PassTypes', faults' = faults + 1, NEW S,
           \A l \in S : (l \in Shorts => ShortOwn(l) = 0) /\ (l \in Wings => WingOwn(l) <= MaxTries)
    PROVE  Grants(S)
<1>1. \A l : ShortOwn(l) \in 0..1 /\ WingOwn(l) \in 0..(1 + MaxTries)
  BY OwnBounds
<1>2. \A l : ShortOwn(l)' \in Nat /\ WingOwn(l)' \in Nat
  BY Ownership
<1>3. \A l : Adds(l, S) \in 0..1 /\ (l \notin S => Adds(l, S) = 0)
  BY DEF Adds
<1> QED BY <1>1, <1>2, <1>3, BoundsAssumption DEF Grants

\* The pass ends in a write of the ledger.
LEMMA SavingKeeps ==
    ASSUME IInv, NEW S, Orderly(S), S \cap Shorts = {},
           NEW m \in RowType, m.status # "NONE", Inherits(m),
           NEW next \in {"manage", "closes", "open"}, Save(m, next),
           UNCHANGED modeVars, todo' \in SUBSET Legs, seen' \in SUBSET Legs,
           cache' \in SUBSET SUBSET Legs,
           \/ faults' = faults /\ \A l \in Wings : WingOwn(l) + Adds(l, S) <= 1 + m.tries
           \/ /\ faults < MaxFaults /\ faults' = faults + 1
              /\ \A l \in S : WingOwn(l) <= MaxTries
    PROVE  IInv'
<1>1. mem' = m /\ row' = NoRow /\ after' = next /\ phase' = "write"
  BY DEF Save
<1>2. PassTypes'
  BY <1>1, NoRowFacts, BoundsAssumption DEF PassTypes, IInv, TypeOK, modeVars, Phases
<1>3. PassInv'
  BY <1>1 DEF PassInv
<1>4. \A l : ShortOwn(l)' = 1 /\ WingOwn(l)' = 1 + m.tries
  <2>1. m.tries \in Nat
    BY BoundsAssumption DEF RowType
  <2> QED BY <1>1, <2>1 DEF ShortOwn, WingOwn, Sold, Tries
<1>5. CASE faults' = faults /\ \A l \in Wings : WingOwn(l) + Adds(l, S) <= 1 + m.tries
  <2>1. \A l \in Shorts : ShortOwn(l) + Adds(l, S) <= 1
    BY OwnBounds DEF Adds
  <2> QED BY <1>1, <1>2, <1>3, <1>4, <1>5, <2>1, OldInherits, MovesKeep DEF Grants, Moves, Traced
<1>6. CASE /\ faults < MaxFaults /\ faults' = faults + 1
           /\ \A l \in S : WingOwn(l) <= MaxTries
  <2>1. Grants(S)
    BY <1>2, <1>6, FaultGrants
  <2> QED BY <1>1, <1>2, <1>3, <2>1, OldInherits, MovesKeep DEF Moves, Traced
<1> QED BY <1>5, <1>6

\* A call raises out of the block.
LEMMA AbandonKeeps ==
    ASSUME IInv, NEW S, Orderly(S), Abandon, UNCHANGED modeVars,
           S = {} \/ (row.status = "NONE" /\ \A l \in S : ShortOwn(l) = 0 /\ WingOwn(l) = 0)
    PROVE  IInv'
<1>1. /\ faults < MaxFaults /\ faults' = faults + 1
      /\ phase' = "idle" /\ mem' = NoRow /\ UNCHANGED <<row, after>>
      /\ todo' = {} /\ seen' = {} /\ cache' = {}
  BY DEF Abandon, Unread
<1>2. PassTypes'
  BY <1>1, NoRowFacts, BoundsAssumption DEF PassTypes, IInv, TypeOK, modeVars, Phases
<1>3. PassInv'
  BY <1>1 DEF PassInv, IInv
<1>4. Grants(S)
  <2>1. \A l \in S : ShortOwn(l) = 0 /\ WingOwn(l) <= MaxTries
    BY BoundsAssumption
  <2> QED BY <1>1, <1>2, <2>1, FaultGrants
<1>5. Traced(S)
  BY <1>1, OldInherits, NoRowFacts DEF Traced, IInv, PassInv
<1> QED BY <1>2, <1>3, <1>4, <1>5, MovesKeep DEF Moves

LEMMA InitInv == Init => IInv
<1> SUFFICES ASSUME Init PROVE IInv
  OBVIOUS
<1>1. FreeOrder \in OrderType
  BY DEF FreeOrder, OrderType
<1>2. TypeOK
  <2>1. orders \in [OrderIds -> OrderType] /\ held \in [Legs -> Nat]
    BY <1>1 DEF Init
  <2>2. row \in RowType /\ mem \in RowType
    BY NoRowFacts DEF Init
  <2>3. faults \in 0..MaxFaults /\ atomic \in BOOLEAN /\ uw \in BOOLEAN
    BY BoundsAssumption, ModesAssumption DEF Init
  <2>4. phase \in Phases /\ after \in Phases /\ todo = {} /\ seen = {} /\ cache = {}
    BY DEF Init, Phases, Unread
  <2> QED BY <2>1, <2>2, <2>3, <2>4 DEF TypeOK
<1>3. \A l : OpeningIn(orders, l) = {} /\ ClosingIn(orders, l) = {}
  BY DEF Init, OpeningIn, ClosingIn, FreeOrder
<1>4. \A l \in Legs : Exposed(l) = 0 /\ Cardinality(ClosingIn(orders, l)) = 0 /\ held[l] = 0
  <2> SUFFICES ASSUME NEW l \in Legs
               PROVE  Exposed(l) = 0 /\ Cardinality(ClosingIn(orders, l)) = 0 /\ held[l] = 0
    OBVIOUS
  <2>1. held[l] = 0
    BY DEF Init
  <2>2. Cardinality(OpeningIn(orders, l)) = 0 /\ Cardinality(ClosingIn(orders, l)) = 0
    BY <1>3, FS_EmptySet
  <2>3. Exposed(l) = held[l] + Cardinality(OpeningIn(orders, l))
    BY ExposedIs
  <2> QED BY <2>1, <2>2, <2>3
<1>5. Reserved
  BY <1>4 DEF Reserved
<1>6. PassInv
  BY NoRowFacts DEF Init, PassInv
<1>7. PassTypes
  BY <1>2 DEF TypeOK, PassTypes
<1>8. Bounded
  <2>1. \A l : ShortOwn(l) \in Nat /\ WingOwn(l) \in Nat
    BY <1>7, Ownership
  <2>2. faults = 0 /\ (1 + MaxTries) * 0 = 0
    BY BoundsAssumption DEF Init
  <2> QED BY <1>4, <2>1, <2>2, LegsFacts DEF Bounded
<1>9. Pointers
  BY NoRowFacts, LegsFacts DEF Init, Pointers, PointsAtCloses, ClosesLeaveNothing
<1> QED BY <1>2, <1>5, <1>6, <1>8, <1>9 DEF IInv

-----------------------------------------------------------------------------
(* reconcile_fills *)

LEMMA HeldLegsAreLegs == HeldLegs \in SUBSET Legs /\ Cached \in SUBSET SUBSET Legs
BY DEF HeldLegs, Cached, Unread

LEMMA ReadFillsKeeps == IInv /\ ReadFills => IInv'
<1> SUFFICES ASSUME IInv, ReadFills PROVE Moves({})
  BY MovesKeep
<1>1. /\ UNCHANGED <<modeVars, brokerVars, row, after, todo, faults>>
      /\ phase = "idle" /\ phase' = "fills" /\ mem' = row
  BY DEF ReadFills
<1>2. seen' \in SUBSET Legs /\ cache' \in SUBSET SUBSET Legs
  BY HeldLegsAreLegs DEF ReadFills, IInv, TypeOK
<1>3. PassTypes'
  BY <1>1, <1>2 DEF PassTypes, IInv, TypeOK, modeVars, Phases
<1>4. PassInv'
  BY <1>1 DEF PassInv, IInv
<1>5. Grants({})
  BY <1>1, <1>3, SteadyGrants, Ownership DEF ShortOwn, WingOwn, Sold, Tries
<1>6. Traced({})
  BY <1>1, OldInherits DEF Traced
<1> QED BY <1>1, <1>3, <1>4, <1>5, <1>6, StillOrderly DEF Moves

LEMMA NoFillsKeeps == IInv /\ NoFills => IInv'
<1> SUFFICES ASSUME IInv, NoFills PROVE Moves({})
  BY MovesKeep
<1>1. /\ UNCHANGED <<modeVars, brokerVars, row, after, todo, cache, faults>>
      /\ phase = "fills" /\ phase' = "manage" /\ mem' = NoRow /\ seen' = {}
  BY DEF NoFills, Leave
<1>3. PassTypes'
  BY <1>1, NoRowFacts DEF PassTypes, IInv, TypeOK, modeVars, Phases
<1>4. PassInv'
  BY <1>1 DEF PassInv, IInv
<1>5. Grants({})
  BY <1>1, <1>3, SteadyGrants, Ownership DEF ShortOwn, WingOwn, Sold, Tries
<1>6. Traced({})
  BY <1>1, OldInherits DEF Traced
<1> QED BY <1>1, <1>3, <1>4, <1>5, <1>6, StillOrderly DEF Moves

LEMMA RecordFillsKeeps == IInv /\ RecordFills => IInv'
<1> SUFFICES ASSUME IInv, RecordFills PROVE IInv'
  OBVIOUS
<1>1. /\ UNCHANGED <<modeVars, brokerVars, todo, cache, faults>> /\ seen' = {}
      /\ phase = "fills" /\ mem.status = "OPEN" /\ mem = row
  BY DEF RecordFills, IInv, PassInv
<1>2. CASE Leave("manage")
  <2>1. phase' = "manage" /\ mem' = NoRow /\ UNCHANGED <<row, after>>
    BY <1>2 DEF Leave
  <2>2. PassTypes'
    BY <1>1, <2>1, NoRowFacts DEF PassTypes, IInv, TypeOK, modeVars, Phases
  <2>3. PassInv'
    BY <1>1, <2>1 DEF PassInv, IInv
  <2>4. Grants({})
    BY <1>1, <2>1, <2>2, SteadyGrants, Ownership DEF ShortOwn, WingOwn, Sold, Tries
  <2>5. Traced({})
    BY <2>1, OldInherits DEF Traced
  <2> QED BY <1>1, <2>2, <2>3, <2>4, <2>5, StillOrderly, MovesKeep DEF Moves
<1>3. CASE Save(mem, "manage")
  <2>1. \A l \in Wings : WingOwn(l) + Adds(l, {}) <= 1 + mem.tries
    BY <1>1, BoundsAssumption DEF WingOwn, Adds, Sold, Tries, IInv, TypeOK, RowType
  <2> QED BY <1>1, <1>3, <2>1, StillOrderly, OldInherits, SavingKeeps DEF IInv, TypeOK
<1> QED BY <1>2, <1>3 DEF RecordFills

LEMMA RemediateNakedKeeps == IInv /\ RemediateNaked => IInv'
<1> SUFFICES ASSUME IInv, RemediateNaked PROVE Moves({})
  BY MovesKeep
<1>1. /\ UNCHANGED <<modeVars, brokerVars, row, after, mem, cache, faults>> /\ seen' = {}
      /\ phase = "fills" /\ mem.status = "OPEN" /\ mem = row
  BY DEF RemediateNaked, IInv, PassInv
<1>2. \/ phase' = "rebuy" /\ todo' = UnfilledWings /\ mem.tries < MaxTries
      \/ phase' = "cover" /\ todo' = {Short(s) : s \in NakedSides}
  BY DEF RemediateNaked
<1>3. UnfilledWings \subseteq Wings /\ {Short(s) : s \in NakedSides} \subseteq Legs
  BY LegsFacts DEF UnfilledWings, NakedSides, Shorts
<1>4. PassTypes'
  BY <1>1, <1>2, <1>3, LegsFacts DEF PassTypes, IInv, TypeOK, modeVars, Phases
<1>5. PassInv'
  BY <1>1, <1>2, <1>3 DEF PassInv, IInv
<1>6. Grants({})
  <2>1. \A l : Sold(l)' = Sold(l)
    BY <1>1, <1>2 DEF Sold
  <2>2. Tries' = Tries /\ Tries \in Nat
    BY <1>1, <1>2, BoundsAssumption DEF Tries, IInv, TypeOK, RowType
  <2>3. \A l : ShortOwn(l) <= ShortOwn(l)' /\ WingOwn(l) <= WingOwn(l)'
    BY <1>1, <2>1, <2>2 DEF ShortOwn, WingOwn
  <2> QED BY <1>1, <1>4, <2>3, SteadyGrants
<1>7. Traced({})
  BY <1>1, OldInherits DEF Traced
<1> QED BY <1>1, <1>4, <1>5, <1>6, <1>7, StillOrderly DEF Moves

LEMMA OpeningReplaced ==
    ASSUME NEW m \in RowType, NEW l \in Wings, NEW i \in OrderIds, NEW n,
           n = [m EXCEPT !.opening[l] = i]
    PROVE  /\ n \in RowType
           /\ n.status = m.status /\ n.tries = m.tries /\ n.closing = m.closing /\ n.basis = m.basis
<1>1. /\ n.status = m.status /\ n.tries = m.tries /\ n.closing = m.closing /\ n.basis = m.basis
  BY DEF RowType
<1>2. n \in RowType
  BY DEF RowType
<1> QED BY <1>1, <1>2

\* A row that has the closing ids and the close of one there was.
LEMMA CopyInherits ==
    ASSUME NEW q, Inherits(q), NEW m, m.closing = q.closing, m.status = q.status, m.basis = q.basis
    PROVE  Inherits(m)
BY DEF Inherits

\* A wing is re-bought, or not, and the pass goes on.
LEMMA RemedyDoneKeeps ==
    ASSUME IInv, phase = "rebuy", NEW l \in todo, NEW S \in SUBSET {l}, Orderly(S),
           NEW m \in RowType, m.status = "OPEN", m.tries = mem.tries, Inherits(m),
           RemedyDone(m, todo \ {l}), UNCHANGED <<modeVars, seen, faults>>,
           cache' \in SUBSET SUBSET Legs
    PROVE  IInv'
<1>1. /\ mem.status = "OPEN" /\ row.status = "OPEN" /\ mem.tries = row.tries
      /\ todo \subseteq Wings /\ mem.tries < MaxTries
  BY DEF IInv, PassInv
<1>2. l \in Wings /\ S \cap Shorts = {} /\ m.tries \in Nat
  BY <1>1, LegsFacts, BoundsAssumption DEF RowType
<1>3. \A k : WingOwn(k) = 1 + m.tries + (IF k \notin todo THEN 1 ELSE 0)
  BY <1>1, <1>2 DEF WingOwn, Sold, Tries
<1>4. \A k : ShortOwn(k) = 1
  BY <1>1 DEF ShortOwn, Sold
<1>5. \A k : Adds(k, S) \in 0..1 /\ (k # l => Adds(k, S) = 0)
  BY DEF Adds
<1>6. CASE todo \ {l} = {}
  <2> DEFINE n == [m EXCEPT !.tries = @ + 1]
  <2>1. Save(n, "manage") /\ todo' = {}
    BY <1>6 DEF RemedyDone
  <2>2. n.tries = m.tries + 1 /\ n.status = "OPEN" /\ n.closing = m.closing /\ n.basis = m.basis
    BY DEF RowType
  <2>3. m.tries + 1 \in 0..MaxTries
    BY <1>1, <1>2, BoundsAssumption
  <2>4. n \in RowType
    BY <2>3 DEF RowType
  <2> HIDE DEF n
  <2>5. Inherits(n)
    BY <2>2, CopyInherits
  <2>6. \A k \in Wings : WingOwn(k) + Adds(k, S) <= 1 + n.tries
    <3> SUFFICES ASSUME NEW k \in Wings PROVE WingOwn(k) + Adds(k, S) <= 1 + n.tries
      OBVIOUS
    <3>1. k \notin todo => k # l
      OBVIOUS
    <3> QED BY <1>2, <1>3, <1>5, <2>2, <3>1
  <2> QED BY <1>2, <2>1, <2>2, <2>4, <2>5, <2>6, SavingKeeps DEF IInv, TypeOK
<1>7. CASE todo \ {l} # {}
  <2>1. mem' = m /\ UNCHANGED <<row, phase, after>> /\ todo' = todo \ {l}
    BY <1>7 DEF RemedyDone
  <2>2. PassTypes'
    BY <2>1 DEF PassTypes, IInv, TypeOK, modeVars
  <2>3. PassInv'
    BY <1>1, <2>1 DEF PassInv, IInv
  <2>4. \A k : WingOwn(k)' = 1 + m.tries + (IF k \notin todo \ {l} THEN 1 ELSE 0)
    BY <1>1, <1>2, <2>1 DEF WingOwn, Sold, Tries
  <2>5. \A k : ShortOwn(k)' = 1
    BY <1>1, <2>1 DEF ShortOwn, Sold
  <2>6. Grants(S)
    <3>1. \A k \in Shorts : k \notin S
      BY <1>2
    <3>2. \A k \in Shorts : ShortOwn(k) + Adds(k, S) <= ShortOwn(k)'
      BY <1>4, <2>5, <3>1 DEF Adds
    <3>3. \A k \in Wings : WingOwn(k) + Adds(k, S) <= WingOwn(k)'
      BY <1>2, <1>3, <1>5, <2>4
    <3> QED BY <3>2, <3>3 DEF Grants
  <2>7. Traced(S)
    BY <1>2, <2>1, OldInherits DEF Traced
  <2> QED BY <2>2, <2>3, <2>6, <2>7, MovesKeep DEF Moves
<1> QED BY <1>6, <1>7

LEMMA RebuyTakenKeeps ==
    ASSUME IInv, NEW l \in Legs, NEW i \in OrderIds, RebuyTaken(l, i)
    PROVE  IInv'
<1>1. /\ phase = "rebuy" /\ l \in todo /\ cache' = {}
      /\ RemedyDone([mem EXCEPT !.opening[l] = i], todo \ {l})
      /\ UNCHANGED <<modeVars, held, seen, faults>>
  BY DEF RebuyTaken, InvalidateReads, Unread
<1>2. PICK os \in Cancelled(l) : BooksInto(os, i, {l}, TRUE)
  BY DEF RebuyTaken
<1>3. EndsSome(os)
  BY CancelledEndsSome DEF IInv
<1>4. Orderly({l})
  BY <1>1, <1>2, <1>3, OpeningIsOrderly
<1>5. l \in Wings /\ mem.status = "OPEN" /\ mem \in RowType
  BY <1>1 DEF IInv, PassInv, TypeOK
<1> DEFINE m == [mem EXCEPT !.opening[l] = i]
<1>6. /\ m \in RowType
      /\ m.status = mem.status /\ m.tries = mem.tries /\ m.closing = mem.closing /\ m.basis = mem.basis
  BY <1>5, OpeningReplaced
<1>7. RemedyDone(m, todo \ {l})
  BY <1>1
<1> HIDE DEF m
<1>8. Inherits(m)
  BY <1>6, OldInherits, CopyInherits
<1> QED BY <1>1, <1>4, <1>5, <1>6, <1>7, <1>8, RemedyDoneKeeps

LEMMA RebuyRefusedKeeps ==
    ASSUME IInv, NEW l \in Legs, RebuyRefused(l)
    PROVE  IInv'
<1>1. /\ phase = "rebuy" /\ l \in todo
      /\ RemedyDone(mem, todo \ {l})
      /\ UNCHANGED <<modeVars, held, seen, cache, faults>>
  BY DEF RebuyRefused
<1>2. PICK os \in Cancelled(l) : orders' = os
  BY DEF RebuyRefused
<1>3. Orderly({})
  BY <1>1, <1>2, CancelledEndsSome, EndingIsOrderly DEF IInv
<1>4. mem.status = "OPEN" /\ mem \in RowType /\ cache \in SUBSET SUBSET Legs
  BY <1>1 DEF IInv, PassInv, TypeOK
<1> QED BY <1>1, <1>3, <1>4, OldInherits, RemedyDoneKeeps

LEMMA RemedyRaisesKeeps ==
    ASSUME IInv, NEW l \in Legs, RemedyRaises(l)
    PROVE  IInv'
<1>1. /\ phase \in {"rebuy", "cover"} /\ l \in todo
      /\ faults < MaxFaults /\ faults' = faults + 1
      /\ Save(mem, "manage") /\ todo' = {}
      /\ UNCHANGED <<modeVars, held, seen, cache>>
  BY DEF RemedyRaises
<1>2. mem.status = "OPEN" /\ mem \in RowType /\ Inherits(mem)
  BY <1>1, OldInherits DEF IInv, PassInv, TypeOK
<1>3. CASE phase = "cover"
  <2>1. LosesAnswer({l}, FALSE)
    BY <1>3 DEF RemedyRaises
  <2>2. Orderly({})
    BY <1>1, <2>1, LosingIsOrderly
  <2> QED BY <1>1, <1>2, <2>2, SavingKeeps DEF IInv, TypeOK
<1>4. CASE phase = "rebuy"
  <2>1. PICK os \in Cancelled(l) : \/ orders' = os
                                   \/ \E i \in OrderIds : BooksInto(os, i, {l}, TRUE)
    BY <1>4 DEF RemedyRaises
  <2>2. EndsSome(os)
    BY CancelledEndsSome DEF IInv
  <2>3. Orderly({}) \/ Orderly({l})
    BY <1>1, <2>1, <2>2, EndingIsOrderly, OpeningIsOrderly
  <2>4. l \in Wings /\ l \notin Shorts
    BY <1>1, <1>4, LegsFacts DEF IInv, PassInv
  <2>5. WingOwn(l) <= MaxTries
    <3>1. row.tries \in Nat /\ row.tries < MaxTries /\ row.status = "OPEN"
      BY <1>4, BoundsAssumption DEF IInv, PassInv, TypeOK, RowType
    <3> QED BY <1>1, <1>4, <3>1, BoundsAssumption DEF WingOwn, Sold, Tries
  <2>6. CASE Orderly({})
    BY <1>1, <1>2, <2>6, SavingKeeps DEF IInv, TypeOK
  <2>7. CASE Orderly({l})
    BY <1>1, <1>2, <2>4, <2>5, <2>7, SavingKeeps DEF IInv, TypeOK
  <2> QED BY <2>3, <2>6, <2>7
<1> QED BY <1>1, <1>3, <1>4

\* A short is bought back, or not, and the pass goes on.
LEMMA CoverDoneKeeps ==
    ASSUME IInv, phase = "cover", Orderly({}), NEW l \in Legs, CoverDone(todo \ {l}),
           UNCHANGED <<modeVars, seen, faults>>, cache' \in SUBSET SUBSET Legs
    PROVE  IInv'
<1>1. mem.status = "OPEN" /\ row.status = "OPEN" /\ mem.tries = row.tries /\ mem.tries \in Nat
  BY BoundsAssumption DEF IInv, PassInv, TypeOK, RowType
<1>2. CASE todo \ {l} = {}
  <2>1. Save(mem, "manage") /\ todo' = {}
    BY <1>2 DEF CoverDone
  <2>2. \A k \in Wings : WingOwn(k) + Adds(k, {}) <= 1 + mem.tries
    BY <1>1 DEF WingOwn, Adds, Sold, Tries
  <2> QED BY <1>1, <2>1, <2>2, OldInherits, SavingKeeps DEF IInv, TypeOK
<1>3. CASE todo \ {l} # {}
  <2>1. UNCHANGED <<row, phase, after, mem>> /\ todo' = todo \ {l}
    BY <1>3 DEF CoverDone
  <2>2. PassTypes'
    BY <2>1 DEF PassTypes, IInv, TypeOK, modeVars
  <2>3. PassInv'
    BY <2>1 DEF PassInv, IInv
  <2>4. Grants({})
    BY <2>1, <2>2, SteadyGrants, Ownership DEF ShortOwn, WingOwn, Sold, Tries
  <2>5. Traced({})
    BY <2>1, OldInherits DEF Traced
  <2> QED BY <2>2, <2>3, <2>4, <2>5, MovesKeep DEF Moves
<1> QED BY <1>2, <1>3

LEMMA CoverKeeps ==
    ASSUME IInv, NEW l \in Legs, CoverTaken(l) \/ CoverRefused(l)
    PROVE  IInv'
<1>1. CASE CoverTaken(l)
  <2>1. /\ phase = "cover" /\ CoverDone(todo \ {l}) /\ cache' = {}
        /\ UNCHANGED <<modeVars, held, seen, faults>>
    BY <1>1 DEF CoverTaken, InvalidateReads, Unread
  <2>2. Orderly({})
    BY <1>1, ClosingIsOrderly DEF CoverTaken
  <2> QED BY <2>1, <2>2, CoverDoneKeeps
<1>2. CASE CoverRefused(l)
  <2>1. /\ phase = "cover" /\ CoverDone(todo \ {l})
        /\ UNCHANGED <<modeVars, brokerVars, seen, cache, faults>>
    BY <1>2 DEF CoverRefused
  <2> QED BY <2>1, StillOrderly, CoverDoneKeeps DEF IInv, TypeOK
<1> QED BY <1>1, <1>2

-----------------------------------------------------------------------------
(* manage_positions *)

LEMMA HoldKeeps == IInv /\ Hold => IInv'
<1> SUFFICES ASSUME IInv, Hold PROVE Moves({})
  BY MovesKeep
<1>1. /\ UNCHANGED <<modeVars, brokerVars, row, after, todo, seen, cache, faults>>
      /\ phase = "manage" /\ phase' = "closes" /\ mem' = NoRow
  BY DEF Hold, Leave
<1>2. PassTypes'
  BY <1>1, NoRowFacts DEF PassTypes, IInv, TypeOK, modeVars, Phases
<1>3. PassInv'
  BY <1>1 DEF PassInv, IInv
<1>4. Grants({})
  BY <1>1, <1>2, SteadyGrants, Ownership DEF ShortOwn, WingOwn, Sold, Tries
<1>5. Traced({})
  BY <1>1, OldInherits DEF Traced
<1> QED BY <1>1, <1>2, <1>3, <1>4, <1>5, StillOrderly DEF Moves

\* What the open row explains, outside a pass that re-buys or writes.
LEMMA OpenRowOwns ==
    ASSUME IInv, row.status # "NONE", phase \notin {"rebuy", "write"}
    PROVE  \A l : WingOwn(l) + Adds(l, {}) <= 1 + row.tries
<1>1. row.tries \in Nat
  BY BoundsAssumption DEF IInv, TypeOK, RowType
<1> QED BY <1>1 DEF WingOwn, Adds, Sold, Tries

LEMMA ClosingDropped ==
    ASSUME NEW m \in RowType, NEW n, n = [m EXCEPT !.closing = NoneClosing]
    PROVE  /\ n \in RowType
           /\ n.status = m.status /\ n.tries = m.tries /\ n.closing = NoneClosing /\ n.basis = m.basis
<1>1. n.status = m.status /\ n.tries = m.tries /\ n.closing = NoneClosing /\ n.basis = m.basis
  BY DEF RowType
<1>2. n \in RowType
  BY NoRowFacts DEF RowType
<1> QED BY <1>1, <1>2

LEMMA DeferKeeps == IInv /\ Defer => IInv'
<1> SUFFICES ASSUME IInv, Defer PROVE IInv'
  OBVIOUS
<1>1. /\ phase = "manage" /\ row.status = "OPEN" /\ Save(row, "closes")
      /\ UNCHANGED <<modeVars, brokerVars, todo, seen, cache, faults>>
  BY DEF Defer
<1> QED BY <1>1, OpenRowOwns, StillOrderly, OldInherits, SavingKeeps DEF IInv, TypeOK

LEMMA CloseAtomicRefusedKeeps == IInv /\ CloseAtomicRefused => IInv'
<1> SUFFICES ASSUME IInv, CloseAtomicRefused PROVE IInv'
  OBVIOUS
<1> DEFINE m == [row EXCEPT !.closing = NoneClosing]
<1>1. /\ phase = "manage" /\ row.status = "OPEN" /\ Save(m, "closes")
      /\ UNCHANGED <<modeVars, brokerVars, todo, seen, cache, faults>>
  BY DEF CloseAtomicRefused
<1>2. /\ m \in RowType
      /\ m.status = row.status /\ m.tries = row.tries /\ m.closing = NoneClosing
  BY ClosingDropped DEF IInv, TypeOK
<1> HIDE DEF m
<1>3. Inherits(m)
  BY <1>1, <1>2, OldInherits
<1> QED BY <1>1, <1>2, <1>3, OpenRowOwns, StillOrderly, SavingKeeps DEF IInv, TypeOK

LEMMA CloseRaisesKeeps ==
    ASSUME IInv, NEW legs \in SUBSET Legs, LosesAnswer(legs, FALSE), Abandon,
           UNCHANGED <<modeVars, held>>
    PROVE  IInv'
<1>1. Orderly({})
  BY LosingIsOrderly
<1> QED BY <1>1, AbandonKeeps

\* The row is open and the pass has orders out for its legs.
LEMMA ClosingPassKeeps ==
    ASSUME IInv, Orderly({}), phase \in {"manage", "close"}, row.status = "OPEN",
           mem' \in RowType, mem'.status = "OPEN", mem'.tries = row.tries, Inherits(mem'),
           phase' \in {"close", "price"}, todo' \in SUBSET Legs, cache' \in SUBSET SUBSET Legs,
           UNCHANGED <<modeVars, row, after, seen, faults>>
    PROVE  IInv'
<1>1. PassTypes'
  BY DEF PassTypes, IInv, TypeOK, modeVars, Phases
<1>2. PassInv'
  BY DEF PassInv, IInv
<1>3. Grants({})
  BY <1>1, SteadyGrants, Ownership DEF ShortOwn, WingOwn, Sold, Tries
<1>4. Traced({})
  BY OldInherits DEF Traced
<1> QED BY <1>1, <1>2, <1>3, <1>4, MovesKeep DEF Moves

LEMMA CloseAtomicKeeps == IInv /\ CloseAtomic => IInv'
<1> SUFFICES ASSUME IInv, CloseAtomic PROVE IInv'
  OBVIOUS
<1>1. PICK i \in OrderIds : Books(i, Legs, FALSE) /\ mem' = [row EXCEPT !.closing = [l \in Legs |-> i]]
  BY DEF CloseAtomic
<1>2. /\ phase = "manage" /\ row.status = "OPEN" /\ phase' = "price"
      /\ UNCHANGED <<modeVars, held, row, after, todo, seen, cache, faults>>
  BY DEF CloseAtomic
<1>3. Orderly({})
  BY <1>1, <1>2, ClosingIsOrderly
<1>4. /\ mem'.status = "OPEN" /\ mem'.tries = row.tries
      /\ mem'.closing = [l \in Legs |-> i]
  BY <1>1, <1>2 DEF IInv, TypeOK, RowType
<1>5. mem' \in RowType
  BY <1>1 DEF IInv, TypeOK, RowType
<1>6. orders'[i] = [state |-> "working", opens |-> FALSE, legs |-> Legs]
  BY <1>1 DEF Books, BooksInto, IInv, TypeOK
<1>7. Inherits(mem')
  <2>1. \A l \in Legs : mem'.closing[l] = i
    BY <1>4
  <2>2. orders'[i].legs = Legs
    BY <1>6
  <2> QED BY <1>4, <1>6, <2>1, <2>2 DEF Inherits
<1> QED BY <1>2, <1>3, <1>4, <1>5, <1>7, ClosingPassKeeps DEF IInv, TypeOK

LEMMA CloseLeggedKeeps == IInv /\ CloseLegged => IInv'
<1> SUFFICES ASSUME IInv, CloseLegged PROVE IInv'
  OBVIOUS
<1>1. /\ phase = "manage" /\ row.status = "OPEN" /\ phase' = "close"
      /\ mem' = [row EXCEPT !.closing = NoneClosing] /\ todo' = Legs
      /\ UNCHANGED <<modeVars, brokerVars, row, after, seen, cache, faults>>
  BY DEF CloseLegged
<1>2. /\ mem' \in RowType
      /\ mem'.status = row.status /\ mem'.tries = row.tries /\ mem'.closing = NoneClosing
  BY <1>1, ClosingDropped DEF IInv, TypeOK
<1>3. Inherits(mem')
  BY <1>1, <1>2, OldInherits
<1> QED BY <1>1, <1>2, <1>3, StillOrderly, ClosingPassKeeps DEF IInv, TypeOK

\* A leg is sent, or refused, and the pass goes on.
LEMMA LegsSentKeeps ==
    ASSUME IInv, phase = "close", Orderly({}), NEW l \in Legs,
           NEW m \in RowType, m.status = "OPEN", m.tries = row.tries, Inherits(m),
           LegsSent(m, todo \ {l}), UNCHANGED <<modeVars, seen, faults>>,
           cache' \in SUBSET SUBSET Legs
    PROVE  IInv'
<1>1. row.status = "OPEN" /\ todo \in SUBSET Legs
  BY DEF IInv, PassInv, TypeOK
<1>2. CASE todo \ {l} # {}
  <2>1. mem' = m /\ UNCHANGED <<row, phase, after>> /\ todo' = todo \ {l}
    BY <1>2 DEF LegsSent
  <2> QED BY <1>1, <2>1, ClosingPassKeeps
<1>3. CASE todo \ {l} = {} /\ \A k \in Legs : m.closing[k] # NoOrder
  <2>1. mem' = m /\ phase' = "price" /\ UNCHANGED <<row, after>> /\ todo' = {}
    BY <1>3 DEF LegsSent
  <2> QED BY <1>1, <2>1, ClosingPassKeeps
<1>4. CASE todo \ {l} = {} /\ ~\A k \in Legs : m.closing[k] # NoOrder
  <2> DEFINE n == [m EXCEPT !.closing = NoneClosing]
  <2>1. Save(n, "closes") /\ todo' = {}
    BY <1>4 DEF LegsSent
  <2>2. n \in RowType /\ n.status = "OPEN" /\ n.tries = row.tries /\ n.closing = NoneClosing
    BY ClosingDropped
  <2> HIDE DEF n
  <2>3. Inherits(n)
    BY <2>2, OldInherits
  <2> QED BY <1>1, <2>1, <2>2, <2>3, OpenRowOwns, SavingKeeps DEF IInv, TypeOK
<1> QED BY <1>2, <1>3, <1>4

LEMMA CloseLegTakenKeeps ==
    ASSUME IInv, NEW l \in Legs, CloseLegTaken(l)
    PROVE  IInv'
<1>1. PICK i \in OrderIds : /\ Books(i, {l}, FALSE)
                            /\ LegsSent([mem EXCEPT !.closing[l] = i], todo \ {l})
  BY DEF CloseLegTaken
<1>2. /\ phase = "close" /\ cache' = {}
      /\ UNCHANGED <<modeVars, held, seen, faults>>
  BY DEF CloseLegTaken, InvalidateReads, Unread
<1>3. mem \in RowType /\ mem.status = "OPEN" /\ mem.tries = row.tries
  BY <1>2 DEF IInv, PassInv, TypeOK
<1> DEFINE m == [mem EXCEPT !.closing[l] = i]
<1>4. /\ m.status = mem.status /\ m.tries = mem.tries /\ m.basis = mem.basis
      /\ m.closing = [mem.closing EXCEPT ![l] = i]
  BY <1>3 DEF RowType
<1>5. m \in RowType
  BY <1>3 DEF RowType
<1>6. LegsSent(m, todo \ {l})
  BY <1>1
<1> HIDE DEF m
<1>7. orders'[i] = [state |-> "working", opens |-> FALSE, legs |-> {l}]
  BY <1>1 DEF Books, BooksInto, IInv, TypeOK
<1>8. Inherits(m)
  <2>1. m.closing[l] = i /\ \A k \in Legs \ {l} : m.closing[k] = mem.closing[k]
    BY <1>3, <1>4 DEF RowType
  <2>2. orders'[i].legs = {l}
    BY <1>7
  <2> QED BY <1>3, <1>4, <1>7, <2>1, <2>2 DEF Inherits
<1>9. Orderly({})
  BY <1>1, <1>2, ClosingIsOrderly
<1> QED BY <1>2, <1>3, <1>4, <1>5, <1>6, <1>8, <1>9, LegsSentKeeps

LEMMA CloseLegRefusedKeeps ==
    ASSUME IInv, NEW l \in Legs, CloseLegRefused(l)
    PROVE  IInv'
<1>1. /\ phase = "close" /\ LegsSent(mem, todo \ {l})
      /\ UNCHANGED <<modeVars, brokerVars, seen, cache, faults>>
  BY DEF CloseLegRefused
<1>2. mem \in RowType /\ mem.status = "OPEN" /\ mem.tries = row.tries
  BY <1>1 DEF IInv, PassInv, TypeOK
<1> QED BY <1>1, <1>2, StillOrderly, OldInherits, LegsSentKeeps DEF IInv, TypeOK

LEMMA BasesFacts ==
    ASSUME NEW q, NEW b \in Bases(q)
    PROVE  b \in {"estimate", "fills", "uw"} /\ (b = "fills" => CloseFilled(q))
BY DEF Bases

LEMMA MarkClosedKeeps == IInv /\ MarkClosed => IInv'
<1> SUFFICES ASSUME IInv, MarkClosed PROVE IInv'
  OBVIOUS
<1>1. /\ phase = "price"
      /\ UNCHANGED <<modeVars, brokerVars, todo, seen, cache, faults>>
  BY DEF MarkClosed
<1>2. PICK b \in Bases(mem) :
          Save([mem EXCEPT !.status = "CLOSED", !.basis = b, !.settled = FALSE], "closes")
  BY DEF MarkClosed
<1>3. mem \in RowType /\ row.status = "OPEN" /\ mem.tries = row.tries
  BY <1>1 DEF IInv, PassInv, TypeOK
<1> DEFINE m == [mem EXCEPT !.status = "CLOSED", !.basis = b, !.settled = FALSE]
<1>4. Save(m, "closes") /\ m = [mem EXCEPT !.status = "CLOSED", !.basis = b, !.settled = FALSE]
  BY <1>2
<1> HIDE DEF m
<1>5. /\ m \in RowType
      /\ m.status = "CLOSED" /\ m.tries = mem.tries /\ m.closing = mem.closing /\ m.basis = b
  <2>1. b \in {"estimate", "fills", "uw"}
    BY BasesFacts
  <2>2. m.status = "CLOSED" /\ m.tries = mem.tries /\ m.closing = mem.closing /\ m.basis = b
    BY <1>3, <1>4 DEF RowType
  <2>3. m \in RowType
    BY <1>3, <1>4, <2>1 DEF RowType
  <2> QED BY <2>2, <2>3
<1>6. Inherits(m)
  BY <1>5, BasesFacts DEF Inherits
<1> QED BY <1>1, <1>3, <1>4, <1>5, <1>6, OpenRowOwns, StillOrderly, SavingKeeps DEF IInv, TypeOK

LEMMA WriteKeeps == IInv /\ Write => IInv'
<1> SUFFICES ASSUME IInv, Write PROVE Moves({})
  BY MovesKeep
<1>1. /\ UNCHANGED <<modeVars, brokerVars, todo, seen, cache, faults>>
      /\ phase = "write" /\ phase' = after /\ row' = mem /\ mem' = NoRow /\ after' = "idle"
      /\ mem.status # "NONE" /\ after \in {"manage", "closes", "open"}
  BY DEF Write, IInv, PassInv
<1>2. PassTypes'
  BY <1>1, NoRowFacts DEF PassTypes, IInv, TypeOK, modeVars, Phases
<1>3. PassInv'
  BY <1>1 DEF PassInv
<1>4. Grants({})
  BY <1>1, <1>2, SteadyGrants, Ownership DEF ShortOwn, WingOwn, Sold, Tries
<1>5. Traced({})
  BY <1>1, OldInherits DEF Traced
<1> QED BY <1>1, <1>2, <1>3, <1>4, <1>5, StillOrderly DEF Moves

-----------------------------------------------------------------------------
(* reconcile_closes *)

LEMMA ReadClosesKeeps == IInv /\ ReadCloses => IInv'
<1> SUFFICES ASSUME IInv, ReadCloses PROVE Moves({})
  BY MovesKeep
<1>1. /\ UNCHANGED <<modeVars, brokerVars, row, after, todo, faults>>
      /\ phase = "closes" /\ phase' = "resolve" /\ mem' = row
  BY DEF ReadCloses
<1>2. seen' \in SUBSET Legs /\ cache' \in SUBSET SUBSET Legs
  BY HeldLegsAreLegs DEF ReadCloses, BrokerFills, Unread, IInv, TypeOK
<1>3. PassTypes'
  BY <1>1, <1>2 DEF PassTypes, IInv, TypeOK, modeVars, Phases
<1>4. PassInv'
  BY <1>1 DEF PassInv, IInv
<1>5. Grants({})
  BY <1>1, <1>3, SteadyGrants, Ownership DEF ShortOwn, WingOwn, Sold, Tries
<1>6. Traced({})
  BY <1>1, OldInherits DEF Traced
<1> QED BY <1>1, <1>3, <1>4, <1>5, <1>6, StillOrderly DEF Moves

LEMMA ResolveNothingKeeps == IInv /\ ResolveNothing => IInv'
<1> SUFFICES ASSUME IInv, ResolveNothing PROVE Moves({})
  BY MovesKeep
<1>1. /\ UNCHANGED <<modeVars, brokerVars, row, after, todo, cache, faults>>
      /\ phase = "resolve" /\ phase' = "open" /\ mem' = NoRow /\ seen' = {}
  BY DEF ResolveNothing, Leave
<1>2. PassTypes'
  BY <1>1, NoRowFacts DEF PassTypes, IInv, TypeOK, modeVars, Phases
<1>3. PassInv'
  BY <1>1 DEF PassInv, IInv
<1>4. Grants({})
  BY <1>1, <1>2, SteadyGrants, Ownership DEF ShortOwn, WingOwn, Sold, Tries
<1>5. Traced({})
  BY <1>1, OldInherits DEF Traced
<1> QED BY <1>1, <1>2, <1>3, <1>4, <1>5, StillOrderly DEF Moves

LEMMA ConfirmCloseKeeps == IInv /\ ConfirmClose => IInv'
<1> SUFFICES ASSUME IInv, ConfirmClose PROVE IInv'
  OBVIOUS
<1>1. /\ phase = "resolve" /\ mem.status = "CLOSED" /\ seen' = {} /\ mem = row
      /\ UNCHANGED <<modeVars, brokerVars, todo, cache, faults>>
  BY DEF ConfirmClose, Unresolved, IInv, PassInv
<1>2. PICK b \in Bases(mem) : Save([mem EXCEPT !.basis = b, !.settled = TRUE], "open")
  BY DEF ConfirmClose
<1> DEFINE m == [mem EXCEPT !.basis = b, !.settled = TRUE]
<1>3. mem \in RowType /\ m = [mem EXCEPT !.status = "CLOSED", !.basis = b, !.settled = TRUE]
  BY <1>1 DEF IInv, TypeOK, RowType
<1>4. Save(m, "open")
  BY <1>2
<1> HIDE DEF m
<1>5. /\ m \in RowType
      /\ m.status = "CLOSED" /\ m.tries = mem.tries /\ m.closing = mem.closing /\ m.basis = b
  <2>1. b \in {"estimate", "fills", "uw"}
    BY BasesFacts
  <2>2. m.status = "CLOSED" /\ m.tries = mem.tries /\ m.closing = mem.closing /\ m.basis = b
    BY <1>3 DEF RowType
  <2>3. m \in RowType
    BY <1>3, <2>1 DEF RowType
  <2> QED BY <2>2, <2>3
<1>6. Inherits(m)
  BY <1>5, BasesFacts DEF Inherits
<1> QED BY <1>1, <1>4, <1>5, <1>6, OpenRowOwns, StillOrderly, SavingKeeps DEF IInv, TypeOK

LEMMA RevertCloseKeeps == IInv /\ RevertClose => IInv'
<1> SUFFICES ASSUME IInv, RevertClose PROVE IInv'
  OBVIOUS
<1> DEFINE m == [mem EXCEPT !.status = "OPEN", !.basis = "none", !.closing = NoneClosing]
<1>1. /\ phase = "resolve" /\ mem.status = "CLOSED" /\ seen' = {} /\ mem = row
      /\ Save(m, "open")
      /\ UNCHANGED <<modeVars, brokerVars, todo, cache, faults>>
  BY DEF RevertClose, Unresolved, IInv, PassInv
<1>2. m.status = "OPEN" /\ m.tries = mem.tries /\ m.closing = NoneClosing
  BY DEF IInv, TypeOK, RowType
<1>3. m \in RowType
  BY NoRowFacts DEF IInv, TypeOK, RowType
<1> HIDE DEF m
<1>4. Inherits(m)
  BY <1>2, OldInherits
<1> QED BY <1>1, <1>2, <1>3, <1>4, OpenRowOwns, StillOrderly, SavingKeeps DEF IInv, TypeOK

-----------------------------------------------------------------------------
(* open_positions *)

\* No row and no legs sent yet: nothing is explained.
LEMMA NoRowOwnsNothing ==
    ASSUME row.status = "NONE", phase \notin {"write", "append", "rebuy"},
           NEW l, phase = "leg" => l \in todo
    PROVE  ShortOwn(l) = 0 /\ WingOwn(l) = 0
BY DEF ShortOwn, WingOwn, Sold

LEMMA SkipOpenKeeps == IInv /\ SkipOpen => IInv'
<1> SUFFICES ASSUME IInv, SkipOpen PROVE Moves({})
  BY MovesKeep
<1>1. /\ UNCHANGED <<modeVars, brokerVars, row, after, faults>>
      /\ phase = "open" /\ phase' = "idle" /\ mem' = NoRow
      /\ todo' = {} /\ seen' = {} /\ cache' = {}
  BY DEF SkipOpen, EndCycle, Unread
<1>2. PassTypes'
  BY <1>1, NoRowFacts DEF PassTypes, IInv, TypeOK, modeVars, Phases
<1>3. PassInv'
  BY <1>1 DEF PassInv, IInv
<1>4. Grants({})
  BY <1>1, <1>2, SteadyGrants, Ownership DEF ShortOwn, WingOwn, Sold, Tries
<1>5. Traced({})
  BY <1>1, OldInherits DEF Traced
<1> QED BY <1>1, <1>2, <1>3, <1>4, <1>5, StillOrderly DEF Moves

\* The pass holds a row it has not appended, and sends the legs S.
LEMMA OpeningPassKeeps ==
    ASSUME IInv, NEW S, Orderly(S), row.status = "NONE", phase \in {"open", "leg"},
           mem' \in RowType, mem'.status = "OPEN", mem'.closing = NoneClosing,
           phase' \in {"leg", "append"}, todo' \in SUBSET Legs,
           cache' \in SUBSET SUBSET Legs,
           phase' = "leg" => S \cap todo' = {},
           phase = "leg" => S \subseteq todo,
           phase = "leg" /\ phase' = "leg" => todo' \subseteq todo,
           UNCHANGED <<modeVars, row, after, seen, faults>>
    PROVE  IInv'
<1>1. PassTypes'
  BY DEF PassTypes, IInv, TypeOK, modeVars, Phases
<1>2. row = NoRow /\ row.tries = 0
  BY NoRowFacts DEF IInv, PassInv
<1>3. PassInv'
  BY <1>2 DEF PassInv, IInv
<1>4. Grants(S)
  <2>1. ASSUME NEW l
        PROVE  /\ ShortOwn(l) + Adds(l, S) <= ShortOwn(l)'
               /\ WingOwn(l) + Adds(l, S) <= WingOwn(l)'
    <3>1. ShortOwn(l) = WingOwn(l) /\ ShortOwn(l) = IF Sold(l) THEN 1 ELSE 0
      BY <1>2 DEF ShortOwn, WingOwn, Tries
    <3>2. ShortOwn(l)' = WingOwn(l)' /\ ShortOwn(l)' = IF Sold(l)' THEN 1 ELSE 0
      BY <1>2 DEF ShortOwn, WingOwn, Tries
    <3>3. Sold(l) => Sold(l)' /\ l \notin S
      BY DEF Sold
    <3>4. l \in S => Sold(l)'
      BY DEF Sold
    <3> QED BY <3>1, <3>2, <3>3, <3>4 DEF Adds
  <2> QED BY <2>1 DEF Grants
<1>5. Traced(S)
  BY <1>2, NoRowFacts DEF Traced
<1> QED BY <1>1, <1>3, <1>4, <1>5, MovesKeep DEF Moves

LEMMA OpenAtomicKeeps == IInv /\ OpenAtomic => IInv'
<1> SUFFICES ASSUME IInv, OpenAtomic PROVE IInv'
  OBVIOUS
<1>1. PICK i \in OrderIds :
         /\ Books(i, Legs, TRUE)
         /\ mem' = [NoRow EXCEPT !.status = "OPEN", !.opening = [l \in Wings |-> i]]
  BY DEF OpenAtomic
<1>2. /\ phase = "open" /\ row.status = "NONE" /\ phase' = "append"
      /\ UNCHANGED <<modeVars, held, row, after, todo, seen, cache, faults>>
  BY DEF OpenAtomic
<1>3. Orderly(Legs)
  BY <1>1, <1>2, SameEndsSome, OpeningIsOrderly DEF Books, IInv
<1>4. mem'.status = "OPEN" /\ mem'.closing = NoneClosing
  BY <1>1, NoRowFacts DEF NoRow
<1>5. mem' \in RowType
  BY <1>1, NoRowFacts DEF RowType
<1> QED BY <1>2, <1>3, <1>4, <1>5, OpeningPassKeeps DEF IInv, TypeOK

LEMMA OpenLeggedKeeps == IInv /\ OpenLegged => IInv'
<1> SUFFICES ASSUME IInv, OpenLegged PROVE IInv'
  OBVIOUS
<1>1. /\ phase = "open" /\ row.status = "NONE" /\ phase' = "leg" /\ todo' = Legs
      /\ mem' = [NoRow EXCEPT !.status = "OPEN"]
      /\ UNCHANGED <<modeVars, brokerVars, row, after, seen, cache, faults>>
  BY DEF OpenLegged
<1>2. mem'.status = "OPEN" /\ mem'.closing = NoneClosing
  BY <1>1, NoRowFacts DEF NoRow
<1>3. mem' \in RowType
  BY <1>1, NoRowFacts DEF RowType
<1> QED BY <1>1, <1>2, <1>3, StillOrderly, OpeningPassKeeps DEF IInv, TypeOK

LEMMA OpenLegTakenKeeps ==
    ASSUME IInv, NEW l \in Legs, NEW i \in OrderIds, OpenLegTaken(l, i)
    PROVE  IInv'
<1>1. /\ phase = "leg" /\ l \in todo /\ Books(i, {l}, TRUE)
      /\ mem' = IF l \in Wings THEN [mem EXCEPT !.opening[l] = i] ELSE mem
      /\ todo' = todo \ {l}
      /\ phase' = IF todo = {l} THEN "append" ELSE "leg"
      /\ cache' = {}
      /\ UNCHANGED <<modeVars, held, row, after, seen, faults>>
  BY DEF OpenLegTaken, NextToOpen, InvalidateReads, Unread
<1>2. /\ mem \in RowType /\ mem.status = "OPEN" /\ mem.closing = NoneClosing
      /\ row.status = "NONE" /\ todo \in SUBSET Legs
  BY <1>1, NoRowFacts DEF IInv, PassInv, TypeOK
<1>3. mem' \in RowType /\ mem'.status = "OPEN" /\ mem'.closing = NoneClosing
  BY <1>1, <1>2, OpeningReplaced
<1>4. Orderly({l})
  BY <1>1, SameEndsSome, OpeningIsOrderly DEF Books, IInv
<1> QED BY <1>1, <1>2, <1>3, <1>4, OpeningPassKeeps

LEMMA OpenRaisesKeeps ==
    ASSUME IInv, OpenAtomicRaises \/ \E l \in Legs : OpenLegRaises(l)
    PROVE  IInv'
<1>1. CASE OpenAtomicRaises
  <2>1. /\ phase = "open" /\ row.status = "NONE" /\ LosesAnswer(Legs, TRUE) /\ Abandon
        /\ UNCHANGED <<modeVars, held>>
    BY <1>1 DEF OpenAtomicRaises
  <2>2. Orderly(Legs) \/ Orderly({})
    BY <2>1, LosingIsOrderly
  <2>3. \A l \in Legs : ShortOwn(l) = 0 /\ WingOwn(l) = 0
    BY <2>1, NoRowOwnsNothing
  <2> QED BY <2>1, <2>2, <2>3, AbandonKeeps
<1>2. ASSUME NEW l \in Legs, OpenLegRaises(l)
      PROVE  IInv'
  <2>1. /\ phase = "leg" /\ l \in todo /\ LosesAnswer({l}, TRUE) /\ Abandon
        /\ UNCHANGED <<modeVars, held>>
    BY <1>2 DEF OpenLegRaises, NextToOpen
  <2>2. Orderly({l}) \/ Orderly({})
    BY <2>1, LosingIsOrderly
  <2>3. row.status = "NONE"
    BY <2>1, NoRowFacts DEF IInv, PassInv
  <2>4. ShortOwn(l) = 0 /\ WingOwn(l) = 0
    BY <2>1, <2>3, NoRowOwnsNothing
  <2> QED BY <2>1, <2>2, <2>3, <2>4, AbandonKeeps
<1> QED BY <1>1, <1>2

LEMMA OpenLegRefusedKeeps ==
    ASSUME IInv, NEW l \in Legs, OpenLegRefused(l)
    PROVE  IInv'
<1>1. /\ phase = "leg" /\ phase' = "idle" /\ mem' = NoRow
      /\ todo' = {} /\ seen' = {} /\ cache' = {}
      /\ UNCHANGED <<modeVars, brokerVars, row, after>>
      /\ \/ todo = Legs /\ faults' = faults
         \/ faults < MaxFaults /\ faults' = faults + 1
  BY DEF OpenLegRefused, EndCycle, Unread
<1>2. PassTypes'
  BY <1>1, NoRowFacts, BoundsAssumption DEF PassTypes, IInv, TypeOK, modeVars, Phases
<1>3. PassInv'
  BY <1>1 DEF PassInv, IInv
<1>4. row.status = "NONE"
  BY <1>1, NoRowFacts DEF IInv, PassInv
<1>5. Grants({})
  <2>1. CASE todo = Legs /\ faults' = faults
    <3>1. \A k \in Legs : ShortOwn(k) = 0 /\ WingOwn(k) = 0
      BY <1>1, <1>4, <2>1, NoRowOwnsNothing
    <3>2. \A k : ShortOwn(k)' \in Nat /\ WingOwn(k)' \in Nat
      BY <1>2, Ownership
    <3>3. \A k \in Legs : ShortOwn(k) <= ShortOwn(k)' /\ WingOwn(k) <= WingOwn(k)'
      BY <3>1, <3>2
    <3> QED BY <1>2, <2>1, <3>3, SteadyGrants
  <2>2. CASE faults' = faults + 1
    BY <1>2, <2>2, FaultGrants
  <2> QED BY <1>1, <2>1, <2>2
<1>6. Traced({})
  BY <1>1, OldInherits DEF Traced
<1>7. Orderly({})
  BY <1>1, StillOrderly
<1> QED BY <1>2, <1>3, <1>5, <1>6, <1>7, MovesKeep DEF Moves

LEMMA AppendKeeps == IInv /\ Append => IInv'
<1> SUFFICES ASSUME IInv, Append PROVE Moves({})
  BY MovesKeep
<1>1. /\ UNCHANGED <<modeVars, brokerVars, after, faults>>
      /\ phase = "append" /\ phase' = "idle" /\ row' = mem /\ mem' = NoRow
      /\ todo' = {} /\ seen' = {} /\ cache' = {}
      /\ mem.status = "OPEN" /\ row = NoRow
  BY DEF Append, EndCycle, Unread, IInv, PassInv
<1>2. PassTypes'
  BY <1>1, NoRowFacts DEF PassTypes, IInv, TypeOK, modeVars, Phases
<1>3. PassInv'
  BY <1>1 DEF PassInv
<1>4. Grants({})
  <2>1. row.tries = 0 /\ mem.tries \in Nat
    BY <1>1, NoRowFacts, BoundsAssumption DEF IInv, TypeOK, RowType
  <2>2. \A l : ShortOwn(l) = 1 /\ WingOwn(l) = 1 /\ ShortOwn(l)' = 1 /\ WingOwn(l)' = 1 + mem.tries
    BY <1>1, <2>1 DEF ShortOwn, WingOwn, Sold, Tries
  <2>3. \A l \in Legs : ShortOwn(l) <= ShortOwn(l)' /\ WingOwn(l) <= WingOwn(l)'
    BY <2>1, <2>2
  <2> QED BY <1>1, <1>2, <2>3, SteadyGrants
<1>5. Traced({})
  BY <1>1, OldInherits DEF Traced
<1>6. Orderly({})
  BY <1>1, StillOrderly
<1> QED BY <1>2, <1>3, <1>4, <1>5, <1>6 DEF Moves

LEMMA CrashKeeps == IInv /\ Crash => IInv'
<1> SUFFICES ASSUME IInv, Crash PROVE Moves({})
  BY MovesKeep
<1>1. /\ faults < MaxFaults /\ faults' = faults + 1
      /\ phase' = "idle" /\ after' = "idle" /\ mem' = NoRow
      /\ todo' = {} /\ seen' = {} /\ cache' = {}
      /\ UNCHANGED <<modeVars, brokerVars, row>>
  BY DEF Crash, Unread
<1>2. PassTypes'
  BY <1>1, NoRowFacts, BoundsAssumption DEF PassTypes, IInv, TypeOK, modeVars, Phases
<1>3. PassInv'
  BY <1>1 DEF PassInv, IInv
<1>4. Grants({})
  BY <1>1, <1>2, FaultGrants
<1>5. Traced({})
  BY <1>1, OldInherits DEF Traced
<1> QED BY <1>1, <1>2, <1>3, <1>4, <1>5, StillOrderly DEF Moves

-----------------------------------------------------------------------------
(* The broker *)

LEMMA DiesKeeps ==
    ASSUME IInv, NEW i \in OrderIds, Dies(i)
    PROVE  IInv'
<1>1. /\ Working(i) /\ orders' = Ended(i, "dead")
      /\ UNCHANGED <<modeVars, held, row, phase, passVars, cache, faults>>
  BY DEF Dies
<1>2. Orderly({})
  BY <1>1, DeadEndsSome, EndingIsOrderly DEF IInv
<1>3. PassTypes' /\ PassInv'
  BY <1>1 DEF PassTypes, PassInv, IInv, TypeOK, modeVars, passVars
<1>4. Grants({})
  BY <1>1, <1>3, SteadyGrants, Ownership DEF ShortOwn, WingOwn, Sold, Tries, passVars
<1>5. Traced({})
  BY <1>1, OldInherits DEF Traced, passVars
<1> QED BY <1>2, <1>3, <1>4, <1>5, MovesKeep DEF Moves

\* A fill moves the lots it was booked for, and a close had one to move.
LEMMA FillMoves ==
    ASSUME IInv, NEW i \in OrderIds, Fills(i), NEW l \in Legs
    PROVE  /\ held'[l] \in Nat
           /\ Cardinality(ClosingIn(orders', l)) <= held'[l]
           /\ Exposed(l)' <= Exposed(l)
           /\ ~orders[i].opens /\ l \in orders[i].legs => Exposed(l)' = Exposed(l) - 1
<1>1. /\ Working(i) /\ orders' = Ended(i, "filled")
      /\ held'[l] = IF l \notin orders[i].legs THEN held[l]
                    ELSE IF orders[i].opens THEN held[l] + 1 ELSE held[l] - 1
  BY DEF Fills
<1>2. /\ \A j \in OrderIds : j # i => orders'[j] = orders[j]
      /\ orders'[i].state # "working"
  BY <1>1, Ending DEF IInv
<1>3. /\ OpeningIn(orders', l) = OpeningIn(orders, l) \ {i}
      /\ ClosingIn(orders', l) = ClosingIn(orders, l) \ {i}
  BY <1>2 DEF OpeningIn, ClosingIn
<1>4. held[l] \in Nat /\ Cardinality(ClosingIn(orders, l)) <= held[l]
  BY DEF IInv, TypeOK, Reserved
<1>5. /\ Exposed(l) = held[l] + Cardinality(OpeningIn(orders, l))
      /\ Exposed(l)' = held'[l] + Cardinality(OpeningIn(orders', l))
  BY ExposedIs
<1>6. /\ Cardinality(OpeningIn(orders, l)) \in Nat /\ Cardinality(ClosingIn(orders, l)) \in Nat
      /\ Cardinality(OpeningIn(orders', l)) \in Nat /\ Cardinality(ClosingIn(orders', l)) \in Nat
  BY SetsOfOrders
<1>7. orders[i] \in OrderType
  BY DEF IInv, TypeOK
<1>8. CASE l \notin orders[i].legs
  <2>1. /\ OpeningIn(orders', l) = OpeningIn(orders, l)
        /\ ClosingIn(orders', l) = ClosingIn(orders, l)
    BY <1>3, <1>8 DEF OpeningIn, ClosingIn
  <2> QED BY <1>1, <1>4, <1>5, <1>6, <1>8, <2>1
<1>9. CASE l \in orders[i].legs /\ orders[i].opens
  <2>1. i \in OpeningIn(orders, l) /\ ClosingIn(orders', l) = ClosingIn(orders, l)
    BY <1>1, <1>3, <1>9 DEF OpeningIn, ClosingIn, Working
  <2>2. Cardinality(OpeningIn(orders', l)) = Cardinality(OpeningIn(orders, l)) - 1
    BY <1>3, <2>1, SetsOfOrders, OneOrderLess
  <2> QED BY <1>1, <1>4, <1>5, <1>6, <1>9, <2>1, <2>2
<1>10. CASE l \in orders[i].legs /\ ~orders[i].opens
  <2>1. i \in ClosingIn(orders, l) /\ OpeningIn(orders', l) = OpeningIn(orders, l)
    BY <1>1, <1>3, <1>10 DEF OpeningIn, ClosingIn, Working
  <2>2. Cardinality(ClosingIn(orders', l)) = Cardinality(ClosingIn(orders, l)) - 1
    BY <1>3, <2>1, SetsOfOrders, OneOrderLess
  <2> QED BY <1>1, <1>4, <1>5, <1>6, <1>10, <2>1, <2>2
<1> QED BY <1>8, <1>9, <1>10

LEMMA FillsKeeps ==
    ASSUME IInv, NEW i \in OrderIds, Fills(i)
    PROVE  IInv'
<1>1. /\ Working(i) /\ orders' = Ended(i, "filled")
      /\ UNCHANGED <<modeVars, row, phase, passVars, cache, faults>>
  BY DEF Fills
<1>2. /\ orders' \in [OrderIds -> OrderType]
      /\ \A j \in OrderIds : j # i => orders'[j] = orders[j]
      /\ i \in ToClose => orders'[i] = [orders[i] EXCEPT !.state = "filled"]
  BY <1>1, Ending DEF IInv
<1>3. \A l \in Legs :
         /\ held'[l] \in Nat
         /\ Cardinality(ClosingIn(orders', l)) <= held'[l]
         /\ Exposed(l)' <= Exposed(l)
         /\ ~orders[i].opens /\ l \in orders[i].legs => Exposed(l)' = Exposed(l) - 1
  BY FillMoves
<1>4. TypeOK'
  <2>1. held' \in [Legs -> Nat]
    <3>1. held' = [l \in Legs |-> held'[l]]
      BY DEF Fills
    <3> QED BY <1>3, <3>1
  <2> QED BY <1>1, <1>2, <2>1 DEF IInv, TypeOK, modeVars, passVars
<1>5. Reserved' /\ PassInv'
  BY <1>1, <1>3 DEF IInv, Reserved, PassInv, passVars
<1>6. \A l \in Legs : Exposed(l) \in Nat /\ Exposed(l)' \in Nat
  BY <1>4, ExposedIsNat DEF IInv
<1>7. \A l : ShortOwn(l)' = ShortOwn(l) /\ WingOwn(l)' = WingOwn(l)
  BY <1>1 DEF ShortOwn, WingOwn, Sold, Tries, passVars
<1>8. Bounded'
  <2>1. faults \in Nat /\ (1 + MaxTries) * faults \in Nat
    BY BoundsAssumption, Product DEF IInv, TypeOK
  <2>2. \A l : ShortOwn(l) \in Nat /\ WingOwn(l) \in Nat
    BY Ownership DEF IInv, TypeOK, PassTypes
  <2>3. \A l \in Shorts : Exposed(l)' <= faults' + ShortOwn(l)'
    BY <1>1, <1>3, <1>6, <1>7, <2>1, <2>2, LegsFacts DEF IInv, Bounded
  <2>4. \A l \in Wings : Exposed(l)' <= (1 + MaxTries) * faults' + WingOwn(l)'
    <3> DEFINE k == (1 + MaxTries) * faults
    <3>1. \A l \in Wings : Exposed(l) <= k + WingOwn(l)
      BY DEF IInv, Bounded
    <3>2. k \in Nat /\ faults' = faults
      BY <1>1, <2>1
    <3> HIDE DEF k
    <3>3. \A l \in Wings : Exposed(l)' <= k + WingOwn(l)'
      BY <1>3, <1>6, <1>7, <2>2, <3>1, <3>2, LegsFacts
    <3> QED BY <3>2, <3>3 DEF k
  <2> QED BY <2>3, <2>4 DEF Bounded
<1>9. \A l \in Shorts : faults = 0 /\ Exposed(l) = 0 => Exposed(l)' = 0
  BY <1>3, <1>6, LegsFacts
<1>10. ASSUME NEW r \in {row, mem}
       PROVE  PointsAtCloses(r)' /\ ClosesLeaveNothing(r)'
  <2>1. PointsAtCloses(r) /\ ClosesLeaveNothing(r)
    BY DEF IInv, Pointers
  <2>2. ASSUME NEW l \in Legs, r.closing[l] # NoOrder
        PROVE  /\ orders'[r.closing[l]].state # "free"
               /\ ~orders'[r.closing[l]].opens
               /\ l \in orders'[r.closing[l]].legs
               /\ faults = 0 /\ l \in Shorts /\ orders'[r.closing[l]].state = "filled" => Exposed(l)' = 0
    <3>1. r.closing[l] \in ToClose \cap OrderIds
      BY <2>2 DEF ToClose, IInv, TypeOK, RowType
    <3>2. CASE r.closing[l] # i
      BY <1>2, <1>9, <2>1, <2>2, <3>1, <3>2 DEF PointsAtCloses, ClosesLeaveNothing
    <3>3. CASE r.closing[l] = i
      <4>1. ~orders[i].opens /\ l \in orders[i].legs
        BY <2>1, <2>2, <3>3 DEF PointsAtCloses
      <4>2. orders'[i].state = "filled" /\ ~orders'[i].opens /\ l \in orders'[i].legs
        BY <1>2, <3>1, <3>3, <4>1 DEF IInv, TypeOK, OrderType
      <4>3. ASSUME faults = 0, l \in Shorts
            PROVE  Exposed(l)' = 0
        <5>1. Exposed(l) <= 0 + ShortOwn(l) /\ ShortOwn(l) \in 0..1
          BY <4>3, OwnBounds DEF IInv, Bounded
        <5>2. Exposed(l)' = Exposed(l) - 1
          BY <1>3, <4>1
        <5> QED BY <1>6, <5>1, <5>2
      <4> QED BY <3>3, <4>2, <4>3
    <3> QED BY <3>2, <3>3
  <2>3. r.status = "CLOSED" /\ r.basis = "fills" /\ faults = 0 => \A l \in Shorts : Exposed(l)' = 0
    BY <1>9, <2>1 DEF ClosesLeaveNothing
  <2> QED BY <1>1, <2>2, <2>3, LegsFacts DEF PointsAtCloses, ClosesLeaveNothing
<1>11. Pointers'
  BY <1>1, <1>10 DEF Pointers, passVars
<1> QED BY <1>4, <1>5, <1>8, <1>11 DEF IInv

-----------------------------------------------------------------------------
(* The theorems *)

LEMMA StutterKeeps == IInv /\ UNCHANGED vars => IInv'
<1> SUFFICES ASSUME IInv, UNCHANGED vars PROVE Moves({})
  BY MovesKeep
<1>1. UNCHANGED <<modeVars, brokerVars, row, phase, passVars, cache, faults>>
  BY DEF vars
<1>2. PassTypes' /\ PassInv'
  BY <1>1 DEF PassTypes, PassInv, IInv, TypeOK, modeVars, passVars
<1>3. Grants({})
  BY <1>1, <1>2, SteadyGrants, Ownership DEF ShortOwn, WingOwn, Sold, Tries, passVars
<1>4. Traced({})
  BY <1>1, OldInherits DEF Traced, passVars
<1> QED BY <1>1, <1>2, <1>3, <1>4, StillOrderly DEF Moves

LEMMA NextKeeps == IInv /\ [Next]_vars => IInv'
<1> SUFFICES ASSUME IInv, [Next]_vars PROVE IInv'
  OBVIOUS
<1>1. CASE Remedies
  BY <1>1, RemediateNakedKeeps, RebuyTakenKeeps, RebuyRefusedKeeps, RemedyRaisesKeeps, CoverKeeps
     DEF Remedies
<1>2. CASE Manage
  <2>1. CASE CloseAtomicRaises
    BY <2>1, CloseRaisesKeeps DEF CloseAtomicRaises
  <2>2. ASSUME NEW l \in Legs, CloseLegRaises(l) PROVE IInv'
    BY <2>2, CloseRaisesKeeps DEF CloseLegRaises
  <2> QED BY <1>2, <2>1, <2>2, HoldKeeps, DeferKeeps, CloseAtomicKeeps, CloseAtomicRefusedKeeps,
             CloseLeggedKeeps, CloseLegTakenKeeps, CloseLegRefusedKeeps, MarkClosedKeeps DEF Manage
<1>3. CASE Open
  BY <1>3, SkipOpenKeeps, OpenAtomicKeeps, OpenRaisesKeeps, OpenLeggedKeeps, OpenLegTakenKeeps,
     OpenLegRefusedKeeps, AppendKeeps DEF Open
<1>4. CASE Cycle
  BY <1>1, <1>2, <1>3, <1>4, ReadFillsKeeps, NoFillsKeeps, RecordFillsKeeps, WriteKeeps,
     ReadClosesKeeps, ResolveNothingKeeps, ConfirmCloseKeeps, RevertCloseKeeps DEF Cycle
<1>5. ASSUME NEW i \in OrderIds, Fills(i) \/ Dies(i) PROVE IInv'
  BY <1>5, FillsKeeps, DiesKeeps
<1> QED BY <1>4, <1>5, CrashKeeps, StutterKeeps DEF Next

\* CondorBook is type correct: however orders fill, die and are closed again by
\* the repair and by the cycle, no leg is closed below zero, and no row counts
\* more than MAX_NAKED_REMEDIATION_ATTEMPTS tries (_remediate_naked).
THEOREM TypeCorrect == Spec => []TypeOK
<1>1. Spec => []IInv
  BY InitInv, NextKeeps, PTL DEF Spec
<1>2. IInv => TypeOK
  BY DEF IInv
<1> QED BY <1>1, <1>2, PTL

\* No leg is sold or bought beyond the one condor, the tries of its repair
\* and what lost answers, half-refused opens and crashes double
\* (open_positions, _remediate_naked).
THEOREM LegsBounded == Spec => []LegsAreBounded
<1>1. Spec => []IInv
  BY InitInv, NextKeeps, PTL DEF Spec
<1>2. IInv => LegsAreBounded
  <2> SUFFICES ASSUME IInv, NEW s \in Sides
               PROVE  /\ Exposed(Short(s)) <= 1 + faults
                      /\ Exposed(Wing(s)) <= (1 + MaxTries) * (1 + faults)
    BY DEF LegsAreBounded
  <2>1. Short(s) \in Shorts /\ Wing(s) \in Wings
    BY DEF Shorts, Wings
  <2>2. /\ Exposed(Short(s)) <= faults + ShortOwn(Short(s))
        /\ Exposed(Wing(s)) <= (1 + MaxTries) * faults + WingOwn(Wing(s))
    BY <2>1 DEF IInv, Bounded
  <2>3. ShortOwn(Short(s)) \in 0..1 /\ WingOwn(Wing(s)) \in 0..(1 + MaxTries)
    BY OwnBounds
  <2>4. Exposed(Short(s)) \in Nat /\ Exposed(Wing(s)) \in Nat
    BY <2>1, LegsFacts, ExposedIsNat DEF IInv
  <2>5. faults \in Nat /\ MaxTries \in Nat
    BY BoundsAssumption DEF IInv, TypeOK
  <2> DEFINE k == 1 + MaxTries
  <2>6. k \in Nat /\ k * faults \in Nat /\ k * (faults + 1) = k * faults + k
    BY <2>5, Product
  <2>7. k * (1 + faults) = k * faults + k
    BY <2>5, <2>6
  <2>8. Exposed(Wing(s)) <= k * faults + WingOwn(Wing(s)) /\ WingOwn(Wing(s)) \in 0..k
    BY <2>2, <2>3
  <2> HIDE DEF k
  <2>9. Exposed(Wing(s)) <= k * (1 + faults)
    BY <2>4, <2>6, <2>7, <2>8
  <2>10. Exposed(Wing(s)) <= (1 + MaxTries) * (1 + faults)
    BY <2>9 DEF k
  <2> QED BY <2>2, <2>3, <2>4, <2>5, <2>10
<1> QED BY <1>1, <1>2, PTL

\* A close the fills confirm leaves no short behind, unless a fault had sold
\* a second one: the orders the row points at are never recycled, and each had
\* the one lot there was reserved (_close_fill_debit, reconcile_closes).
THEOREM FillsLeaveNoShort == Spec => []FillsMeanNoShort
<1>1. Spec => []IInv
  BY InitInv, NextKeeps, PTL DEF Spec
<1>2. IInv => FillsMeanNoShort
  <2> SUFFICES ASSUME IInv, row.status = "CLOSED", row.basis = "fills", faults = 0,
                      NEW l \in Shorts
               PROVE  held[l] = 0
    BY DEF FillsMeanNoShort, Faultless
  <2>1. Exposed(l) = 0
    BY DEF IInv, Pointers, ClosesLeaveNothing
  <2>2. held[l] \in Nat
    BY LegsFacts DEF IInv, TypeOK
  <2> QED BY <2>1, <2>2, ExposedIs, SetsOfOrders
<1> QED BY <1>1, <1>2, PTL

-----------------------------------------------------------------------------
(* Atomic orders *)

Legged == {"rebuy", "cover", "close", "leg"}

\* With atomic orders the broker has whole condors only, so that every
\* snapshot of the positions shows all legs or none and no pass works leg by
\* leg.
Whole ==
    /\ \A i \in OrderIds : Working(i) => orders[i].legs = Legs
    /\ \A l, m \in Legs : held[l] = held[m]
    /\ seen \in {{}, Legs} /\ cache \subseteq {{}, Legs}
    /\ phase \notin Legged /\ after \notin Legged

AtomicInv == atomic => Whole

LEMMA WholeReads ==
    ASSUME Whole
    PROVE  /\ HeldLegs \in {{}, Legs} /\ Cached \subseteq {{}, Legs}
           /\ NakedSides = {}
<1>1. HeldLegs \in {{}, Legs}
  BY DEF Whole, HeldLegs
<1>2. \A s \in Sides : Wing(s) \in Legs
  BY LegsFacts DEF Wings
<1> QED BY <1>1, <1>2 DEF Cached, Unread, NakedSides, Whole

LEMMA WholeBooked ==
    ASSUME TypeOK, Whole, NEW i \in OrderIds, NEW opens, Books(i, Legs, opens)
    PROVE  \A j \in OrderIds : Working(j)' => orders'[j].legs = Legs
BY DEF TypeOK, Whole, Books, BooksInto, Working

LEMMA WholeLost ==
    ASSUME TypeOK, Whole, NEW opens, LosesAnswer(Legs, opens)
    PROVE  \A j \in OrderIds : Working(j)' => orders'[j].legs = Legs
<1>1. CASE UNCHANGED orders
  BY <1>1 DEF Whole, Working
<1>2. CASE \E i \in OrderIds : Books(i, Legs, opens)
  BY <1>2, WholeBooked
<1> QED BY <1>1, <1>2 DEF LosesAnswer

LEMMA WholeEnds ==
    ASSUME TypeOK, Whole, NEW i \in OrderIds, Working(i), NEW how \in {"filled", "dead"},
           orders' = Ended(i, how)
    PROVE  \A j \in OrderIds : Working(j)' => orders'[j].legs = Legs
<1>1. /\ \A j \in OrderIds : j # i => orders'[j] = orders[j]
      /\ orders'[i].state # "working"
  BY Ending
<1> QED BY <1>1 DEF Whole, Working

LEMMA WholeMarket ==
    ASSUME TypeOK, Whole, NEW i \in OrderIds, Fills(i) \/ Dies(i)
    PROVE  Whole'
<1>1. Working(i) /\ orders[i].legs = Legs
  BY DEF Fills, Dies, Whole
<1>2. \A j \in OrderIds : Working(j)' => orders'[j].legs = Legs
  BY <1>1, WholeEnds DEF Fills, Dies
<1>3. \A l, m \in Legs : held'[l] = held'[m]
  <2>1. CASE Dies(i)
    BY <2>1 DEF Dies, Whole
  <2>2. CASE Fills(i)
    <3>1. \A l \in Legs : held'[l] = IF orders[i].opens THEN held[l] + 1 ELSE held[l] - 1
      BY <1>1, <2>2 DEF Fills
    <3> QED BY <3>1 DEF Whole
  <2> QED BY <2>1, <2>2
<1>4. UNCHANGED <<phase, passVars, cache>>
  BY DEF Fills, Dies
<1> QED BY <1>2, <1>3, <1>4 DEF Whole, passVars

\* What the steps that send no order show.
LEMMA WholeStill ==
    ASSUME Whole, UNCHANGED brokerVars, seen' \in {{}, Legs}, cache' \subseteq {{}, Legs},
           phase' \notin Legged, after' \notin Legged
    PROVE  Whole'
BY DEF Whole, brokerVars, Working

LEMMA WholeSent ==
    ASSUME Whole, \A j \in OrderIds : Working(j)' => orders'[j].legs = Legs, held' = held,
           seen' \in {{}, Legs}, cache' \subseteq {{}, Legs},
           phase' \notin Legged, after' \notin Legged
    PROVE  Whole'
BY DEF Whole

LEMMA WholeFills ==
    ASSUME Whole, ReadFills \/ NoFills \/ RecordFills \/ Remedies
    PROVE  Whole'
<1>1. CASE ReadFills
  <2>1. seen' \in {{}, Legs} /\ cache' \subseteq {{}, Legs}
    BY <1>1, WholeReads DEF ReadFills, Whole
  <2> QED BY <1>1, <2>1, WholeStill DEF ReadFills, Legged, Whole
<1>2. CASE NoFills
  BY <1>2, WholeStill DEF NoFills, Leave, Legged, Whole
<1>3. CASE RecordFills
  BY <1>3, WholeStill DEF RecordFills, Leave, Save, Legged, Whole
<1>4. ~Remedies
  BY WholeReads DEF Remedies, RemediateNaked, RebuyTaken, RebuyRefused, RemedyRaises, CoverTaken,
     CoverRefused, Whole, Legged
<1> QED BY <1>1, <1>2, <1>3, <1>4

LEMMA WholeManage ==
    ASSUME TypeOK, Whole, atomic, Manage
    PROVE  Whole'
<1>1. CASE Hold
  BY <1>1, WholeStill DEF Hold, Leave, Legged, Whole
<1>2. CASE Defer
  BY <1>2, WholeStill DEF Defer, Save, Legged, Whole
<1>3. CASE CloseAtomicRefused
  BY <1>3, WholeStill DEF CloseAtomicRefused, Save, Legged, Whole
<1>4. CASE MarkClosed
  BY <1>4, WholeStill DEF MarkClosed, Save, Legged, Whole
<1>5. CASE CloseAtomic
  <2>1. \A j \in OrderIds : Working(j)' => orders'[j].legs = Legs
    BY <1>5, WholeBooked DEF CloseAtomic
  <2>2. /\ held' = held /\ seen' = seen /\ cache' = cache /\ after' = after
        /\ phase' \notin Legged
    BY <1>5 DEF CloseAtomic, Legged
  <2> QED BY <2>1, <2>2, WholeSent DEF Whole
<1>6. CASE CloseAtomicRaises
  <2>1. \A j \in OrderIds : Working(j)' => orders'[j].legs = Legs
    BY <1>6, WholeLost DEF CloseAtomicRaises
  <2>2. /\ held' = held /\ seen' = {} /\ cache' = {} /\ after' = after
        /\ phase' \notin Legged
    BY <1>6 DEF CloseAtomicRaises, Abandon, Unread, Legged
  <2> QED BY <2>1, <2>2, WholeSent DEF Whole
<1>7. ~CloseLegged /\ \A l \in Legs : ~CloseLegTaken(l) /\ ~CloseLegRefused(l) /\ ~CloseLegRaises(l)
  BY DEF CloseLegged, CloseLegTaken, CloseLegRefused, CloseLegRaises, Whole, Legged
<1> QED BY <1>1, <1>2, <1>3, <1>4, <1>5, <1>6, <1>7 DEF Manage

LEMMA WholeCloses ==
    ASSUME Whole, Write \/ ReadCloses \/ ResolveNothing \/ ConfirmClose \/ RevertClose
    PROVE  Whole'
<1>1. CASE Write
  BY <1>1, WholeStill DEF Write, Legged, Whole
<1>2. CASE ReadCloses
  <2>1. seen' \in {{}, Legs}
    BY <1>2, WholeReads DEF ReadCloses, BrokerFills, Whole
  <2> QED BY <1>2, <2>1, WholeStill DEF ReadCloses, Unread, Legged, Whole
<1>3. CASE ResolveNothing
  BY <1>3, WholeStill DEF ResolveNothing, Leave, Legged, Whole
<1>4. CASE ConfirmClose
  BY <1>4, WholeStill DEF ConfirmClose, Save, Legged, Whole
<1>5. CASE RevertClose
  BY <1>5, WholeStill DEF RevertClose, Save, Legged, Whole
<1> QED BY <1>1, <1>2, <1>3, <1>4, <1>5

LEMMA WholeOpen ==
    ASSUME TypeOK, Whole, atomic, Open
    PROVE  Whole'
<1>1. CASE SkipOpen
  BY <1>1, WholeStill DEF SkipOpen, EndCycle, Unread, Legged, Whole
<1>2. CASE Append
  BY <1>2, WholeStill DEF Append, EndCycle, Unread, Legged, Whole
<1>3. CASE OpenAtomic
  <2>1. \A j \in OrderIds : Working(j)' => orders'[j].legs = Legs
    BY <1>3, WholeBooked DEF OpenAtomic
  <2>2. /\ held' = held /\ seen' = seen /\ cache' = cache /\ after' = after
        /\ phase' \notin Legged
    BY <1>3 DEF OpenAtomic, Legged
  <2> QED BY <2>1, <2>2, WholeSent DEF Whole
<1>4. CASE OpenAtomicRaises
  <2>1. \A j \in OrderIds : Working(j)' => orders'[j].legs = Legs
    BY <1>4, WholeLost DEF OpenAtomicRaises
  <2>2. /\ held' = held /\ seen' = {} /\ cache' = {} /\ after' = after
        /\ phase' \notin Legged
    BY <1>4 DEF OpenAtomicRaises, Abandon, Unread, Legged
  <2> QED BY <2>1, <2>2, WholeSent DEF Whole
<1>5. /\ ~OpenLegged
      /\ \A l \in Legs : /\ \A i \in OrderIds : ~OpenLegTaken(l, i)
                         /\ ~OpenLegRefused(l) /\ ~OpenLegRaises(l)
  BY DEF OpenLegged, OpenLegTaken, OpenLegRefused, OpenLegRaises, Whole, Legged
<1> QED BY <1>1, <1>2, <1>3, <1>4, <1>5 DEF Open

LEMMA ModesStay == [Next]_vars => UNCHANGED modeVars
<1> SUFFICES ASSUME [Next]_vars PROVE UNCHANGED modeVars
  OBVIOUS
<1>1. CASE Remedies
  BY <1>1 DEF Remedies, RemediateNaked, RebuyTaken, RebuyRefused, RemedyRaises, CoverTaken,
     CoverRefused
<1>2. CASE Manage
  BY <1>2 DEF Manage, Hold, Defer, CloseAtomic, CloseAtomicRefused, CloseAtomicRaises, CloseLegged,
     CloseLegTaken, CloseLegRefused, CloseLegRaises, MarkClosed
<1>3. CASE Open
  BY <1>3 DEF Open, SkipOpen, OpenAtomic, OpenAtomicRaises, OpenLegged, OpenLegTaken,
     OpenLegRefused, OpenLegRaises, Append
<1>4. CASE Cycle
  BY <1>1, <1>2, <1>3, <1>4 DEF Cycle, ReadFills, NoFills, RecordFills, Write, ReadCloses,
     ResolveNothing, ConfirmClose, RevertClose
<1>5. CASE (\E i \in OrderIds : Fills(i) \/ Dies(i)) \/ Crash \/ UNCHANGED vars
  BY <1>5 DEF Fills, Dies, Crash, vars
<1> QED BY <1>4, <1>5 DEF Next

LEMMA AtomicKept == IInv /\ AtomicInv /\ [Next]_vars => AtomicInv'
<1> SUFFICES ASSUME IInv, AtomicInv, [Next]_vars, atomic' PROVE Whole'
  BY DEF AtomicInv
<1>1. atomic /\ Whole /\ TypeOK
  BY ModesStay DEF modeVars, AtomicInv, IInv
<1>2. CASE Cycle
  BY <1>1, <1>2, WholeFills, WholeManage, WholeCloses, WholeOpen DEF Cycle
<1>3. CASE \E i \in OrderIds : Fills(i) \/ Dies(i)
  BY <1>1, <1>3, WholeMarket
<1>4. CASE Crash
  BY <1>1, <1>4, WholeStill DEF Crash, Unread, Legged
<1>5. CASE UNCHANGED vars
  BY <1>1, <1>5, WholeStill DEF vars, passVars, Whole
<1> QED BY <1>2, <1>3, <1>4, <1>5 DEF Next

\* With atomic orders no short is ever without its wing, whatever fills,
\* dies, is lost or crashes (reconcile_fills, _remediate_naked).
THEOREM AtomicIsNeverNaked == Spec => []AtomicNeverNaked
<1>1. Init => AtomicInv
  BY DEF Init, AtomicInv, Whole, Working, FreeOrder, Unread, Legged
<1>2. Spec => []AtomicInv
  BY InitInv, NextKeeps, AtomicKept, <1>1, PTL DEF Spec
<1>3. IInv /\ AtomicInv => AtomicNeverNaked
  <2> SUFFICES ASSUME IInv, Whole, NEW s \in Sides PROVE ~Naked(s)
    BY DEF AtomicInv, AtomicNeverNaked
  <2>1. Short(s) \in Legs /\ Wing(s) \in Legs
    BY LegsFacts DEF Shorts, Wings
  <2>2. held[Short(s)] = held[Wing(s)] /\ held[Short(s)] \in Nat
    BY <2>1 DEF Whole, IInv, TypeOK
  <2> QED BY <2>2 DEF Naked
<1> QED BY InitInv, NextKeeps, <1>2, <1>3, PTL DEF Spec
=============================================================================
