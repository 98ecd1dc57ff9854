------------------------- MODULE MomentumBookProofs -------------------------
(***************************************************************************)
(* For every lot, set of prices and number of rows, orders, faults and     *)
(* restarts: MomentumBook is type correct, its ladder only climbs, only    *)
(* rows whose order never reached the book are voided, every exit order    *)
(* the broker took is on its row unless an answer or a pass was lost, and  *)
(* a result taken from fills is that of a position sold in full.           *)
(***************************************************************************)
EXTENDS MomentumBook, FiniteSetTheorems, TLAPS

\* decide always finds how far the price has gone, and never goes back.
LEMMA ReachedIsAhead ==
    ASSUME NEW filled \in 0..Targets, NEW p \in Int
    PROVE  Reached(filled, p) \in filled..Targets
<1> DEFINE n == IF filled = 3 \/ p >= 9 THEN 3
                ELSE IF filled = 2 \/ p >= 6 THEN 2
                ELSE IF filled = 1 \/ p >= 3 THEN 1 ELSE 0
<1>1. n \in filled..Targets /\ \A i \in (filled + 1)..n : p >= Target(i)
  BY DEF Targets, Target
<1>2. n < Targets => p < Target(n + 1)
  BY DEF Targets, Target
<1> QED BY <1>1, <1>2 DEF Reached

\* An open row has banked a slice for each target and holds the others; a row
\* that is not opened yet has banked nothing.
RowShape(row) ==
    /\ row.status = "OPEN" => row.left = Slices - row.tps /\ row.realized = row.tps
    /\ row.status = "NONE" => row.left = Slices /\ row.tps = 0

Shapes(ledger) == \A r \in Rows : RowShape(ledger[r])

Managing == {"mark", "count", "scale", "close", "commit"}
Mirroring == {"count", "scale", "close", "commit"}

\* The manager comes to open rows only, and mirrors the exit of one of them, on
\* its way to the targets it banks.
PassInv ==
    /\ phase \in Managing => \A r \in todo : mem[r].status = "OPEN"
    /\ phase \in Mirroring => /\ call.row \in todo
                              /\ mem[call.row].tps <= call.next
                              /\ call.next <= call.reached

IInv == TypeOK /\ Shapes(rows) /\ Shapes(mem) /\ PassInv

-----------------------------------------------------------------------------

USE RowsAssumption, LotAssumption, OrdersAssumption, BoundsAssumption, NothingAssumption

LEMMA NewRowFacts == NewRow \in RowType /\ RowShape(NewRow) /\ NoRows \in [Rows -> RowType] /\ Shapes(NoRows)
BY DEF NewRow, RowType, RowShape, NoRows, Shapes, Slices, Targets

LEMMA NoCallFacts == NoCall \in CallType
BY DEF NoCall, CallType, Targets

LEMMA InitTypes == Init => IInv
<1> SUFFICES ASSUME Init PROVE IInv
  OBVIOUS
<1>1. rows \in [Rows -> RowType] /\ mem \in [Rows -> RowType] /\ Shapes(rows) /\ Shapes(mem)
  BY NewRowFacts DEF Init
<1>2. /\ entry \in [Rows -> {"none", "working", "filled", "dead"}]
      /\ exits \in [OrderIds -> [state : {"unsent", "working", "filled", "dead"},
                                 qty : Nat, row : Rows \cup {Nothing}]]
  BY DEF Init
<1>3. /\ held \in Nat /\ price \in Prices /\ aged \in BOOLEAN /\ phase \in Phases
      /\ todo \in SUBSET Rows /\ dirty \in BOOLEAN /\ call \in CallType
  BY NoCallFacts DEF Init, Phases
<1>4. /\ seen \in [readable : BOOLEAN, qty : Nat]
      /\ faults \in 0..MaxFaults /\ crashes \in 0..MaxCrashes
  BY DEF Init, Unseen
<1>5. PassInv
  BY DEF Init, PassInv, Managing, Mirroring
<1> QED
  BY <1>1, <1>2, <1>3, <1>4, <1>5 DEF TypeOK, IInv

LEMMA FaultsFacts ==
    ASSUME faults \in 0..MaxFaults, NEW fine \in BOOLEAN, Faults(fine)
    PROVE  faults' \in 0..MaxFaults
BY DEF Faults

-----------------------------------------------------------------------------
(* The broker, the market, the operator and the restart. *)

LEMMA BrokerTypes == IInv /\ Broker => IInv'
<1> SUFFICES ASSUME IInv, Broker PROVE IInv'
  OBVIOUS
<1> DEFINE OrdersTyped ==
        /\ entry \in [Rows -> {"none", "working", "filled", "dead"}]
        /\ exits \in [OrderIds -> [state : {"unsent", "working", "filled", "dead"},
                                   qty : Nat, row : Rows \cup {Nothing}]]
<1>1. OrdersTyped /\ held \in Nat /\ faults \in 0..MaxFaults
  BY DEF IInv, TypeOK
<1>2. OrdersTyped' /\ held' \in Nat
  <2>1. ASSUME NEW r \in Rows, EntryFills(r) PROVE OrdersTyped' /\ held' \in Nat
    <3>1. OrdersTyped'
      BY <1>1, <2>1 DEF EntryFills
    <3>2. held' \in Nat
      BY <1>1, <2>1 DEF EntryFills
    <3> QED
      BY <3>1, <3>2
  <2>2. ASSUME NEW r \in Rows, EntryDies(r) PROVE OrdersTyped' /\ held' \in Nat
    BY <1>1, <2>2 DEF EntryDies
  <2>3. ASSUME NEW o \in OrderIds, ExitFills(o) PROVE OrdersTyped' /\ held' \in Nat
    <3>1. OrdersTyped'
      BY <1>1, <2>3 DEF ExitFills
    <3>2. held' \in Nat
      BY <1>1, <2>3 DEF ExitFills
    <3> QED
      BY <3>1, <3>2
  <2>4. ASSUME NEW o \in OrderIds, ExitDies(o) PROVE OrdersTyped' /\ held' \in Nat
    BY <1>1, <2>4 DEF ExitDies
  <2>5. CASE StopFires
    BY <1>1, <2>5 DEF StopFires
  <2> QED
    BY <2>1, <2>2, <2>3, <2>4, <2>5 DEF Broker
<1>3. UNCHANGED <<rows, worldVars, phase, passVars, crashes>>
  BY DEF Broker, EntryFills, EntryDies, ExitFills, ExitDies, StopFires
<1>4. faults' \in 0..MaxFaults
  BY <1>1 DEF Broker, EntryFills, EntryDies, ExitFills, ExitDies, StopFires, Faults
<1> QED
  BY <1>2, <1>3, <1>4 DEF IInv, TypeOK, Shapes, RowShape, PassInv, worldVars, passVars

LEMMA MarketTypes == IInv /\ (PriceMoves \/ DaysPass) => IInv'
<1> SUFFICES ASSUME IInv, PriceMoves \/ DaysPass PROVE IInv'
  OBVIOUS
<1>1. price' \in Prices /\ aged' \in BOOLEAN
  BY DEF PriceMoves, DaysPass, IInv, TypeOK
<1>2. UNCHANGED <<rows, brokerVars, phase, passVars, faults, crashes>>
  BY DEF PriceMoves, DaysPass
<1> QED
  BY <1>1, <1>2 DEF IInv, TypeOK, Shapes, RowShape, PassInv, brokerVars, passVars

\* A step that changes the ledger, and neither the broker nor the pass.
LEMMA RowsTypes ==
    ASSUME IInv, rows' \in [Rows -> RowType], Shapes(rows)',
           phase' \in Phases \ Managing \/ phase' = phase, aged' \in BOOLEAN,
           faults' \in 0..MaxFaults,
           UNCHANGED <<brokerVars, price, passVars, crashes>>
    PROVE  IInv'
BY DEF IInv, TypeOK, Shapes, RowShape, PassInv, Managing, Mirroring, brokerVars, passVars

LEMMA CloseLatestTypes == IInv /\ CloseLatest => IInv'
<1> SUFFICES ASSUME IInv, CloseLatest PROVE IInv'
  OBVIOUS
<1>1. PICK r \in Rows : rows' = [rows EXCEPT ![r].status = "CLOSED", ![r].realized = rows[r].left]
  BY DEF CloseLatest
<1>2. rows \in [Rows -> RowType] /\ rows[r] \in RowType
  BY DEF IInv, TypeOK
<1>3. rows' \in [Rows -> RowType]
  BY <1>1, <1>2 DEF RowType
<1>4. rows'[r].status = "CLOSED" /\ \A s \in Rows \ {r} : rows'[s] = rows[s]
  BY <1>1, <1>2 DEF RowType
<1>5. Shapes(rows)'
  BY <1>4 DEF IInv, Shapes, RowShape
<1>6. UNCHANGED <<brokerVars, worldVars, phase, passVars, faults, crashes>>
  BY DEF CloseLatest
<1> QED
  BY <1>3, <1>5, <1>6, RowsTypes DEF IInv, TypeOK, worldVars

LEMMA CrashTypes == IInv /\ Crash => IInv'
<1> SUFFICES ASSUME IInv, Crash PROVE IInv'
  OBVIOUS
<1>1. UNCHANGED <<rows, brokerVars, worldVars, faults>> /\ crashes' \in 0..MaxCrashes
  BY DEF Crash, IInv, TypeOK
<1>2. phase' = "manage" /\ todo' = {} /\ dirty' = FALSE /\ call' = NoCall /\ mem' = NoRows /\ seen' = Unseen
  BY DEF Crash
<1> QED
  BY <1>1, <1>2, NewRowFacts, NoCallFacts
     DEF IInv, TypeOK, Shapes, PassInv, Managing, Mirroring, Phases, Unseen, brokerVars, worldVars

-----------------------------------------------------------------------------
(* manage_open_positions. *)

LEMMA OrderFacts ==
    ASSUME TypeOK, NEW qty \in Nat, NEW r \in Rows, Accepts(qty, r)
    PROVE  /\ NextOrder \in OrderIds
           /\ exits' \in [OrderIds -> [state : {"unsent", "working", "filled", "dead"},
                                       qty : Nat, row : Rows \cup {Nothing}]]
<1>1. NextOrder \in OrderIds
  BY DEF Accepts, NextOrder, Unsent
<1> QED
  BY <1>1 DEF Accepts, TypeOK

\* A step that changes the pass and the exits, and nothing else.
LEMMA PassTypes ==
    ASSUME IInv, mem' \in [Rows -> RowType], Shapes(mem)', call' \in CallType,
           exits' \in [OrderIds -> [state : {"unsent", "working", "filled", "dead"},
                                   qty : Nat, row : Rows \cup {Nothing}]],
           todo' \in SUBSET Rows, dirty' \in BOOLEAN, phase' \in Phases,
           faults' \in 0..MaxFaults, PassInv',
           UNCHANGED <<rows, entry, held, worldVars, seen, crashes>>
    PROVE  IInv'
BY DEF IInv, TypeOK, Shapes, RowShape, worldVars

LEMMA ReadTypes == IInv /\ (ManageReads \/ ManageSkips) => IInv'
<1> SUFFICES ASSUME IInv, ManageReads \/ ManageSkips PROVE IInv'
  OBVIOUS
<1>1. CASE ManageReads
  <2>1. mem' \in [Rows -> RowType] /\ Shapes(mem)' /\ todo' \in SUBSET Rows /\ dirty' \in BOOLEAN
    BY <1>1 DEF ManageReads, IInv, TypeOK, Shapes, RowShape, Open
  <2>2. phase' = "mark" /\ \A r \in todo' : mem'[r].status = "OPEN"
    BY <1>1 DEF ManageReads, ToPhase, Open
  <2>3. UNCHANGED <<rows, brokerVars, worldVars, call, seen, faults, crashes>>
    BY <1>1 DEF ManageReads
  <2> QED
    BY <2>1, <2>2, <2>3, PassTypes
       DEF IInv, TypeOK, PassInv, Managing, Mirroring, Phases, brokerVars
<1>2. CASE ManageSkips
  BY <1>2 DEF ManageSkips, ToPhase, IInv, TypeOK, Shapes, RowShape, PassInv, Managing, Mirroring,
     Phases, brokerVars, worldVars, passVars
<1> QED
  BY <1>1, <1>2

LEMMA PriceFacts == IInv => price \in Int
BY PricesAssumption DEF IInv, TypeOK

LEMMA EnsuredFacts ==
    ASSUME NEW row \in RowType
    PROVE  /\ Ensured(row) \in RowType
           /\ Ensured(row).status = row.status /\ Ensured(row).tps = row.tps
           /\ Ensured(row).left = row.left /\ Ensured(row).realized = row.realized
BY DEF Ensured, RowType

\* A row of the pass is replaced by one of the same shape.
LEMMA RowReplaced ==
    ASSUME IInv, NEW r \in Rows, NEW row \in RowType, RowShape(row),
           mem' = [mem EXCEPT ![r] = row]
    PROVE  mem' \in [Rows -> RowType] /\ Shapes(mem)'
BY DEF IInv, TypeOK, Shapes, RowShape

LEMMA MarkTypes ==
    ASSUME IInv, NEW r \in Rows, MarkUnplanned(r) \/ MarkUnquoted(r) \/ MarkHolds(r) \/ MarkExits(r)
    PROVE  IInv'
<1>1. phase = "mark" /\ r \in todo /\ mem[r].status = "OPEN"
  BY DEF MarkUnplanned, MarkUnquoted, MarkHolds, MarkExits, NextRow, IInv, PassInv, Managing
<1>2. mem \in [Rows -> RowType] /\ mem[r] \in RowType /\ RowShape(mem[r]) /\ price \in Int
  BY PriceFacts DEF IInv, TypeOK, Shapes
<1> DEFINE row == Ensured(mem[r])
<1>3. row \in RowType /\ RowShape(row) /\ row.status = "OPEN" /\ row.tps = mem[r].tps
  BY <1>1, <1>2, EnsuredFacts DEF RowShape
<1> HIDE DEF row
<1>4. CASE MarkUnplanned(r)
  BY <1>4 DEF MarkUnplanned, IInv, TypeOK, Shapes, RowShape, PassInv, Managing, Mirroring,
     NextRow, brokerVars, worldVars
<1>5. CASE MarkUnquoted(r)
  <2>1. mem' = [mem EXCEPT ![r] = row] /\ dirty' = TRUE /\ todo' = todo \ {r}
    BY <1>5 DEF MarkUnquoted, row
  <2>2. UNCHANGED <<rows, brokerVars, worldVars, phase, call, seen, faults, crashes>>
    BY <1>5 DEF MarkUnquoted
  <2>3. PassInv'
    BY <1>1, <1>2, <2>1, <2>2 DEF IInv, PassInv, Managing, Mirroring
  <2>4. mem' \in [Rows -> RowType] /\ Shapes(mem)'
    BY <1>3, <2>1, RowReplaced
  <2> QED
    BY <2>1, <2>2, <2>3, <2>4, PassTypes DEF IInv, TypeOK, brokerVars
<1>6. CASE MarkHolds(r)
  <2> DEFINE moved == IF row.live THEN [row EXCEPT !.extreme = Extreme(row)] ELSE row
  <2>1. mem' = [mem EXCEPT ![r] = moved] /\ dirty' = TRUE /\ todo' = todo \ {r}
    BY <1>6 DEF MarkHolds, row
  <2>2. UNCHANGED <<rows, brokerVars, worldVars, phase, call, seen, faults, crashes>>
    BY <1>6 DEF MarkHolds
  <2>3. moved \in RowType /\ RowShape(moved)
    BY <1>2, <1>3 DEF RowType, RowShape, Extreme, Higher
  <2> HIDE DEF moved
  <2>4. PassInv'
    BY <1>1, <1>2, <2>1, <2>2 DEF IInv, PassInv, Managing, Mirroring
  <2>5. mem' \in [Rows -> RowType] /\ Shapes(mem)'
    BY <2>1, <2>3, RowReplaced
  <2> QED
    BY <2>1, <2>2, <2>4, <2>5, PassTypes DEF IInv, TypeOK, brokerVars
<1>7. CASE MarkExits(r)
  <2>1. mem' = [mem EXCEPT ![r] = row] /\ dirty' = TRUE /\ phase' \in {"count", "scale"}
        /\ call' = [row |-> r, reached |-> ReachedBy(row), next |-> row.tps,
                    closes |-> Closes(row), extreme |-> Extreme(row), booked |-> 0, ok |-> TRUE]
    BY <1>7 DEF MarkExits, ToPhase, row
  <2>2. UNCHANGED <<rows, brokerVars, worldVars, todo, seen, faults, crashes>>
    BY <1>7 DEF MarkExits
  <2>3. row.tps \in 0..Targets /\ row.extreme \in Int
    BY <1>3 DEF RowType
  <2>4. ReachedBy(row) \in row.tps..Targets
    BY <1>2, <2>3, ReachedIsAhead DEF ReachedBy
  <2>5. Closes(row) \in BOOLEAN /\ Extreme(row) \in Int
    BY <1>2, <2>3 DEF Closes, Extreme, Higher, IInv, TypeOK
  <2>6. call' \in CallType
    BY <2>1, <2>3, <2>4, <2>5 DEF CallType, Targets
  <2>7. mem' \in [Rows -> RowType] /\ Shapes(mem)' /\ mem'[r] = row
    BY <1>2, <1>3, <2>1, RowReplaced
  <2>8. \A s \in todo : mem'[s].status = "OPEN"
    BY <1>1, <1>2, <1>3, <2>1 DEF IInv, PassInv, Managing
  <2>9. PassInv'
    BY <1>1, <1>3, <2>1, <2>2, <2>3, <2>4, <2>7, <2>8 DEF PassInv, Managing, Mirroring, Targets
  <2> QED
    BY <2>1, <2>2, <2>6, <2>7, <2>9, PassTypes DEF IInv, TypeOK, Phases, brokerVars
<1> QED
  BY <1>4, <1>5, <1>6, <1>7

-----------------------------------------------------------------------------
(* The exit being mirrored. *)

\* Its row is open, and the exit is on the way to the targets it banks.
LEMMA CallFacts ==
    ASSUME IInv, phase \in Mirroring
    PROVE  /\ call \in CallType /\ call.row \in Rows /\ call.row \in todo
           /\ mem[call.row] \in RowType /\ mem[call.row].status = "OPEN"
           /\ RowShape(mem[call.row])
           /\ mem[call.row].tps <= call.next /\ call.next <= call.reached
           /\ call.next \in 0..Targets /\ call.reached \in 0..Targets
           /\ call.booked \in Nat
BY DEF IInv, TypeOK, Shapes, PassInv, Managing, Mirroring, CallType

\* The shares of a slice are a number of shares.
LEMMA ScaleFacts ==
    ASSUME NEW row \in RowType
    PROVE  ScaleShares(row) \in Nat
<1>1. row.original \in Int /\ row.fraction + 1 \in Int /\ row.banked \in Int
  BY DEF RowType
<1>2. row.original * (row.fraction + 1) \in Int
  BY <1>1
<1>3. TargetShares(row) \in Int
  BY <1>2 DEF TargetShares, Slices
<1>4. TargetShares(row) - row.banked \in Int
  BY <1>1, <1>3
<1> QED
  BY <1>4 DEF ScaleShares, Higher

LEMMA BankingFacts ==
    ASSUME NEW row \in RowType, NEW shares \in Nat, NEW accepted \in SUBSET OrderIds
    PROVE  /\ Banking(row, shares, accepted) \in RowType
           /\ Banking(row, shares, accepted).status = row.status
           /\ Banking(row, shares, accepted).tps = row.tps
           /\ Banking(row, shares, accepted).left = row.left
           /\ Banking(row, shares, accepted).realized = row.realized
<1>1. row.fraction + 1 \in Nat /\ row.banked + shares \in Nat /\ (row.orders \cup accepted) \in SUBSET OrderIds
  BY DEF RowType
<1>2. /\ Banking(row, shares, accepted) =
           [row EXCEPT !.fraction = row.fraction + 1, !.banked = row.banked + shares,
                       !.orders = row.orders \cup accepted]
  BY DEF Banking
<1>3. Banking(row, shares, accepted) \in RowType
  BY <1>1, <1>2 DEF RowType
<1> QED
  BY <1>2, <1>3 DEF RowType

\* A step of the mirror: the copy of the row keeps its state, and the exit
\* comes no closer than its targets.
LEMMA MirrorTypes ==
    ASSUME IInv, phase \in Mirroring, phase' \in Mirroring,
           NEW row \in RowType, mem' = [mem EXCEPT ![call.row] = row],
           row.status = mem[call.row].status, row.tps = mem[call.row].tps,
           row.left = mem[call.row].left, row.realized = mem[call.row].realized,
           call' \in CallType, call'.row = call.row, call'.reached = call.reached,
           call.next <= call'.next, call'.next <= call.reached,
           exits' \in [OrderIds -> [state : {"unsent", "working", "filled", "dead"},
                                   qty : Nat, row : Rows \cup {Nothing}]],
           faults' \in 0..MaxFaults,
           UNCHANGED <<rows, entry, held, worldVars, todo, dirty, seen, crashes>>
    PROVE  IInv'
<1>1. RowShape(row) /\ call.row \in Rows
  BY CallFacts DEF RowShape
<1>2. mem' \in [Rows -> RowType] /\ Shapes(mem)'
  BY <1>1, RowReplaced
<1>3. mem'[call.row] = row /\ \A s \in Rows : mem'[s].status = mem[s].status
  BY <1>1 DEF IInv, TypeOK
<1>4. PassInv'
  <2>1. \A r \in todo' : mem'[r].status = "OPEN"
    BY <1>3 DEF IInv, TypeOK, PassInv, Managing, Mirroring
  <2>2. call'.row \in todo'
    BY CallFacts
  <2>3. mem'[call'.row].tps <= call'.next
    <3>1. mem'[call'.row].tps = mem[call.row].tps
      BY <1>3
    <3>2. mem[call.row].tps \in Nat /\ call.next \in Nat /\ call'.next \in Nat
      BY CallFacts DEF CallType, RowType
    <3> QED
      BY <3>1, <3>2, CallFacts
  <2> QED
    BY <2>1, <2>2, <2>3 DEF PassInv
<1>5. phase' \in Phases /\ todo' \in SUBSET Rows /\ dirty' \in BOOLEAN
  BY DEF Mirroring, Phases, IInv, TypeOK
<1> QED
  BY <1>2, <1>4, <1>5, PassTypes

\* The bookkeeping of one step of the mirror: what becomes of the call.
LEMMA CallSteps ==
    ASSUME IInv, phase \in Mirroring, NEW shares \in Nat
    PROVE  /\ [call EXCEPT !.ok = FALSE] \in CallType
           /\ call.next < call.reached =>
                /\ [call EXCEPT !.next = @ + 1] \in CallType
                /\ [call EXCEPT !.next = @ + 1, !.booked = @ + shares] \in CallType
                /\ [call EXCEPT !.next = @ + 1, !.booked = @ + shares, !.ok = FALSE] \in CallType
<1>1. [call EXCEPT !.ok = FALSE] \in CallType
  BY CallFacts DEF CallType
<1>2. ASSUME call.next < call.reached PROVE call.next + 1 \in 0..Targets /\ call.booked + shares \in Nat
  BY <1>2, CallFacts DEF Targets
<1>3. ASSUME call.next < call.reached
      PROVE  /\ [call EXCEPT !.next = @ + 1] \in CallType
             /\ [call EXCEPT !.next = @ + 1, !.booked = @ + shares] \in CallType
             /\ [call EXCEPT !.next = @ + 1, !.booked = @ + shares, !.ok = FALSE] \in CallType
  BY <1>2, <1>3, CallFacts DEF CallType
<1> QED
  BY <1>1, <1>3

\* A step of the mirror that leaves the copy of the row alone.
LEMMA MirrorKeepsRow ==
    ASSUME IInv, phase \in Mirroring, phase' \in Mirroring, mem' = mem,
           call' \in CallType, call'.row = call.row, call'.reached = call.reached,
           call'.next = call.next,
           exits' \in [OrderIds -> [state : {"unsent", "working", "filled", "dead"},
                                   qty : Nat, row : Rows \cup {Nothing}]],
           faults' \in 0..MaxFaults,
           UNCHANGED <<rows, entry, held, worldVars, todo, dirty, seen, crashes>>
    PROVE  IInv'
<1>1. mem' = [mem EXCEPT ![call.row] = mem[call.row]]
  BY CallFacts DEF IInv, TypeOK
<1>2. call.next <= call'.next /\ call'.next <= call.reached
  BY CallFacts DEF Targets
<1> QED
  BY <1>1, <1>2, CallFacts, MirrorTypes

LEMMA CountTypes == ASSUME IInv, NEW fine \in BOOLEAN, Count(fine) PROVE IInv'
<1>1. phase \in Mirroring /\ phase' \in Mirroring /\ faults' \in 0..MaxFaults
  <2>1. faults \in 0..MaxFaults /\ Faults(fine)
    BY DEF Count, IInv, TypeOK
  <2> QED
    BY <2>1, FaultsFacts DEF Count, ToPhase, Mirroring
<1>2. UNCHANGED <<rows, brokerVars, worldVars, todo, dirty, call, seen, crashes>>
  BY DEF Count
<1>3. exits' \in [OrderIds -> [state : {"unsent", "working", "filled", "dead"},
                              qty : Nat, row : Rows \cup {Nothing}]]
  BY <1>2 DEF brokerVars, IInv, TypeOK
<1>4. CASE Position(fine) > 0
  <2> DEFINE row == [mem[call.row] EXCEPT !.original = Position(fine)]
  <2>1. mem' = [mem EXCEPT ![call.row] = row]
    BY <1>4 DEF Count
  <2>2. /\ row \in RowType /\ row.status = mem[call.row].status /\ row.tps = mem[call.row].tps
        /\ row.left = mem[call.row].left /\ row.realized = mem[call.row].realized
    BY <1>1, CallFacts DEF RowType, Position, IInv, TypeOK
  <2> HIDE DEF row
  <2>3. call.next <= call'.next /\ call'.next <= call.reached /\ call' \in CallType
    BY <1>1, <1>2, CallFacts DEF Targets
  <2> QED
    BY <1>1, <1>2, <1>3, <2>1, <2>2, <2>3, MirrorTypes DEF brokerVars
<1>5. CASE ~(Position(fine) > 0)
  <2>1. mem' = mem
    BY <1>5 DEF Count
  <2> QED
    BY <1>1, <1>2, <1>3, <2>1, CallFacts, MirrorKeepsRow DEF brokerVars
<1> QED
  BY <1>4, <1>5

LEMMA ScaleTypes ==
    ASSUME IInv, ScaleSkips \/ ScaleAccepted \/ ScaleRefused
    PROVE  IInv'
<1> DEFINE shares == ScaleShares(mem[call.row])
<1>1. /\ phase \in Mirroring /\ phase' = phase /\ call.next < call.reached
      /\ UNCHANGED <<rows, entry, held, worldVars, todo, dirty, seen, crashes>>
  BY DEF ScaleSkips, ScaleAccepted, ScaleRefused, Scaling, Mirroring, brokerVars
<1>2. /\ shares \in Nat /\ mem[call.row] \in RowType /\ call.row \in Rows
      /\ call.next < call.reached
  BY <1>1, CallFacts, ScaleFacts
<1>3. /\ [call EXCEPT !.next = @ + 1] \in CallType
      /\ [call EXCEPT !.next = @ + 1, !.booked = @ + shares] \in CallType
      /\ [call EXCEPT !.next = @ + 1, !.booked = @ + shares, !.ok = FALSE] \in CallType
  BY <1>1, <1>2, CallSteps
<1> DEFINE ExitsTyped ==
        exits \in [OrderIds -> [state : {"unsent", "working", "filled", "dead"},
                                qty : Nat, row : Rows \cup {Nothing}]]
<1>4. ExitsTyped /\ faults \in 0..MaxFaults
  BY DEF IInv, TypeOK
<1> HIDE DEF shares
<1>5. \E accepted \in SUBSET OrderIds, sold \in Nat :
          /\ mem' = [mem EXCEPT ![call.row] = Banking(mem[call.row], sold, accepted)]
          /\ ExitsTyped' /\ faults' \in 0..MaxFaults
          /\ call' \in {[call EXCEPT !.next = @ + 1],
                        [call EXCEPT !.next = @ + 1, !.booked = @ + shares],
                        [call EXCEPT !.next = @ + 1, !.booked = @ + shares, !.ok = FALSE]}
  <2>1. CASE ScaleSkips
    <3>1. /\ mem' = [mem EXCEPT ![call.row] = Banking(mem[call.row], 0, {})]
          /\ call' = [call EXCEPT !.next = @ + 1] /\ exits' = exits /\ faults' = faults
      BY <2>1 DEF ScaleSkips, brokerVars
    <3> QED
      BY <3>1, <1>4
  <2>2. CASE ScaleAccepted
    <3>1. /\ mem' = [mem EXCEPT ![call.row] = Banking(mem[call.row], shares, {NextOrder})]
          /\ call' = [call EXCEPT !.next = @ + 1, !.booked = @ + shares] /\ faults' = faults
          /\ Accepts(shares, call.row)
      BY <2>2 DEF ScaleAccepted, shares
    <3>2. {NextOrder} \in SUBSET OrderIds /\ ExitsTyped'
      BY <1>2, <3>1, OrderFacts DEF IInv
    <3> QED
      BY <1>2, <1>4, <3>1, <3>2
  <2>3. CASE ScaleRefused
    <3>1. /\ mem' = [mem EXCEPT ![call.row] = Banking(mem[call.row], shares, {})]
          /\ call' = [call EXCEPT !.next = @ + 1, !.booked = @ + shares, !.ok = FALSE]
          /\ exits' = exits /\ Faults(shares > Free)
      BY <2>3 DEF ScaleRefused, brokerVars, shares
    <3>2. faults' \in 0..MaxFaults
      BY <1>4, <3>1 DEF Faults
    <3> QED
      BY <1>2, <1>4, <3>1, <3>2
  <2> QED
    BY <2>1, <2>2, <2>3
<1>6. PICK accepted \in SUBSET OrderIds, sold \in Nat :
          mem' = [mem EXCEPT ![call.row] = Banking(mem[call.row], sold, accepted)]
  BY <1>5
<1>7. /\ call' \in CallType /\ call'.row = call.row /\ call'.reached = call.reached
      /\ call'.next = call.next + 1
  <2>1. call \in CallType
    BY <1>1, CallFacts
  <2> QED
    BY <1>3, <1>5, <2>1 DEF CallType
<1>8. call.next <= call'.next /\ call'.next <= call.reached
  BY <1>1, <1>7, CallFacts DEF Targets
<1>9. phase' \in Mirroring /\ ExitsTyped' /\ faults' \in 0..MaxFaults
  BY <1>1, <1>5
<1> DEFINE row == Banking(mem[call.row], sold, accepted)
<1>10. /\ row \in RowType /\ row.status = mem[call.row].status /\ row.tps = mem[call.row].tps
       /\ row.left = mem[call.row].left /\ row.realized = mem[call.row].realized
  BY <1>2, BankingFacts
<1> HIDE DEF row
<1>11. mem' = [mem EXCEPT ![call.row] = row]
  BY <1>6 DEF row
<1> QED
  BY <1>1, <1>7, <1>8, <1>9, <1>10, <1>11, MirrorTypes

\* The steps of the mirror that may raise, find nothing or be refused.
LEMMA UnbankedTypes ==
    ASSUME IInv, NEW fine \in BOOLEAN,
           ScaleRaises \/ Scaled \/ CloseFindsNone(fine) \/ CloseRefused \/ CloseRaises
    PROVE  IInv'
<1>1. /\ phase \in Mirroring /\ phase' \in Mirroring /\ mem' = mem
      /\ UNCHANGED <<rows, entry, held, worldVars, todo, dirty, seen, crashes>>
  BY DEF ScaleRaises, Scaled, CloseFindsNone, CloseRefused, CloseRaises, Scaling, ToPhase,
     Mirroring, brokerVars, passVars
<1>2. call' = call \/ call' = [call EXCEPT !.ok = FALSE]
  BY DEF ScaleRaises, Scaled, CloseFindsNone, CloseRefused, CloseRaises, passVars
<1>3. call' \in CallType /\ call'.row = call.row /\ call'.reached = call.reached /\ call'.next = call.next
  BY <1>1, <1>2, CallFacts DEF CallType
<1>4. faults \in 0..MaxFaults /\ held \in Nat
      /\ exits \in [OrderIds -> [state : {"unsent", "working", "filled", "dead"},
                                 qty : Nat, row : Rows \cup {Nothing}]]
  BY DEF IInv, TypeOK
<1>5. faults' \in 0..MaxFaults
  BY <1>4 DEF ScaleRaises, Scaled, CloseFindsNone, CloseRefused, CloseRaises, Faults
<1>6. exits' \in [OrderIds -> [state : {"unsent", "working", "filled", "dead"},
                              qty : Nat, row : Rows \cup {Nothing}]]
  <2>1. CASE exits' = exits
    BY <1>4, <2>1
  <2>2. CASE ScaleRaises /\ Accepts(ScaleShares(mem[call.row]), call.row)
    <3>1. ScaleShares(mem[call.row]) \in Nat /\ call.row \in Rows
      BY <1>1, CallFacts, ScaleFacts
    <3> QED
      BY <2>2, <3>1, OrderFacts DEF IInv
  <2>3. CASE CloseRaises
    <3>1. held - call.booked \in Nat /\ call.row \in Rows /\ Accepts(held - call.booked, call.row)
      BY <1>1, <1>4, <2>3, CallFacts DEF CloseRaises
    <3> QED
      BY <3>1, OrderFacts DEF IInv
  <2> QED
    BY <2>1, <2>2, <2>3 DEF ScaleRaises, Scaled, CloseFindsNone, CloseRefused, brokerVars
<1> QED
  BY <1>1, <1>3, <1>5, <1>6, MirrorKeepsRow

LEMMA CloseSendsTypes == ASSUME IInv, CloseSends PROVE IInv'
<1>1. /\ phase \in Mirroring /\ phase' \in Mirroring /\ call' = [call EXCEPT !.ok = FALSE]
      /\ UNCHANGED <<rows, entry, held, worldVars, todo, dirty, seen, faults, crashes>>
  BY DEF CloseSends, ToPhase, Mirroring
<1>2. /\ call' \in CallType /\ call'.row = call.row /\ call'.reached = call.reached
      /\ call.next <= call'.next /\ call'.next <= call.reached
  <2>1. call \in CallType /\ call.next \in Nat /\ call.next <= call.reached
    BY <1>1, CallFacts DEF Targets
  <2>2. call' \in CallType
    BY <1>1, <2>1, CallSteps
  <2>3. call'.row = call.row /\ call'.reached = call.reached /\ call'.next = call.next
    BY <1>1, <2>1 DEF CallType
  <2> QED
    BY <2>1, <2>2, <2>3
<1>3. held - call.booked \in Nat /\ call.row \in Rows /\ Accepts(held - call.booked, call.row)
  BY <1>1, CallFacts DEF CloseSends, IInv, TypeOK
<1>4. /\ NextOrder \in OrderIds
      /\ exits' \in [OrderIds -> [state : {"unsent", "working", "filled", "dead"},
                                  qty : Nat, row : Rows \cup {Nothing}]]
  BY <1>3, OrderFacts DEF IInv
<1> DEFINE row == [mem[call.row] EXCEPT !.orders = @ \cup {NextOrder}]
<1>5. mem' = [mem EXCEPT ![call.row] = row]
  BY DEF CloseSends
<1>6. /\ row \in RowType /\ row.status = mem[call.row].status /\ row.tps = mem[call.row].tps
      /\ row.left = mem[call.row].left /\ row.realized = mem[call.row].realized
  BY <1>1, <1>4, CallFacts DEF RowType
<1>7. faults' \in 0..MaxFaults
  BY <1>1 DEF IInv, TypeOK
<1> HIDE DEF row
<1> QED
  BY <1>1, <1>2, <1>4, <1>5, <1>6, <1>7, MirrorTypes

\* A confirmed exit banks its targets, or all that is left.
LEMMA CommittedFacts ==
    ASSUME IInv, phase = "commit"
    PROVE  /\ Committed(mem[call.row]) \in RowType
           /\ RowShape(Committed(mem[call.row]))
           /\ Committed(mem[call.row]).status \in {"OPEN", "CLOSED"}
           /\ Committed(mem[call.row]).tps >= mem[call.row].tps
           /\ Committed(mem[call.row]).left <= mem[call.row].left
<1> DEFINE row == mem[call.row]
<1>1. /\ call \in CallType /\ row \in RowType /\ row.status = "OPEN"
      /\ row.left = Slices - row.tps /\ row.realized = row.tps
      /\ row.tps <= call.reached /\ row.tps \in 0..3 /\ call.reached \in 0..3
  <2>1. phase \in Mirroring
    BY DEF Mirroring
  <2>2. call \in CallType /\ row \in RowType /\ row.status = "OPEN" /\ RowShape(row)
        /\ row.tps <= call.next /\ call.next <= call.reached /\ call.next \in 0..Targets
        /\ call.reached \in 0..Targets
    BY <2>1, CallFacts
  <2> QED
    BY <2>2 DEF RowShape, RowType, Targets
<1> DEFINE left == IF call.closes THEN 0 ELSE row.left - (call.reached - row.tps)
<1>2. Committed(row) =
          [row EXCEPT !.tps = call.reached, !.extreme = call.extreme, !.left = left,
                      !.realized = row.realized + (row.left - left),
                      !.status = IF left = 0 THEN "CLOSED" ELSE row.status]
  BY DEF Committed
<1>3. /\ left \in 0..4 /\ left <= row.left /\ row.realized + (row.left - left) \in 0..4
      /\ call.extreme \in Int
      /\ left # 0 => left = 4 - call.reached /\ row.realized + (row.left - left) = call.reached
  BY <1>1 DEF Slices, CallType
<1> HIDE DEF row, left
<1>4. Committed(row) \in RowType
  BY <1>1, <1>2, <1>3 DEF RowType, Slices, Targets
<1>5. /\ Committed(row).tps = call.reached /\ Committed(row).left = left
      /\ Committed(row).realized = row.realized + (row.left - left)
      /\ Committed(row).status = IF left = 0 THEN "CLOSED" ELSE "OPEN"
  BY <1>1, <1>2 DEF RowType
<1>6. RowShape(Committed(row))
  BY <1>3, <1>5 DEF RowShape, Slices
<1> QED
  BY <1>1, <1>3, <1>4, <1>5, <1>6 DEF row

LEMMA CommitTypes == ASSUME IInv, Commit PROVE IInv'
<1>1. /\ phase = "commit" /\ phase' = "mark" /\ call' = NoCall /\ todo' = todo \ {call.row}
      /\ UNCHANGED <<rows, brokerVars, worldVars, dirty, seen, faults, crashes>>
  BY DEF Commit, Settle, ToPhase
<1> DEFINE row == IF call.ok THEN Committed(mem[call.row]) ELSE mem[call.row]
<1>2. mem' = [mem EXCEPT ![call.row] = row]
  BY DEF Commit, Settle
<1>3. phase \in Mirroring
  BY <1>1 DEF Mirroring
<1>4. row \in RowType /\ RowShape(row) /\ call.row \in Rows
  BY <1>1, <1>3, CallFacts, CommittedFacts
<1> HIDE DEF row
<1>5. mem' \in [Rows -> RowType] /\ Shapes(mem)'
  BY <1>2, <1>4, RowReplaced
<1>6. PassInv'
  BY <1>1, <1>2, <1>3 DEF IInv, TypeOK, PassInv, Managing, Mirroring
<1> QED
  BY <1>1, <1>5, <1>6, NoCallFacts, PassTypes DEF IInv, TypeOK, Phases, brokerVars

LEMMA WriteTypes == ASSUME IInv, ManageWrites PROVE IInv'
<1>1. /\ phase' = "reconcile" /\ mem' = NoRows /\ dirty' = FALSE
      /\ rows' = (IF dirty THEN mem ELSE rows)
      /\ UNCHANGED <<brokerVars, worldVars, todo, call, seen, faults, crashes>>
  BY DEF ManageWrites, ToPhase
<1>2. rows' \in [Rows -> RowType] /\ Shapes(rows)' /\ mem' \in [Rows -> RowType] /\ Shapes(mem)'
  <2>1. CASE dirty
    BY <1>1, <2>1, NewRowFacts DEF IInv, TypeOK, Shapes
  <2>2. CASE ~dirty
    BY <1>1, <2>2, NewRowFacts DEF IInv, TypeOK, Shapes
  <2> QED
    BY <2>1, <2>2
<1> QED
  BY <1>1, <1>2 DEF IInv, TypeOK, PassInv, Managing, Mirroring, Phases, brokerVars, worldVars

LEMMA ManageTypes == IInv /\ Manage => IInv'
<1> SUFFICES ASSUME IInv, Manage PROVE IInv'
  OBVIOUS
<1>1. CASE ManageReads \/ ManageSkips
  BY <1>1, ReadTypes
<1>2. ASSUME NEW r \in Rows, MarkUnplanned(r) \/ MarkUnquoted(r) \/ MarkHolds(r) \/ MarkExits(r)
      PROVE  IInv'
  BY <1>2, MarkTypes
<1>3. ASSUME NEW fine \in BOOLEAN, Count(fine) PROVE IInv'
  BY <1>3, CountTypes
<1>4. CASE ScaleSkips \/ ScaleAccepted \/ ScaleRefused
  BY <1>4, ScaleTypes
<1>5. ASSUME NEW fine \in BOOLEAN, CloseFindsNone(fine) PROVE IInv'
  BY <1>5, UnbankedTypes
<1>6. CASE ScaleRaises \/ Scaled \/ CloseRefused \/ CloseRaises
  <2>1. TRUE \in BOOLEAN
    OBVIOUS
  <2> QED
    BY <1>6, <2>1, UnbankedTypes
<1>7. CASE CloseSends \/ Commit \/ ManageWrites
  BY <1>7, CloseSendsTypes, CommitTypes, WriteTypes
<1> QED
  BY <1>1, <1>2, <1>3, <1>4, <1>5, <1>6, <1>7 DEF Manage

-----------------------------------------------------------------------------
(* reconcile_closes and the rebalance. *)

LEMMA ReconcileReadsTypes ==
    ASSUME IInv, NEW outcome \in {"ok", "refused", "raised"}, ReconcileReads(outcome)
    PROVE  IInv'
<1>1. faults' \in 0..MaxFaults
  BY DEF ReconcileReads, Faults, IInv, TypeOK
<1>2. seen' \in [readable : BOOLEAN, qty : Nat]
  BY DEF ReconcileReads, IInv, TypeOK
<1>3. mem' = rows /\ phase' = "resolve"
      /\ UNCHANGED <<rows, brokerVars, worldVars, todo, dirty, call, crashes>>
  BY DEF ReconcileReads, ToPhase
<1> QED
  BY <1>1, <1>2, <1>3
     DEF IInv, TypeOK, Shapes, RowShape, PassInv, Managing, Mirroring, Phases, brokerVars, worldVars

\* A closed row that is judged is reopened as it was bought, or stays closed
\* with the state it was closed in.
LEMMA ResolvedFacts ==
    ASSUME TypeOK, NEW row \in RowType, row.status = "CLOSED", NEW fills \in SUBSET OrderIds
    PROVE  /\ Resolved(row, fills) \in RowType
           /\ RowShape(Resolved(row, fills))
           /\ \/ Resolved(row, fills).status = "OPEN"
              \/ /\ Resolved(row, fills).status = "CLOSED"
                 /\ Resolved(row, fills).tps = row.tps
                 /\ Resolved(row, fills).left = row.left
<1>1. /\ Reverted(row) \in RowType /\ RowShape(Reverted(row)) /\ Reverted(row).status = "OPEN"
  <2>1. NewRow \in RowType /\ NewRow.left = Slices /\ NewRow.tps = 0 /\ NewRow.realized = 0
    BY NewRowFacts DEF NewRow
  <2>2. Reverted(row) \in RowType
    BY <2>1 DEF Reverted, RowType
  <2>3. /\ Reverted(row).status = "OPEN" /\ Reverted(row).left = NewRow.left
        /\ Reverted(row).tps = NewRow.tps /\ Reverted(row).realized = NewRow.realized
    BY <2>1 DEF Reverted, RowType
  <2> QED
    BY <2>1, <2>2, <2>3 DEF RowShape, Slices
<1>2. /\ Flagged(row) \in RowType /\ RowShape(Flagged(row)) /\ Flagged(row).status = "CLOSED"
      /\ Flagged(row).tps = row.tps /\ Flagged(row).left = row.left
  BY DEF Flagged, RowType, RowShape
<1>3. /\ Reconciled(row, fills) \in RowType /\ RowShape(Reconciled(row, fills))
      /\ Reconciled(row, fills).status = "CLOSED"
      /\ Reconciled(row, fills).tps = row.tps /\ Reconciled(row, fills).left = row.left
  <2> DEFINE flat == row.verified_flat \/ seen.readable
             basis == IF SoldInFull(row, fills) THEN "fills"
                      ELSE IF row.basis = "none" THEN "quote_estimate" ELSE row.basis
  <2>1. Reconciled(row, fills) =
            [row EXCEPT !.reconciled = TRUE, !.verified_flat = flat, !.basis = basis]
    BY DEF Reconciled
  <2>2. flat \in BOOLEAN
    BY DEF TypeOK, RowType
  <2>3. basis \in {"none", "fills", "quote_estimate"}
    BY DEF RowType
  <2> HIDE DEF flat, basis
  <2>4. Reconciled(row, fills) \in RowType
    BY <2>1, <2>2, <2>3 DEF RowType
  <2> QED
    BY <2>1, <2>4 DEF RowType, RowShape
<1>4. Resolved(row, fills) \in {Reverted(row), Flagged(row), Reconciled(row, fills)}
  BY DEF Resolved
<1> QED
  BY <1>1, <1>2, <1>3, <1>4

LEMMA ReconcileWritesTypes == ASSUME IInv, NEW fine \in BOOLEAN, ReconcileWrites(fine) PROVE IInv'
<1>1. /\ phase' = "rebalance" /\ mem' = NoRows /\ seen' = Unseen
      /\ UNCHANGED <<brokerVars, worldVars, todo, dirty, call, crashes>>
  BY DEF ReconcileWrites, ToPhase
<1>2. faults' \in 0..MaxFaults
  BY FaultsFacts DEF ReconcileWrites, IInv, TypeOK
<1>3. PICK fills \in SUBSET OrderIds :
          rows' = IF Due(mem) = {} THEN rows
                  ELSE [r \in Rows |-> IF r \in Due(mem) THEN Resolved(mem[r], fills) ELSE mem[r]]
  BY DEF ReconcileWrites
<1>4. \A r \in Rows : mem[r] \in RowType /\ RowShape(mem[r])
  BY DEF IInv, TypeOK, Shapes
<1>5. \A r \in Due(mem) : Resolved(mem[r], fills) \in RowType /\ RowShape(Resolved(mem[r], fills))
  BY <1>4, ResolvedFacts DEF Due, IInv
<1>6. rows' \in [Rows -> RowType] /\ Shapes(rows)'
  BY <1>3, <1>4, <1>5 DEF IInv, TypeOK, Shapes
<1> QED
  BY <1>1, <1>2, <1>6, NewRowFacts
     DEF IInv, TypeOK, Shapes, PassInv, Managing, Mirroring, Phases, Unseen, brokerVars, worldVars

LEMMA OpensTypes == ASSUME IInv, NEW r \in Rows, RebalanceOpens(r) PROVE IInv'
<1>1. /\ phase' = "book" /\ aged' = FALSE
      /\ rows' = [rows EXCEPT ![r] = [NewRow EXCEPT !.status = "OPEN"]]
      /\ UNCHANGED <<brokerVars, price, passVars, faults, crashes>>
  BY DEF RebalanceOpens, ToPhase
<1>2. /\ [NewRow EXCEPT !.status = "OPEN"] \in RowType
      /\ RowShape([NewRow EXCEPT !.status = "OPEN"])
  <2> DEFINE row == [NewRow EXCEPT !.status = "OPEN"]
  <2>1. NewRow \in RowType /\ NewRow.left = Slices /\ NewRow.tps = 0 /\ NewRow.realized = 0
    BY NewRowFacts DEF NewRow
  <2>2. row \in RowType
    BY <2>1 DEF RowType
  <2>3. /\ row.status = "OPEN" /\ row.left = NewRow.left
        /\ row.tps = NewRow.tps /\ row.realized = NewRow.realized
    BY <2>1 DEF RowType
  <2> QED
    BY <2>1, <2>2, <2>3 DEF RowShape, Slices
<1>3. rows' \in [Rows -> RowType] /\ Shapes(rows)'
  BY <1>1, <1>2 DEF IInv, TypeOK, Shapes
<1>4. phase' \in Phases \ Managing /\ faults' \in 0..MaxFaults
  BY <1>1 DEF IInv, TypeOK, Phases, Managing
<1> QED
  BY <1>1, <1>3, <1>4, RowsTypes

LEMMA VoidTypes == ASSUME IInv, VoidLatest PROVE IInv'
<1>1. phase' = "manage" /\ UNCHANGED <<brokerVars, worldVars, passVars, faults, crashes>>
  BY DEF VoidLatest, ToPhase
<1>2. rows \in [Rows -> RowType] /\ Shapes(rows)
  BY DEF IInv, TypeOK
<1>3. rows' \in [Rows -> RowType] /\ Shapes(rows)'
  <2>1. CASE rows' = rows
    BY <1>2, <2>1 DEF Shapes
  <2>2. ASSUME NEW r \in Rows,
               rows' = [rows EXCEPT ![r].status = "VOIDED_REJECT", ![r].realized = 0]
        PROVE  rows' \in [Rows -> RowType] /\ Shapes(rows)'
    <3>1. rows[r] \in RowType /\ 0 \in 0..Slices
      BY <1>2 DEF Slices
    <3>2. rows' \in [Rows -> RowType]
      BY <1>2, <2>2, <3>1 DEF RowType
    <3>3. rows'[r].status = "VOIDED_REJECT" /\ \A s \in Rows \ {r} : rows'[s] = rows[s]
      BY <1>2, <2>2, <3>1 DEF RowType
    <3> QED
      BY <1>2, <3>2, <3>3 DEF Shapes, RowShape
  <2> QED
    BY <2>1, <2>2 DEF VoidLatest
<1>4. phase' \in Phases \ Managing /\ faults' \in 0..MaxFaults /\ aged' \in BOOLEAN
  BY <1>1 DEF IInv, TypeOK, Phases, Managing, worldVars
<1> QED
  BY <1>1, <1>3, <1>4, RowsTypes DEF worldVars

LEMMA BookTypes ==
    ASSUME IInv, NEW r \in Rows,
           RebalanceSkips \/ BookRefused \/ BookAccepted(r) \/ BookRaises(r)
    PROVE  IInv'
<1>1. UNCHANGED <<rows, exits, held, worldVars, passVars, crashes>>
  BY DEF RebalanceSkips, BookRefused, BookAccepted, BookRaises, brokerVars
<1>2. phase' \in {"manage", "void"}
  BY DEF RebalanceSkips, BookRefused, BookAccepted, BookRaises, ToPhase
<1>3. faults' \in 0..MaxFaults
  BY DEF RebalanceSkips, BookRefused, BookAccepted, BookRaises, Faults, IInv, TypeOK
<1>4. entry' = entry \/ entry' = [entry EXCEPT ![r] = "working"]
  BY DEF RebalanceSkips, BookRefused, BookAccepted, BookRaises, brokerVars
<1>5. entry' \in [Rows -> {"none", "working", "filled", "dead"}]
  BY <1>4 DEF IInv, TypeOK
<1> QED
  BY <1>1, <1>2, <1>3, <1>5
     DEF IInv, TypeOK, Shapes, RowShape, PassInv, Managing, Mirroring, Phases, worldVars, passVars

\* RebalanceSkips and BookRefused, which name no row, whether or not there is one.
LEMMA BookRowlessTypes == ASSUME IInv, RebalanceSkips \/ BookRefused PROVE IInv'
<1>1. UNCHANGED <<rows, brokerVars, worldVars, passVars, crashes>>
  BY DEF RebalanceSkips, BookRefused
<1>2. phase' \in {"manage", "void"}
  BY DEF RebalanceSkips, BookRefused, ToPhase
<1>3. faults' \in 0..MaxFaults
  BY DEF RebalanceSkips, BookRefused, Faults, IInv, TypeOK
<1> QED
  BY <1>1, <1>2, <1>3
     DEF IInv, TypeOK, Shapes, RowShape, PassInv, Managing, Mirroring, Phases, brokerVars, worldVars, passVars

LEMMA CycleTypes == IInv /\ (Reconcile \/ Rebalance) => IInv'
<1>1. IInv /\ Reconcile => IInv'
  BY ReconcileReadsTypes, ReconcileWritesTypes DEF Reconcile
<1>2. IInv /\ Rebalance => IInv'
  BY OpensTypes, VoidTypes, BookTypes, BookRowlessTypes DEF Rebalance
<1> QED
  BY <1>1, <1>2

LEMMA StutterTypes == IInv /\ UNCHANGED vars => IInv'
BY DEF IInv, TypeOK, Shapes, RowShape, PassInv, vars, brokerVars, worldVars, passVars

LEMMA StepTypes == IInv /\ [Next]_vars => IInv'
<1> SUFFICES ASSUME IInv, [Next]_vars PROVE IInv'
  OBVIOUS
<1>1. CASE Manage
  BY <1>1, ManageTypes
<1>2. CASE Reconcile \/ Rebalance
  BY <1>2, CycleTypes
<1>3. CASE Broker
  BY <1>3, BrokerTypes
<1>4. CASE PriceMoves \/ DaysPass
  BY <1>4, MarketTypes
<1>5. CASE CloseLatest \/ Crash
  BY <1>5, CloseLatestTypes, CrashTypes
<1>6. CASE UNCHANGED vars
  BY <1>6, StutterTypes
<1> QED
  BY <1>1, <1>2, <1>3, <1>4, <1>5, <1>6 DEF Next, Cycle

LEMMA TypesHold == Spec => []IInv
BY InitTypes, StepTypes, PTL DEF Spec

\* Rows, orders and the pass keep their types: the realized slices of a row are
\* never more than its four, nor the remaining ones negative.
THEOREM TypeCorrect == Spec => []TypeOK
<1>1. IInv => TypeOK
  BY DEF IInv
<1> QED
  BY <1>1, TypesHold, PTL

-----------------------------------------------------------------------------
(* The ladder, and the rows that were voided. *)

\* What a pass may make of a row it has read.
Later(row, next) ==
    /\ next.tps >= row.tps /\ next.left <= row.left
    /\ \/ next.status = row.status
       \/ row.status = "OPEN" /\ next.status = "CLOSED"

\* The copy of a pass is ahead of the ledger, and what reconcile_closes resolves
\* is as the ledger has it.
LadderInv ==
    /\ phase \in Managing => \A r \in Rows : mem[r].tps >= rows[r].tps /\ mem[r].left <= rows[r].left
    /\ phase = "resolve" =>
           \A r \in Rows : /\ mem[r].tps = rows[r].tps /\ mem[r].left = rows[r].left
                           /\ mem[r].status = "CLOSED" => rows[r].status = "CLOSED"

\* A row that is not opened, or is voided, has no order; nor has the open row
\* whose order is being sent or was refused.
Quiet(row, order) == row.status \in {"NONE", "VOIDED_REJECT"} => order = "none"

VoidInv ==
    /\ \A r \in Rows : Quiet(rows[r], entry[r])
    /\ phase \in Managing \cup {"resolve"} => \A r \in Rows : Quiet(mem[r], entry[r])
    /\ phase \in {"book", "void"} => \A r \in Rows : rows[r].status = "OPEN" => entry[r] = "none"
    /\ phase = "book" => \A r \in Rows : IsLatest(r, Rows \ Unopened) => rows[r].status # "VOIDED_REJECT"

LInv == IInv /\ LadderInv /\ VoidInv

\* A step of a pass on its copy of the ledger.
Passes ==
    /\ rows' = rows /\ entry' = entry /\ phase \in Managing /\ phase' \in Managing
    /\ \A r \in Rows : Later(mem[r], mem'[r])

LEMMA LaterItself == IInv => \A r \in Rows : Later(mem[r], mem[r])
<1> SUFFICES ASSUME IInv, NEW r \in Rows PROVE Later(mem[r], mem[r])
  OBVIOUS
<1>1. mem[r] \in RowType
  BY DEF IInv, TypeOK
<1>2. mem[r].tps \in Int /\ mem[r].left \in Int
  BY <1>1 DEF RowType
<1> QED
  BY <1>2 DEF Later

LEMMA LaterReplaced ==
    ASSUME IInv, NEW r \in Rows, NEW row, mem' = [mem EXCEPT ![r] = row], Later(mem[r], row)
    PROVE  \A s \in Rows : Later(mem[s], mem'[s])
BY LaterItself DEF IInv, TypeOK

LEMMA SameIsLater ==
    ASSUME IInv, NEW r \in Rows, NEW row,
           row.status = mem[r].status, row.tps = mem[r].tps, row.left = mem[r].left
    PROVE  Later(mem[r], row)
BY LaterItself DEF Later

LEMMA MarkPasses ==
    ASSUME IInv, NEW r \in Rows, MarkUnplanned(r) \/ MarkUnquoted(r) \/ MarkHolds(r) \/ MarkExits(r)
    PROVE  Passes
<1>1. rows' = rows /\ entry' = entry /\ phase \in Managing /\ phase' \in Managing
  BY DEF MarkUnplanned, MarkUnquoted, MarkHolds, MarkExits, NextRow, ToPhase, Managing, brokerVars
<1> DEFINE row == Ensured(mem[r])
           moved == IF row.live THEN [row EXCEPT !.extreme = Extreme(row)] ELSE row
<1>2. mem[r] \in RowType /\ row \in RowType /\ row.status = mem[r].status /\ row.tps = mem[r].tps
      /\ row.left = mem[r].left
  BY EnsuredFacts DEF IInv, TypeOK
<1>3. moved.status = mem[r].status /\ moved.tps = mem[r].tps /\ moved.left = mem[r].left
  BY <1>2 DEF RowType
<1>4. \/ mem' = mem
      \/ mem' = [mem EXCEPT ![r] = row]
      \/ mem' = [mem EXCEPT ![r] = moved]
  BY DEF MarkUnplanned, MarkUnquoted, MarkHolds, MarkExits
<1> HIDE DEF row, moved
<1> QED
  BY <1>1, <1>2, <1>3, <1>4, LaterItself, LaterReplaced, SameIsLater DEF Passes

LEMMA CountPasses == ASSUME IInv, NEW fine \in BOOLEAN, Count(fine) PROVE Passes
<1>1. /\ rows' = rows /\ entry' = entry /\ phase \in Mirroring /\ phase \in Managing
      /\ phase' \in Managing
  BY DEF Count, ToPhase, Managing, Mirroring, brokerVars
<1> DEFINE row == [mem[call.row] EXCEPT !.original = Position(fine)]
<1>2. mem' = mem \/ mem' = [mem EXCEPT ![call.row] = row]
  BY DEF Count
<1>3. call.row \in Rows /\ row.status = mem[call.row].status /\ row.tps = mem[call.row].tps
      /\ row.left = mem[call.row].left
  BY <1>1, CallFacts DEF RowType
<1> HIDE DEF row
<1> QED
  BY <1>1, <1>2, <1>3, LaterItself, LaterReplaced, SameIsLater DEF Passes

LEMMA ScalePasses == ASSUME IInv, ScaleSkips \/ ScaleAccepted \/ ScaleRefused PROVE Passes
<1>1. /\ rows' = rows /\ entry' = entry /\ phase \in Mirroring /\ phase \in Managing
      /\ phase' \in Managing
  BY DEF ScaleSkips, ScaleAccepted, ScaleRefused, Scaling, Managing, Mirroring, brokerVars
<1>2. call.row \in Rows /\ mem[call.row] \in RowType
  BY <1>1, CallFacts
<1>3. \E shares, accepted : mem' = [mem EXCEPT ![call.row] = Banking(mem[call.row], shares, accepted)]
  BY DEF ScaleSkips, ScaleAccepted, ScaleRefused
<1>4. PICK shares, accepted : mem' = [mem EXCEPT ![call.row] = Banking(mem[call.row], shares, accepted)]
  BY <1>3
<1> DEFINE row == Banking(mem[call.row], shares, accepted)
<1>5. row.status = mem[call.row].status /\ row.tps = mem[call.row].tps /\ row.left = mem[call.row].left
  BY <1>2 DEF Banking, RowType
<1>6. mem' = [mem EXCEPT ![call.row] = row]
  BY <1>4
<1> HIDE DEF row
<1> QED
  BY <1>1, <1>2, <1>5, <1>6, LaterReplaced, SameIsLater DEF Passes

LEMMA UnbankedPasses ==
    ASSUME IInv, NEW fine \in BOOLEAN,
           ScaleRaises \/ Scaled \/ CloseFindsNone(fine) \/ CloseRefused \/ CloseRaises
    PROVE  Passes
<1>1. rows' = rows /\ entry' = entry /\ phase \in Managing /\ phase' \in Managing /\ mem' = mem
  BY DEF ScaleRaises, Scaled, CloseFindsNone, CloseRefused, CloseRaises, Scaling, ToPhase,
     Managing, brokerVars, passVars
<1> QED
  BY <1>1, LaterItself DEF Passes

LEMMA CloseSendsPasses == ASSUME IInv, CloseSends PROVE Passes
<1>1. /\ rows' = rows /\ entry' = entry /\ phase \in Mirroring /\ phase \in Managing
      /\ phase' \in Managing
  BY DEF CloseSends, ToPhase, Managing, Mirroring
<1> DEFINE row == [mem[call.row] EXCEPT !.orders = @ \cup {NextOrder}]
<1>2. mem' = [mem EXCEPT ![call.row] = row]
  BY DEF CloseSends
<1>3. call.row \in Rows /\ row.status = mem[call.row].status /\ row.tps = mem[call.row].tps
      /\ row.left = mem[call.row].left
  BY <1>1, CallFacts DEF RowType
<1> HIDE DEF row
<1> QED
  BY <1>1, <1>2, <1>3, LaterReplaced, SameIsLater DEF Passes

LEMMA CommitPasses == ASSUME IInv, Commit PROVE Passes
<1>1. /\ rows' = rows /\ entry' = entry /\ phase = "commit" /\ phase \in Mirroring
      /\ phase \in Managing /\ phase' \in Managing
  BY DEF Commit, Settle, ToPhase, Managing, Mirroring, brokerVars
<1>2. call.row \in Rows /\ mem[call.row].status = "OPEN"
  BY <1>1, CallFacts
<1>3. Later(mem[call.row], Committed(mem[call.row])) /\ Later(mem[call.row], mem[call.row])
  BY <1>1, <1>2, CommittedFacts, LaterItself DEF Later
<1> DEFINE row == IF call.ok THEN Committed(mem[call.row]) ELSE mem[call.row]
<1>4. mem' = [mem EXCEPT ![call.row] = row]
  BY DEF Commit, Settle
<1>5. Later(mem[call.row], row)
  BY <1>3
<1> HIDE DEF row
<1> QED
  BY <1>1, <1>2, <1>4, <1>5, LaterReplaced DEF Passes

LEMMA PassesKeep == LInv /\ Passes /\ IInv' => LadderInv' /\ VoidInv'
<1> SUFFICES ASSUME LInv, Passes, IInv' PROVE LadderInv' /\ VoidInv'
  OBVIOUS
<1>1. phase' \notin {"resolve", "book", "void"} /\ phase' \in Managing /\ phase \in Managing
      /\ rows' = rows /\ entry' = entry
  BY DEF Passes, Managing
<1>2. ASSUME NEW r \in Rows
      PROVE  /\ mem'[r].tps >= rows'[r].tps /\ mem'[r].left <= rows'[r].left
             /\ Quiet(mem'[r], entry'[r])
  <2>1. Later(mem[r], mem'[r]) /\ mem[r].tps >= rows[r].tps /\ mem[r].left <= rows[r].left
        /\ Quiet(mem[r], entry[r])
    BY <1>1 DEF Passes, LInv, LadderInv, VoidInv
  <2>2. /\ mem[r].tps \in Int /\ rows[r].tps \in Int /\ mem[r].left \in Int /\ rows[r].left \in Int
    BY DEF LInv, IInv, TypeOK, RowType
  <2>3. mem'[r].tps \in Int /\ mem'[r].left \in Int
    BY DEF IInv, TypeOK, RowType
  <2> QED
    BY <1>1, <2>1, <2>2, <2>3 DEF Later, Quiet
<1> QED
  BY <1>1, <1>2 DEF LInv, LadderInv, VoidInv

\* The steps of the cycle, the broker and the operator that are not of a pass.
LEMMA ReadKeeps == LInv /\ (ManageReads \/ ManageSkips) => LadderInv' /\ VoidInv'
<1> SUFFICES ASSUME LInv, ManageReads \/ ManageSkips PROVE LadderInv' /\ VoidInv'
  OBVIOUS
<1>1. rows' = rows /\ entry' = entry /\ \A r \in Rows : Quiet(rows[r], entry[r])
  BY DEF ManageReads, ManageSkips, brokerVars, LInv, VoidInv
<1>2. \/ phase' = "mark" /\ mem' = rows
      \/ phase' = "reconcile"
  BY DEF ManageReads, ManageSkips, ToPhase
<1>3. \A r \in Rows : rows[r].tps \in Int /\ rows[r].left \in Int
  BY DEF LInv, IInv, TypeOK, RowType
<1> QED
  BY <1>1, <1>2, <1>3 DEF LadderInv, VoidInv, Managing, Quiet

LEMMA WriteKeeps == LInv /\ ManageWrites => LadderInv' /\ VoidInv'
<1> SUFFICES ASSUME LInv, ManageWrites PROVE LadderInv' /\ VoidInv'
  OBVIOUS
<1>1. entry' = entry /\ phase = "mark" /\ phase' = "reconcile" /\ rows' = (IF dirty THEN mem ELSE rows)
  BY DEF ManageWrites, ToPhase, brokerVars
<1>2. \A r \in Rows : Quiet(rows[r], entry[r]) /\ Quiet(mem[r], entry[r])
  BY <1>1 DEF LInv, VoidInv, Managing
<1>3. \A r \in Rows : Quiet(rows[r], entry[r])'
  BY <1>1, <1>2 DEF Quiet
<1> QED
  BY <1>1, <1>3 DEF LadderInv, VoidInv, Managing

LEMMA ReconcileReadsKeeps ==
    ASSUME LInv, NEW outcome \in {"ok", "refused", "raised"}, ReconcileReads(outcome)
    PROVE  LadderInv' /\ VoidInv'
<1>1. rows' = rows /\ entry' = entry /\ mem' = rows /\ phase' = "resolve"
  BY DEF ReconcileReads, ToPhase, brokerVars
<1>2. \A r \in Rows : Quiet(rows[r], entry[r])
  BY DEF LInv, VoidInv
<1> QED
  BY <1>1, <1>2 DEF LadderInv, VoidInv, Managing, Quiet

LEMMA ReconcileWritesKeeps ==
    ASSUME LInv, NEW fine \in BOOLEAN, ReconcileWrites(fine)
    PROVE  LadderInv' /\ VoidInv'
<1>1. entry' = entry /\ phase = "resolve" /\ phase' = "rebalance"
  BY DEF ReconcileWrites, ToPhase, brokerVars
<1>2. PICK fills \in SUBSET OrderIds :
          rows' = IF Due(mem) = {} THEN rows
                  ELSE [r \in Rows |-> IF r \in Due(mem) THEN Resolved(mem[r], fills) ELSE mem[r]]
  BY DEF ReconcileWrites
<1>3. \A r \in Rows : mem[r] \in RowType /\ Quiet(mem[r], entry[r]) /\ Quiet(rows[r], entry[r])
  BY <1>1 DEF LInv, IInv, TypeOK, VoidInv
<1>4. \A r \in Due(mem) : Resolved(mem[r], fills).status \in {"OPEN", "CLOSED"}
  BY <1>3, ResolvedFacts DEF Due, LInv, IInv
<1>5. \A r \in Rows : Quiet(rows[r], entry[r])'
  BY <1>1, <1>2, <1>3, <1>4 DEF Quiet
<1> QED
  BY <1>1, <1>5 DEF LadderInv, VoidInv, Managing

LEMMA RebalanceKeeps == LInv /\ Rebalance => LadderInv' /\ VoidInv'
<1> SUFFICES ASSUME LInv, Rebalance PROVE LadderInv' /\ VoidInv'
  OBVIOUS
<1> USE DEF ToPhase, brokerVars
<1>1. rows \in [Rows -> RowType] /\ entry \in [Rows -> {"none", "working", "filled", "dead"}]
      /\ \A r \in Rows : Quiet(rows[r], entry[r])
  BY DEF LInv, IInv, TypeOK, VoidInv
<1>2. phase' \in {"manage", "book", "void"}
  BY DEF Rebalance, RebalanceSkips, BookRefused, VoidLatest, RebalanceOpens, BookAccepted, BookRaises
<1>3. LadderInv'
  BY <1>2 DEF LadderInv, Managing
<1>4. CASE RebalanceSkips
  <2>1. rows' = rows /\ entry' = entry /\ phase' = "manage"
    BY <1>4 DEF RebalanceSkips
  <2> QED
    BY <1>1, <1>3, <2>1 DEF VoidInv, Managing, Quiet
<1>5. CASE BookRefused
  <2>1. rows' = rows /\ entry' = entry /\ phase = "book" /\ phase' = "void"
    BY <1>5 DEF BookRefused
  <2> QED
    BY <1>1, <1>3, <2>1 DEF LInv, VoidInv, Managing, Quiet
<1>6. CASE VoidLatest
  <2>1. entry' = entry /\ phase = "void" /\ phase' = "manage"
    BY <1>6 DEF VoidLatest
  <2>2. \A r \in Rows : Quiet(rows[r], entry[r])'
    <3>1. CASE rows' = rows
      BY <1>1, <2>1, <3>1 DEF Quiet
    <3>2. ASSUME NEW r \in Open(rows),
                 rows' = [rows EXCEPT ![r].status = "VOIDED_REJECT", ![r].realized = 0]
          PROVE  \A s \in Rows : Quiet(rows[s], entry[s])'
      <4>1. entry[r] = "none" /\ r \in Rows
        BY <2>1 DEF LInv, VoidInv, Open
      <4>2. \A s \in Rows \ {r} : rows'[s] = rows[s]
        BY <1>1, <3>2, <4>1
      <4> QED
        BY <1>1, <2>1, <4>1, <4>2 DEF Quiet
    <3> QED
      BY <1>6, <3>1, <3>2 DEF VoidLatest, IsLatest
  <2> QED
    BY <2>1, <2>2, <1>3 DEF VoidInv, Managing
<1>7. ASSUME NEW r \in Rows, RebalanceOpens(r) PROVE VoidInv'
  <2>1. /\ entry' = entry /\ phase' = "book" /\ Open(rows) = {} /\ rows[r].status = "NONE"
        /\ rows' = [rows EXCEPT ![r] = [NewRow EXCEPT !.status = "OPEN"]]
        /\ \A s \in Rows : rows[s].status # "NONE" => s < r
    BY <1>7 DEF RebalanceOpens, Unopened
  <2>2. rows'[r].status = "OPEN" /\ \A s \in Rows \ {r} : rows'[s] = rows[s]
    BY <1>1, <2>1, NewRowFacts DEF RowType
  <2>3. \A s \in Rows : Quiet(rows[s], entry[s])'
    BY <1>1, <2>1, <2>2 DEF Quiet
  <2>4. \A s \in Rows : rows'[s].status = "OPEN" => entry'[s] = "none"
    BY <1>1, <2>1, <2>2 DEF Quiet, Open
  <2>5. \A s \in Rows : IsLatest(s, Rows \ Unopened)' => s = r
    <3> SUFFICES ASSUME NEW s \in Rows, IsLatest(s, Rows \ Unopened)' PROVE s = r
      OBVIOUS
    <3>1. s >= r /\ rows'[s].status # "NONE"
      BY <2>2 DEF IsLatest, Unopened
    <3>2. s = r \/ s < r
      BY <2>1, <2>2, <3>1
    <3> QED
      BY <3>1, <3>2 DEF Rows
  <2> QED
    BY <2>1, <2>2, <2>3, <2>4, <2>5 DEF VoidInv, Managing
<1>8. ASSUME NEW r \in Rows, BookAccepted(r) \/ BookRaises(r) PROVE VoidInv'
  <2>1. /\ rows' = rows /\ phase = "book" /\ phase' = "manage" /\ IsLatest(r, Rows \ Unopened)
        /\ entry' = entry \/ entry' = [entry EXCEPT ![r] = "working"]
    BY <1>8 DEF BookAccepted, BookRaises
  <2>2. rows[r].status \notin {"NONE", "VOIDED_REJECT"}
    BY <2>1 DEF IsLatest, Unopened, LInv, VoidInv
  <2>3. \A s \in Rows : Quiet(rows[s], entry[s])'
    BY <1>1, <2>1, <2>2 DEF Quiet
  <2> QED
    BY <2>1, <2>3 DEF VoidInv, Managing
<1> QED
  BY <1>3, <1>4, <1>5, <1>6, <1>7, <1>8 DEF Rebalance

LEMMA BrokerKeeps == LInv /\ Broker => LadderInv' /\ VoidInv'
<1> SUFFICES ASSUME LInv, Broker PROVE LadderInv' /\ VoidInv'
  OBVIOUS
<1>1. rows' = rows /\ mem' = mem /\ phase' = phase
  BY DEF Broker, EntryFills, EntryDies, ExitFills, ExitDies, StopFires, passVars
<1>2. \A r \in Rows : entry[r] = "none" => entry'[r] = "none"
  <2>1. \/ entry' = entry
        \/ \E s \in Rows : entry[s] = "working" /\ entry' = [entry EXCEPT ![s] = "filled"]
        \/ \E s \in Rows : entry[s] = "working" /\ entry' = [entry EXCEPT ![s] = "dead"]
    BY DEF Broker, EntryFills, EntryDies, ExitFills, ExitDies, StopFires
  <2> QED
    BY <2>1 DEF LInv, IInv, TypeOK
<1>3. LadderInv'
  BY <1>1 DEF LInv, LadderInv
<1>4. \A r \in Rows : Quiet(rows[r], entry[r])'
  BY <1>1, <1>2 DEF LInv, VoidInv, Quiet
<1>5. phase' \in Managing \cup {"resolve"} => \A r \in Rows : Quiet(mem[r], entry[r])'
  BY <1>1, <1>2 DEF LInv, VoidInv, Quiet
<1>6. phase' \in {"book", "void"} => \A r \in Rows : rows'[r].status = "OPEN" => entry'[r] = "none"
  BY <1>1, <1>2 DEF LInv, VoidInv
<1>7. phase' = "book" => \A r \in Rows : IsLatest(r, Rows \ Unopened)' => rows'[r].status # "VOIDED_REJECT"
  BY <1>1 DEF LInv, VoidInv, Unopened, IsLatest
<1> QED
  BY <1>3, <1>4, <1>5, <1>6, <1>7 DEF VoidInv

LEMMA UnrelatedKeeps ==
    LInv /\ (PriceMoves \/ DaysPass \/ UNCHANGED vars) => LadderInv' /\ VoidInv'
<1> SUFFICES ASSUME LInv, PriceMoves \/ DaysPass \/ UNCHANGED vars PROVE LadderInv' /\ VoidInv'
  OBVIOUS
<1>1. rows' = rows /\ mem' = mem /\ phase' = phase /\ entry' = entry
  BY DEF PriceMoves, DaysPass, vars, brokerVars, passVars
<1> QED
  BY <1>1 DEF LInv, LadderInv, VoidInv, Quiet, IsLatest, Unopened

LEMMA CloseLatestKeeps == LInv /\ CloseLatest => LadderInv' /\ VoidInv'
<1> SUFFICES ASSUME LInv, CloseLatest PROVE LadderInv' /\ VoidInv'
  OBVIOUS
<1>1. mem' = mem /\ phase' = phase /\ entry' = entry
  BY DEF CloseLatest, brokerVars, passVars
<1>2. PICK r \in Open(rows) : rows' = [rows EXCEPT ![r].status = "CLOSED", ![r].realized = rows[r].left]
  BY DEF CloseLatest, IsLatest
<1>3. rows \in [Rows -> RowType] /\ r \in Rows /\ rows[r].status = "OPEN"
  BY DEF LInv, IInv, TypeOK, Open
<1>4. /\ rows'[r].status = "CLOSED" /\ rows'[r].tps = rows[r].tps /\ rows'[r].left = rows[r].left
      /\ \A s \in Rows \ {r} : rows'[s] = rows[s]
  BY <1>2, <1>3 DEF RowType
<1>5. LadderInv'
  BY <1>1, <1>3, <1>4 DEF LInv, LadderInv
<1>6. (\A s \in Rows : Quiet(rows[s], entry[s]))'
  BY <1>1, <1>4 DEF LInv, VoidInv, Quiet
<1>7. (phase \in Managing \cup {"resolve"} => \A s \in Rows : Quiet(mem[s], entry[s]))'
  BY <1>1 DEF LInv, VoidInv, Quiet
<1>8. (phase \in {"book", "void"} => \A s \in Rows : rows[s].status = "OPEN" => entry[s] = "none")'
  BY <1>1, <1>4 DEF LInv, VoidInv
<1>9. (phase = "book" => \A s \in Rows : IsLatest(s, Rows \ Unopened) => rows[s].status # "VOIDED_REJECT")'
  <2>1. Unopened' = Unopened
    BY <1>3, <1>4 DEF Unopened
  <2> QED
    BY <1>1, <1>4, <2>1 DEF LInv, VoidInv, IsLatest
<1> QED
  BY <1>5, <1>6, <1>7, <1>8, <1>9 DEF VoidInv

LEMMA CrashKeeps == LInv /\ Crash => LadderInv' /\ VoidInv'
<1> SUFFICES ASSUME LInv, Crash PROVE LadderInv' /\ VoidInv'
  OBVIOUS
<1>1. rows' = rows /\ entry' = entry /\ phase' = "manage"
  BY DEF Crash, brokerVars
<1> QED
  BY <1>1 DEF LInv, LadderInv, VoidInv, Managing, Quiet

LEMMA LInvStep == LInv /\ [Next]_vars => LInv'
<1> SUFFICES ASSUME LInv, [Next]_vars PROVE LInv'
  OBVIOUS
<1>1. IInv'
  BY StepTypes DEF LInv
<1>2. LadderInv' /\ VoidInv'
  <2>1. ASSUME NEW r \in Rows, MarkUnplanned(r) \/ MarkUnquoted(r) \/ MarkHolds(r) \/ MarkExits(r)
        PROVE  LadderInv' /\ VoidInv'
    BY <1>1, <2>1, MarkPasses, PassesKeep DEF LInv
  <2>2. ASSUME NEW fine \in BOOLEAN, Count(fine) PROVE LadderInv' /\ VoidInv'
    BY <1>1, <2>2, CountPasses, PassesKeep DEF LInv
  <2>3. ASSUME NEW fine \in BOOLEAN,
               ScaleRaises \/ Scaled \/ CloseFindsNone(fine) \/ CloseRefused \/ CloseRaises
        PROVE  LadderInv' /\ VoidInv'
    BY <1>1, <2>3, UnbankedPasses, PassesKeep DEF LInv
  <2>4. CASE ScaleRaises \/ Scaled \/ CloseRefused \/ CloseRaises
    <3>1. TRUE \in BOOLEAN
      OBVIOUS
    <3> QED
      BY <2>3, <2>4, <3>1
  <2>5. CASE ScaleSkips \/ ScaleAccepted \/ ScaleRefused
    BY <1>1, <2>5, ScalePasses, PassesKeep DEF LInv
  <2>6. CASE CloseSends \/ Commit
    BY <1>1, <2>6, CloseSendsPasses, CommitPasses, PassesKeep DEF LInv
  <2>7. CASE ManageReads \/ ManageSkips \/ ManageWrites
    BY <2>7, ReadKeeps, WriteKeeps
  <2>8. CASE Reconcile
    BY <2>8, ReconcileReadsKeeps, ReconcileWritesKeeps DEF Reconcile
  <2>9. CASE Rebalance \/ Broker \/ PriceMoves \/ DaysPass \/ CloseLatest \/ Crash \/ UNCHANGED vars
    BY <2>9, RebalanceKeeps, BrokerKeeps, UnrelatedKeeps, CloseLatestKeeps, CrashKeeps
  <2>10. CASE Manage
    BY <2>1, <2>2, <2>3, <2>4, <2>5, <2>6, <2>7, <2>10 DEF Manage
  <2> QED
    BY <2>8, <2>9, <2>10 DEF Next, Cycle
<1> QED
  BY <1>1, <1>2 DEF LInv

LEMMA LInvInit == Init => LInv
<1> SUFFICES ASSUME Init PROVE LInv
  OBVIOUS
<1>1. IInv
  BY InitTypes
<1>2. phase = "rebalance" /\ \A r \in Rows : entry[r] = "none"
  BY DEF Init
<1> QED
  BY <1>1, <1>2 DEF LInv, LadderInv, VoidInv, Managing, Quiet

\* A row is voided only for an order that never reached the book.
THEOREM VoidsCorrect == Spec => []VoidedNeverTraded
<1>1. LInv => VoidedNeverTraded
  BY DEF LInv, VoidInv, Quiet, VoidedNeverTraded
<1> QED
  BY <1>1, LInvInit, LInvStep, PTL DEF Spec

\* What the ledger may make of a row in one step.
Climbs(r) ==
    \/ rows'[r].tps >= rows[r].tps /\ rows'[r].left <= rows[r].left
    \/ rows[r].status = "CLOSED" /\ rows'[r].status = "OPEN"

LEMMA StepClimbs ==
    ASSUME LInv, [Next]_vars, NEW r \in Rows
    PROVE  Climbs(r)
<1>1. /\ rows \in [Rows -> RowType] /\ rows[r].tps \in Int /\ rows[r].left \in Int
      /\ mem[r] \in RowType /\ RowShape(rows[r])
  BY DEF LInv, IInv, TypeOK, RowType, Shapes
<1>2. CASE rows' = rows
  BY <1>1, <1>2 DEF Climbs
<1>3. CASE CloseLatest
  <2>1. PICK s \in Rows : rows' = [rows EXCEPT ![s].status = "CLOSED", ![s].realized = rows[s].left]
    BY <1>3 DEF CloseLatest
  <2>2. rows'[r].tps = rows[r].tps /\ rows'[r].left = rows[r].left
    BY <1>1, <2>1 DEF RowType
  <2> QED
    BY <1>1, <2>2 DEF Climbs
<1>4. CASE ManageWrites
  <2>1. rows'[r] = rows[r] \/ rows'[r] = mem[r]
    BY <1>4 DEF ManageWrites
  <2>2. mem[r].tps >= rows[r].tps /\ mem[r].left <= rows[r].left
    BY <1>4 DEF ManageWrites, LInv, LadderInv, Managing
  <2> QED
    BY <1>1, <2>1, <2>2 DEF Climbs
<1>5. ASSUME NEW fine \in BOOLEAN, ReconcileWrites(fine) PROVE Climbs(r)
  <2>1. PICK fills \in SUBSET OrderIds :
            rows' = IF Due(mem) = {} THEN rows
                    ELSE [s \in Rows |-> IF s \in Due(mem) THEN Resolved(mem[s], fills) ELSE mem[s]]
    BY <1>5 DEF ReconcileWrites
  <2>2. /\ mem[r].tps = rows[r].tps /\ mem[r].left = rows[r].left
        /\ mem[r].status = "CLOSED" => rows[r].status = "CLOSED"
    BY <1>5 DEF ReconcileWrites, LInv, LadderInv
  <2>3. CASE rows'[r] = rows[r] \/ rows'[r] = mem[r]
    BY <1>1, <2>2, <2>3 DEF Climbs
  <2>4. CASE r \in Due(mem) /\ rows'[r] = Resolved(mem[r], fills)
    <3>1. mem[r].status = "CLOSED" /\ TypeOK
      BY <2>4 DEF Due, LInv, IInv
    <3>2. \/ rows'[r].status = "OPEN"
          \/ rows'[r].tps = mem[r].tps /\ rows'[r].left = mem[r].left
      BY <1>1, <2>4, <3>1, ResolvedFacts
    <3> QED
      BY <1>1, <2>2, <3>1, <3>2 DEF Climbs
  <2> QED
    BY <2>1, <2>3, <2>4
<1>6. ASSUME NEW s \in Rows, RebalanceOpens(s) PROVE Climbs(r)
  <2>1. rows[s].status = "NONE" /\ rows' = [rows EXCEPT ![s] = [NewRow EXCEPT !.status = "OPEN"]]
    BY <1>6 DEF RebalanceOpens, Unopened
  <2>2. CASE r # s
    BY <1>1, <2>1, <2>2 DEF Climbs
  <2>3. CASE r = s
    <3>1. rows'[r].tps = 0 /\ rows'[r].left = Slices
      BY <1>1, <2>1, <2>3 DEF NewRow
    <3>2. rows[r].tps = 0 /\ rows[r].left = Slices
      BY <1>1, <2>1, <2>3 DEF RowShape
    <3> QED
      BY <1>1, <3>1, <3>2 DEF Climbs
  <2> QED
    BY <2>2, <2>3
<1>7. CASE VoidLatest
  <2>1. CASE rows' = rows
    BY <1>2, <2>1
  <2>2. ASSUME NEW s \in Rows,
               rows' = [rows EXCEPT ![s].status = "VOIDED_REJECT", ![s].realized = 0]
        PROVE  Climbs(r)
    <3>1. rows'[r].tps = rows[r].tps /\ rows'[r].left = rows[r].left
      BY <1>1, <2>2 DEF RowType
    <3> QED
      BY <1>1, <3>1 DEF Climbs
  <2> QED
    BY <1>7, <2>1, <2>2 DEF VoidLatest
<1>8. \/ rows' = rows
      \/ CloseLatest \/ ManageWrites \/ VoidLatest
      \/ \E fine \in BOOLEAN : ReconcileWrites(fine)
      \/ \E s \in Rows : RebalanceOpens(s)
  <2>1. CASE Manage
    BY <2>1 DEF Manage, ManageReads, ManageSkips, MarkUnplanned, MarkUnquoted, MarkHolds, MarkExits,
       Count, CloseFindsNone, ScaleSkips, ScaleAccepted, ScaleRefused, ScaleRaises, Scaled,
       CloseSends, CloseRefused, CloseRaises, Commit, Settle
  <2>2. CASE Reconcile \/ Rebalance
    BY <2>2 DEF Reconcile, ReconcileReads, Rebalance, RebalanceSkips, BookRefused, BookAccepted, BookRaises
  <2>3. CASE Broker \/ PriceMoves \/ DaysPass \/ Crash \/ UNCHANGED vars
    BY <2>3 DEF Broker, EntryFills, EntryDies, ExitFills, ExitDies, StopFires, PriceMoves, DaysPass,
       Crash, vars
  <2> QED
    BY <2>1, <2>2, <2>3 DEF Next, Cycle
<1> QED
  BY <1>2, <1>3, <1>4, <1>5, <1>6, <1>7, <1>8

\* Targets stay filled and shares stay sold in the ledger, except when
\* reconcile_closes reopens a row that was closed.
THEOREM LadderCorrect == Spec => LadderOnlyClimbs
<1>1. LInv /\ [Next]_vars => [\A r \in Rows : Climbs(r)]_vars
  BY StepClimbs
<1>2. Spec => []LInv
  BY LInvInit, LInvStep, PTL DEF Spec
<1>3. Spec => [][\A r \in Rows : Climbs(r)]_vars
  BY <1>1, <1>2, PTL DEF Spec
<1> QED
  BY <1>3 DEF LadderOnlyClimbs, Climbs

-----------------------------------------------------------------------------
(* The exits on record.                                                    *)
(*                                                                         *)
(* What the broker took and no row lists is counted where it is lost: a    *)
(* lost answer is a fault, and a restart forgets the orders noted in the   *)
(* copy of the pass since it was read.  Those are few because one row at   *)
(* most can exit in a pass, and its exit sends an order for each target    *)
(* and one for the close.                                                  *)

Between == Phases \ Managing

\* The orders of the broker that a ledger does not have on their rows, and
\* those a pass has noted in its copy only.
Lost(os, ledger) == {o \in OrderIds : os[o].row # Nothing /\ o \notin ledger[os[o].row].orders}
Newly == {o \in OrderIds : \E r \in Rows : o \in mem[r].orders /\ o \notin rows[r].orders}

Allowance == faults + (Targets + 1) * crashes

\* The orders an exit may have noted by now.
MayNote == IF phase = "mark" THEN Targets + 1
           ELSE IF phase = "commit" THEN call.next + 1 ELSE call.next

\* A reopened row keeps its plan and has no state: decide is never asked.
Actable(row) == row.status = "OPEN" /\ (row.plan => row.live)

Ledgered(ledger) ==
    /\ \A r, s \in Rows : Actable(ledger[r]) /\ Actable(ledger[s]) => r = s
    /\ \A r \in Rows : ledger[r].status = "NONE" => ledger[r].orders = {}

SameOrders == \A r \in Rows : mem[r].orders = rows[r].orders

RecInv ==
    /\ Ledgered(rows) /\ Ledgered(mem)
    /\ phase \in Between => Cardinality(Lost(exits, rows)) <= Allowance
    /\ phase = "resolve" => SameOrders
    /\ phase \in Managing => /\ Cardinality(Lost(exits, mem)) <= Allowance
                             /\ Cardinality(Newly) <= MayNote
                             /\ dirty \/ SameOrders
    /\ phase = "mark" /\ (\E r \in todo : Actable(mem[r])) => Newly = {}
    /\ phase \in Mirroring => Actable(mem[call.row]) /\ dirty

LEMMA Countable ==
    ASSUME NEW S \in SUBSET OrderIds
    PROVE  IsFiniteSet(S) /\ Cardinality(S) \in Nat
<1>1. IsFiniteSet(OrderIds)
  BY FS_Interval DEF OrderIds
<1> QED
  BY <1>1, FS_Subset, FS_CardinalityType

LEMMA FewerOrders ==
    ASSUME NEW S \in SUBSET OrderIds, NEW T \in SUBSET S
    PROVE  Cardinality(T) <= Cardinality(S)
BY Countable, FS_Subset

LEMMA OneOrderMore ==
    ASSUME NEW S \in SUBSET OrderIds, NEW i \in OrderIds, NEW T \in SUBSET (S \cup {i})
    PROVE  Cardinality(T) <= Cardinality(S) + 1
<1>1. S \cup {i} \in SUBSET OrderIds
  OBVIOUS
<1>2. Cardinality(T) <= Cardinality(S \cup {i})
  BY <1>1, FewerOrders
<1>3. Cardinality(S \cup {i}) = IF i \in S THEN Cardinality(S) ELSE Cardinality(S) + 1
  BY Countable, FS_AddElement
<1>4. Cardinality(T) \in Nat /\ Cardinality(S) \in Nat
  BY <1>1, Countable
<1> QED
  BY <1>2, <1>3, <1>4

LEMMA BothOrders ==
    ASSUME NEW S \in SUBSET OrderIds, NEW U \in SUBSET OrderIds, NEW T \in SUBSET (S \cup U)
    PROVE  Cardinality(T) <= Cardinality(S) + Cardinality(U)
<1>1. S \cup U \in SUBSET OrderIds /\ S \cap U \in SUBSET OrderIds
  OBVIOUS
<1>2. Cardinality(T) <= Cardinality(S \cup U)
  BY <1>1, FewerOrders
<1>3. Cardinality(S \cup U) = Cardinality(S) + Cardinality(U) - Cardinality(S \cap U)
  BY Countable, FS_Union
<1>4. /\ Cardinality(T) \in Nat /\ Cardinality(S) \in Nat /\ Cardinality(U) \in Nat
      /\ Cardinality(S \cup U) \in Nat /\ Cardinality(S \cap U) \in Nat
  BY <1>1, Countable
<1> QED
  BY <1>2, <1>3, <1>4

LEMMA NoOrders == Cardinality({}) = 0
BY FS_EmptySet

\* The counts are numbers, before and after a step.
LEMMA RecTypes ==
    /\ \A os, ledger : Lost(os, ledger) \in SUBSET OrderIds /\ Cardinality(Lost(os, ledger)) \in Nat
    /\ Newly \in SUBSET OrderIds /\ Cardinality(Newly) \in Nat
    /\ Newly' \in SUBSET OrderIds /\ Cardinality(Newly') \in Nat
    /\ TypeOK => Allowance \in Nat /\ faults \in Nat /\ crashes \in Nat /\ call.next \in Nat /\ MayNote \in Nat
    /\ TypeOK' => Allowance' \in Nat /\ faults' \in Nat /\ crashes' \in Nat /\ call'.next \in Nat /\ MayNote' \in Nat
<1>1. \A os, ledger : Lost(os, ledger) \in SUBSET OrderIds
  BY DEF Lost
<1>2. Newly \in SUBSET OrderIds /\ Newly' \in SUBSET OrderIds
  BY DEF Newly
<1>3. TypeOK => Allowance \in Nat /\ faults \in Nat /\ crashes \in Nat /\ call.next \in Nat /\ MayNote \in Nat
  BY DEF TypeOK, Allowance, Targets, CallType, MayNote
<1>4. TypeOK' => Allowance' \in Nat /\ faults' \in Nat /\ crashes' \in Nat /\ call'.next \in Nat /\ MayNote' \in Nat
  <2> SUFFICES ASSUME TypeOK'
               PROVE  Allowance' \in Nat /\ faults' \in Nat /\ crashes' \in Nat /\ call'.next \in Nat /\ MayNote' \in Nat
    OBVIOUS
  <2>1. faults' \in Nat /\ crashes' \in Nat /\ call'.next \in Nat
    BY DEF TypeOK, Targets, CallType
  <2>2. Allowance' \in Nat
    <3>1. \A a, b \in Nat : a + (Targets + 1) * b \in Nat
      BY DEF Targets
    <3> QED
      BY <2>1, <3>1 DEF Allowance
  <2>3. MayNote' \in Nat
    BY <2>1 DEF MayNote, Targets
  <2> QED
    BY <2>1, <2>2, <2>3
<1> QED
  BY <1>1, <1>2, <1>3, <1>4, Countable

-----------------------------------------------------------------------------
(* Steps that leave the orders, and where they are noted, alone. *)

LEMMA RestTouched ==
    ASSUME IInv, IInv', RecInv, Ledgered(rows)',
           \A r \in Rows : rows'[r].orders = rows[r].orders,
           \A o \in OrderIds : exits'[o].row = exits[o].row,
           UNCHANGED <<passVars, crashes>>, faults <= faults',
           phase' = phase \/ (phase \in Between \ {"resolve"} /\ phase' \in Between \ {"resolve"})
    PROVE  RecInv'
<1>1. mem' = mem /\ todo' = todo /\ dirty' = dirty /\ call' = call
  BY DEF passVars
<1>2. Lost(exits', rows') = Lost(exits, rows) /\ Lost(exits', mem') = Lost(exits, mem)
  <2>1. \A o \in OrderIds : exits[o].row # Nothing => exits[o].row \in Rows
    BY DEF IInv, TypeOK
  <2> QED
    BY <1>1, <2>1 DEF Lost
<1>3. Newly' = Newly /\ SameOrders' = SameOrders
  BY <1>1 DEF Newly, SameOrders
<1>4. Allowance <= Allowance'
  BY RecTypes DEF Allowance, IInv, Targets
<1>5. Ledgered(rows)' /\ Ledgered(mem)'
  BY <1>1 DEF RecInv, Ledgered, Actable
<1>6. (phase \in Between => Cardinality(Lost(exits, rows)) <= Allowance)'
  <2>1. phase' \in Between => phase \in Between
    OBVIOUS
  <2> QED
    BY <1>2, <1>4, <2>1, RecTypes DEF RecInv, IInv
<1>7. (phase \in Managing => /\ Cardinality(Lost(exits, mem)) <= Allowance
                             /\ Cardinality(Newly) <= MayNote
                             /\ dirty \/ SameOrders)'
  <2>1. phase' \in Managing => phase' = phase
    BY DEF Between
  <2>2. phase' = phase => MayNote' = MayNote
    BY <1>1 DEF MayNote
  <2> QED
    BY <1>1, <1>2, <1>3, <1>4, <2>1, <2>2, RecTypes DEF RecInv, IInv
<1>8. (phase = "resolve" => SameOrders)'
  BY <1>3 DEF RecInv
<1>9. (phase = "mark" /\ (\E r \in todo : Actable(mem[r])) => Newly = {})'
  BY <1>1, <1>3 DEF RecInv, Between, Managing, Actable
<1>10. (phase \in Mirroring => Actable(mem[call.row]) /\ dirty)'
  BY <1>1 DEF RecInv, Between, Managing, Mirroring, Actable
<1> QED
  BY <1>5, <1>6, <1>7, <1>8, <1>9, <1>10 DEF RecInv

\* Rows that open no exits, and none that was not there before.
LEMMA LedgerKept ==
    ASSUME RecInv,
           \A r \in Rows : /\ Actable(rows'[r]) => Actable(rows[r])
                           /\ rows'[r].status = "NONE" => rows[r].status = "NONE"
                           /\ rows'[r].orders = rows[r].orders
    PROVE  Ledgered(rows)'
BY DEF RecInv, Ledgered, Actable

LEMMA BrokerRecords == IInv /\ IInv' /\ RecInv /\ Broker => RecInv'
<1> SUFFICES ASSUME IInv, IInv', RecInv, Broker PROVE RecInv'
  OBVIOUS
<1>1. rows' = rows /\ phase' = phase /\ UNCHANGED <<passVars, crashes>>
  BY DEF Broker, EntryFills, EntryDies, ExitFills, ExitDies, StopFires
<1>2. faults <= faults'
  <2>1. faults' = faults \/ faults' = faults + 1
    BY DEF Broker, EntryFills, EntryDies, ExitFills, ExitDies, StopFires, Faults
  <2> QED
    BY <2>1, RecTypes DEF IInv
<1>3. \A o \in OrderIds : exits'[o].row = exits[o].row
  <2>1. \/ exits' = exits
        \/ \E o \in OrderIds : exits' = [exits EXCEPT ![o].state = "filled"]
        \/ \E o \in OrderIds : exits' = [exits EXCEPT ![o].state = "dead"]
    BY DEF Broker, EntryFills, EntryDies, ExitFills, ExitDies, StopFires
  <2> QED
    BY <2>1 DEF IInv, TypeOK
<1>4. Ledgered(rows)'
  BY <1>1, LedgerKept
<1> QED
  BY <1>1, <1>2, <1>3, <1>4, RestTouched

LEMMA UnrelatedRecords ==
    IInv /\ IInv' /\ RecInv /\ (PriceMoves \/ DaysPass \/ ManageSkips \/ UNCHANGED vars) => RecInv'
<1> SUFFICES ASSUME IInv, IInv', RecInv, PriceMoves \/ DaysPass \/ ManageSkips \/ UNCHANGED vars PROVE RecInv'
  OBVIOUS
<1>1. rows' = rows /\ exits' = exits /\ UNCHANGED <<passVars, crashes>> /\ faults' = faults
  BY DEF PriceMoves, DaysPass, ManageSkips, vars, brokerVars
<1>2. phase' = phase \/ (phase \in Between \ {"resolve"} /\ phase' \in Between \ {"resolve"})
  BY DEF PriceMoves, DaysPass, ManageSkips, ToPhase, vars, Between, Managing, Phases
<1>3. Ledgered(rows)' /\ faults <= faults'
  BY <1>1, LedgerKept, RecTypes DEF IInv
<1> QED
  BY <1>1, <1>2, <1>3, RestTouched

LEMMA CloseLatestRecords == IInv /\ IInv' /\ RecInv /\ CloseLatest => RecInv'
<1> SUFFICES ASSUME IInv, IInv', RecInv, CloseLatest PROVE RecInv'
  OBVIOUS
<1>1. PICK r \in Rows : rows' = [rows EXCEPT ![r].status = "CLOSED", ![r].realized = rows[r].left]
  BY DEF CloseLatest
<1>2. rows \in [Rows -> RowType] /\ rows[r] \in RowType
  BY DEF IInv, TypeOK
<1>3. /\ rows'[r].status = "CLOSED" /\ rows'[r].orders = rows[r].orders
      /\ \A s \in Rows \ {r} : rows'[s] = rows[s]
  BY <1>1, <1>2 DEF RowType
<1>4. Ledgered(rows)'
  BY <1>3, LedgerKept DEF Actable
<1>5. exits' = exits /\ phase' = phase /\ UNCHANGED <<passVars, crashes>> /\ faults <= faults'
  BY RecTypes DEF CloseLatest, brokerVars, IInv
<1>6. \A s \in Rows : rows'[s].orders = rows[s].orders
  BY <1>3
<1> QED
  BY <1>4, <1>5, <1>6, RestTouched

LEMMA RebalanceRecords == IInv /\ IInv' /\ RecInv /\ Rebalance => RecInv'
<1> SUFFICES ASSUME IInv, IInv', RecInv, Rebalance PROVE RecInv'
  OBVIOUS
<1>1. exits' = exits /\ UNCHANGED <<passVars, crashes>>
  BY DEF Rebalance, RebalanceSkips, BookRefused, VoidLatest, RebalanceOpens, BookAccepted, BookRaises,
     brokerVars
<1>2. phase \in Between \ {"resolve"} /\ phase' \in Between \ {"resolve"}
  BY DEF Rebalance, RebalanceSkips, BookRefused, VoidLatest, RebalanceOpens, BookAccepted, BookRaises,
     ToPhase, Between, Managing, Phases
<1>3. faults <= faults'
  <2>1. faults' = faults \/ faults' = faults + 1
    BY DEF Rebalance, RebalanceSkips, BookRefused, VoidLatest, RebalanceOpens, BookAccepted, BookRaises,
       Faults
  <2> QED
    BY <2>1, RecTypes DEF IInv
<1>4. rows \in [Rows -> RowType] /\ \A r \in Rows : rows[r] \in RowType
  BY DEF IInv, TypeOK
<1>5. Ledgered(rows)' /\ \A r \in Rows : rows'[r].orders = rows[r].orders
  <2>1. CASE rows' = rows
    BY <2>1, LedgerKept
  <2>2. ASSUME NEW r \in Rows, rows' = [rows EXCEPT ![r].status = "VOIDED_REJECT", ![r].realized = 0]
        PROVE  Ledgered(rows)' /\ \A s \in Rows : rows'[s].orders = rows[s].orders
    <3>1. /\ rows'[r].status = "VOIDED_REJECT" /\ rows'[r].orders = rows[r].orders
          /\ \A s \in Rows \ {r} : rows'[s] = rows[s]
      BY <1>4, <2>2 DEF RowType
    <3>2. \A s \in Rows : /\ Actable(rows'[s]) => Actable(rows[s])
                          /\ rows'[s].status = "NONE" => rows[s].status = "NONE"
                          /\ rows'[s].orders = rows[s].orders
      BY <3>1 DEF Actable
    <3> QED
      BY <3>2, LedgerKept
  <2>3. ASSUME NEW r \in Rows, RebalanceOpens(r)
        PROVE  Ledgered(rows)' /\ \A s \in Rows : rows'[s].orders = rows[s].orders
    <3>1. /\ rows' = [rows EXCEPT ![r] = [NewRow EXCEPT !.status = "OPEN"]]
          /\ Open(rows) = {} /\ rows[r].status = "NONE"
      BY <2>3 DEF RebalanceOpens, Unopened
    <3>2. /\ rows'[r].status = "OPEN" /\ rows'[r].orders = {} /\ rows[r].orders = {}
          /\ \A s \in Rows \ {r} : rows'[s] = rows[s]
      BY <1>4, <3>1 DEF NewRow, RecInv, Ledgered
    <3>3. \A s \in Rows : rows[s].status # "OPEN"
      BY <3>1 DEF Open
    <3>4. \A s \in Rows : Actable(rows'[s]) => s = r
      BY <3>2, <3>3 DEF Actable
    <3>5. \A s \in Rows : rows'[s].status = "NONE" => rows'[s].orders = {}
      BY <3>2 DEF RecInv, Ledgered
    <3>6. \A s \in Rows : rows'[s].orders = rows[s].orders
      BY <3>2
    <3> QED
      BY <3>4, <3>5, <3>6 DEF Ledgered
  <2>4. \/ rows' = rows
        \/ \E r \in Rows : rows' = [rows EXCEPT ![r].status = "VOIDED_REJECT", ![r].realized = 0]
        \/ \E r \in Rows : RebalanceOpens(r)
    BY DEF Rebalance, RebalanceSkips, BookRefused, VoidLatest, BookAccepted, BookRaises
  <2> QED
    BY <2>1, <2>2, <2>3, <2>4
<1> QED
  BY <1>1, <1>2, <1>3, <1>5, RestTouched

\* A restart loses what the pass noted, an exit's orders at most.
LEMMA CrashRecords == IInv /\ IInv' /\ RecInv /\ Crash => RecInv'
<1> SUFFICES ASSUME IInv, IInv', RecInv, Crash PROVE RecInv'
  OBVIOUS
<1>1. /\ rows' = rows /\ exits' = exits /\ mem' = NoRows /\ phase' = "manage" /\ todo' = {}
      /\ crashes' = crashes + 1 /\ faults' = faults
  BY DEF Crash, brokerVars
<1>2. Ledgered(rows)' /\ Ledgered(mem)'
  BY <1>1 DEF RecInv, Ledgered, Actable, NoRows, NewRow
<1>3. Allowance' = Allowance + (Targets + 1)
  <2>1. \A a, b \in Nat : a + (Targets + 1) * (b + 1) = (a + (Targets + 1) * b) + (Targets + 1)
    BY DEF Targets
  <2> QED
    BY <1>1, <2>1, RecTypes DEF Allowance, IInv
<1>4. Cardinality(Lost(exits, rows)) <= Allowance + (Targets + 1)
  <2>1. CASE phase \in Between
    BY <2>1, RecTypes DEF RecInv, IInv, Targets
  <2>2. CASE phase \notin Between
    <3>1. phase \in Managing
      BY <2>2 DEF Between, IInv, TypeOK
    <3>2. Lost(exits, rows) \in SUBSET (Lost(exits, mem) \cup Newly)
      <4>1. \A o \in OrderIds : exits[o].row # Nothing => exits[o].row \in Rows
        BY DEF IInv, TypeOK
      <4> QED
        BY <4>1 DEF Lost, Newly
    <3>3. Cardinality(Lost(exits, rows)) <= Cardinality(Lost(exits, mem)) + Cardinality(Newly)
      BY <3>2, RecTypes, BothOrders
    <3>4. MayNote <= Targets + 1
      <4>1. phase = "mark" \/ phase \in Mirroring
        BY <3>1 DEF Managing, Mirroring
      <4>2. phase \in Mirroring => call.next \in 0..Targets
        BY CallFacts
      <4> QED
        BY <4>1, <4>2 DEF MayNote, Targets
    <3>5. Cardinality(Lost(exits, mem)) <= Allowance /\ Cardinality(Newly) <= MayNote
      BY <3>1 DEF RecInv
    <3>6. Targets + 1 \in Nat
      BY DEF Targets
    <3> QED
      BY <3>3, <3>4, <3>5, <3>6, RecTypes DEF IInv
  <2> QED
    BY <2>1, <2>2
<1>5. Lost(exits', rows') = Lost(exits, rows)
  BY <1>1
<1> QED
  BY <1>1, <1>2, <1>3, <1>4, <1>5 DEF RecInv, Managing, Mirroring

-----------------------------------------------------------------------------
(* The manager's pass. *)

LEMMA ReadRecords == IInv /\ IInv' /\ RecInv /\ ManageReads => RecInv'
<1> SUFFICES ASSUME IInv, IInv', RecInv, ManageReads PROVE RecInv'
  OBVIOUS
<1>1. /\ rows' = rows /\ mem' = rows /\ exits' = exits /\ phase = "manage" /\ phase' = "mark"
      /\ faults' = faults /\ crashes' = crashes
  BY DEF ManageReads, ToPhase, brokerVars
<1>2. Newly' = {} /\ SameOrders' /\ Cardinality(Newly') = 0
  BY <1>1, NoOrders DEF Newly, SameOrders
<1>3. Ledgered(rows)' /\ Ledgered(mem)'
  BY <1>1 DEF RecInv, Ledgered, Actable
<1>4. Cardinality(Lost(exits', mem')) <= Allowance'
  BY <1>1 DEF RecInv, Allowance, Between, Managing, Phases
<1>5. Cardinality(Newly') <= MayNote'
  BY <1>2, RecTypes DEF IInv
<1> QED
  BY <1>1, <1>2, <1>3, <1>4, <1>5 DEF RecInv, Between, Managing, Mirroring

\* What a step of the pass makes of its copy: states as they were but for the
\* plan of row r, and `noted` more on its record.
Notes(r, noted) ==
    \A s \in Rows : /\ Actable(mem'[s]) => Actable(mem[s])
                    /\ mem'[s].status = "NONE" => mem[s].status = "NONE"
                    /\ mem'[s].orders = IF s = r THEN mem[s].orders \cup noted ELSE mem[s].orders

LEMMA CopyKept ==
    ASSUME IInv, RecInv, NEW r \in Rows, NEW noted, Notes(r, noted),
           mem[r].status = "OPEN" \/ noted = {}
    PROVE  Ledgered(mem)'
<1>1. \A s, t \in Rows : Actable(mem'[s]) /\ Actable(mem'[t]) => s = t
  BY DEF Notes, RecInv, Ledgered
<1>2. \A s \in Rows : mem'[s].status = "NONE" => mem'[s].orders = {}
  BY DEF Notes, RecInv, Ledgered
<1> QED
  BY <1>1, <1>2 DEF Ledgered

\* Nothing is noted and nothing is sent.
LEMMA NothingNoted ==
    ASSUME IInv, NEW r \in Rows, Notes(r, {}), rows' = rows,
           \A o \in OrderIds : exits'[o].row = exits[o].row
    PROVE  Newly' = Newly /\ (SameOrders => SameOrders') /\ Lost(exits', mem') = Lost(exits, mem)
<1>1. \A s \in Rows : mem'[s].orders = mem[s].orders
  BY DEF Notes
<1>2. \A o \in OrderIds : exits[o].row # Nothing => exits[o].row \in Rows
  BY DEF IInv, TypeOK
<1> QED
  BY <1>1, <1>2 DEF Newly, SameOrders, Lost

LEMMA ActsAsRead ==
    ASSUME NEW row \in RowType
    PROVE  /\ Ensured(row).orders = row.orders
           /\ Actable(Ensured(row)) <=> Actable(row)
           /\ row.status = "OPEN" /\ Ensured(row).live => Actable(row)
BY DEF Ensured, RowType, Actable

LEMMA MarkRecords ==
    ASSUME IInv, IInv', RecInv, NEW r \in Rows,
           MarkUnplanned(r) \/ MarkUnquoted(r) \/ MarkHolds(r) \/ MarkExits(r)
    PROVE  RecInv'
<1>1. /\ phase = "mark" /\ r \in todo /\ mem[r].status = "OPEN" /\ mem[r] \in RowType
      /\ mem \in [Rows -> RowType]
  BY DEF MarkUnplanned, MarkUnquoted, MarkHolds, MarkExits, NextRow, IInv, TypeOK, PassInv, Managing
<1>2. /\ rows' = rows /\ exits' = exits /\ faults' = faults /\ crashes' = crashes
      /\ dirty => dirty'
  BY DEF MarkUnplanned, MarkUnquoted, MarkHolds, MarkExits, brokerVars
<1> DEFINE row == Ensured(mem[r])
           moved == IF row.live THEN [row EXCEPT !.extreme = Extreme(row)] ELSE row
<1>3. /\ row \in RowType /\ row.status = "OPEN" /\ row.orders = mem[r].orders
      /\ Actable(row) <=> Actable(mem[r])
      /\ row.live => Actable(mem[r])
  BY <1>1, EnsuredFacts, ActsAsRead
<1>4. /\ moved.status = "OPEN" /\ moved.orders = mem[r].orders
      /\ Actable(moved) <=> Actable(mem[r])
  BY <1>3 DEF RowType, Actable
<1>5. \/ mem' = mem
      \/ mem' = [mem EXCEPT ![r] = row]
      \/ mem' = [mem EXCEPT ![r] = moved]
  BY DEF MarkUnplanned, MarkUnquoted, MarkHolds, MarkExits
<1> HIDE DEF row, moved
<1>6. Notes(r, {}) /\ (Actable(mem[r]) => Actable(mem'[r]))
  BY <1>1, <1>3, <1>4, <1>5 DEF Notes
<1>7. Ledgered(mem)' /\ Ledgered(rows)'
  BY <1>2, <1>6, CopyKept DEF RecInv, Ledgered, Actable
<1>8. Newly' = Newly /\ (SameOrders => SameOrders') /\ Lost(exits', mem') = Lost(exits, mem)
  BY <1>2, <1>6, NothingNoted
<1>9. /\ Cardinality(Lost(exits', mem')) <= Allowance'
      /\ dirty' \/ SameOrders'
  BY <1>1, <1>2, <1>8 DEF RecInv, Managing, Allowance
<1>10. CASE MarkUnplanned(r) \/ MarkUnquoted(r) \/ MarkHolds(r)
  <2>1. phase' = "mark" /\ todo' = todo \ {r}
    BY <1>1, <1>10 DEF MarkUnplanned, MarkUnquoted, MarkHolds
  <2>2. Cardinality(Newly') <= MayNote'
    BY <1>1, <1>8, <2>1 DEF RecInv, MayNote, Managing
  <2>3. (\E s \in todo : Actable(mem[s]))' => Newly' = {}
    <3>1. \A s \in todo' : s \in todo /\ s \in Rows
      BY <2>1 DEF IInv, TypeOK
    <3> QED
      BY <1>1, <1>6, <1>8, <3>1 DEF RecInv, Notes, Actable
  <2> QED
    BY <1>7, <1>9, <2>1, <2>2, <2>3 DEF RecInv, Between, Managing, Mirroring
<1>11. CASE MarkExits(r)
  <2>1. /\ phase' \in {"count", "scale"} /\ dirty' = TRUE /\ call'.row = r /\ Acts(row)
    BY <1>11 DEF MarkExits, ToPhase, row
  <2>2. Actable(mem[r])
    BY <1>3, <2>1 DEF Acts
  <2>3. Newly' = {} /\ Cardinality(Newly') = 0
    BY <1>1, <1>8, <2>2, NoOrders DEF RecInv
  <2>4. Cardinality(Newly') <= MayNote'
    BY <2>3, RecTypes DEF IInv
  <2>5. Actable(mem[call.row])'
    BY <1>6, <2>1, <2>2 DEF Actable
  <2> QED
    BY <1>7, <1>9, <2>1, <2>4, <2>5 DEF RecInv, Between, Managing, Mirroring
<1> QED
  BY <1>10, <1>11

-----------------------------------------------------------------------------
(* The exit being mirrored. *)

\* A step of the mirror that keeps within what an exit may note, and what may
\* be lost.
LEMMA MirrorRecords ==
    ASSUME IInv, RecInv, phase \in Mirroring, phase' \in Mirroring,
           rows' = rows, dirty' = dirty, call'.row = call.row,
           NEW noted, Notes(call.row, noted), Actable(mem'[call.row]),
           Cardinality(Lost(exits', mem')) <= Allowance',
           Cardinality(Newly') <= MayNote'
    PROVE  RecInv'
<1>1. call.row \in Rows /\ mem[call.row].status = "OPEN"
  BY CallFacts
<1>2. Ledgered(mem)' /\ Ledgered(rows)'
  BY <1>1, CopyKept DEF RecInv, Ledgered, Actable
<1>3. Actable(mem[call.row])' /\ dirty'
  BY DEF RecInv, Actable
<1> QED
  BY <1>2, <1>3 DEF RecInv, Between, Managing, Mirroring

\* The row of the call, as a step of the mirror leaves it.
LEMMA RowNotes ==
    ASSUME IInv, RecInv, phase \in Mirroring, NEW row, NEW noted,
           mem' = [mem EXCEPT ![call.row] = row],
           row.status = mem[call.row].status, row.plan = mem[call.row].plan,
           row.live = mem[call.row].live, row.orders = mem[call.row].orders \cup noted
    PROVE  Notes(call.row, noted) /\ Actable(mem'[call.row])
<1>1. call.row \in Rows /\ Actable(mem[call.row]) /\ mem \in [Rows -> RowType]
  BY CallFacts DEF RecInv, IInv, TypeOK
<1> QED
  BY <1>1 DEF Notes, Actable

\* A step that sends nothing.
LEMMA SilentRecords ==
    ASSUME IInv, IInv', RecInv, phase \in Mirroring, phase' \in Mirroring,
           rows' = rows, exits' = exits, dirty' = dirty, call'.row = call.row,
           Notes(call.row, {}), Actable(mem'[call.row]),
           faults <= faults', crashes' = crashes, MayNote <= MayNote'
    PROVE  RecInv'
<1>1. call.row \in Rows
  BY CallFacts
<1>2. Newly' = Newly /\ Lost(exits', mem') = Lost(exits, mem)
  BY <1>1, NothingNoted
<1>3. Allowance <= Allowance'
  BY RecTypes DEF Allowance, IInv, Targets
<1>4. Cardinality(Lost(exits, mem)) <= Allowance /\ Cardinality(Newly) <= MayNote
  BY DEF RecInv, Managing, Mirroring
<1> QED
  BY <1>2, <1>3, <1>4, RecTypes, MirrorRecords DEF IInv

\* The broker takes the order of a row.
LEMMA Taken ==
    ASSUME IInv, NEW qty \in Nat, NEW r \in Rows, Accepts(qty, r)
    PROVE  /\ NextOrder \in OrderIds
           /\ exits'[NextOrder].row = r
           /\ \A o \in OrderIds \ {NextOrder} : exits'[o].row = exits[o].row
           /\ \A o \in OrderIds : exits[o].row # Nothing => exits[o].row \in Rows
<1>1. NextOrder \in OrderIds
  BY OrderFacts DEF IInv
<1> QED
  BY <1>1 DEF Accepts, IInv, TypeOK

\* A step that sends an order and notes it.
LEMMA NotedRecords ==
    ASSUME IInv, IInv', RecInv, phase \in Mirroring, phase' \in Mirroring,
           rows' = rows, dirty' = dirty, call'.row = call.row,
           NEW qty \in Nat, Accepts(qty, call.row),
           Notes(call.row, {NextOrder}), Actable(mem'[call.row]),
           faults' = faults, crashes' = crashes, MayNote + 1 <= MayNote'
    PROVE  RecInv'
<1>1. call.row \in Rows
  BY CallFacts
<1>2. Lost(exits', mem') \in SUBSET Lost(exits, mem)
  BY <1>1, Taken DEF Lost, Notes
<1>3. Newly' \in SUBSET (Newly \cup {NextOrder}) /\ NextOrder \in OrderIds
  BY <1>1, Taken DEF Newly, Notes
<1>4. Cardinality(Lost(exits, mem)) <= Allowance /\ Cardinality(Newly) <= MayNote
  BY DEF RecInv, Managing, Mirroring
<1>5. Cardinality(Lost(exits', mem')) <= Allowance'
  <2>1. Cardinality(Lost(exits', mem')) <= Cardinality(Lost(exits, mem))
    BY <1>2, RecTypes, FewerOrders
  <2>2. Allowance' = Allowance
    BY DEF Allowance
  <2> QED
    BY <1>4, <2>1, <2>2, RecTypes DEF IInv
<1>6. Cardinality(Newly') <= MayNote'
  <2>1. Cardinality(Newly') <= Cardinality(Newly) + 1
    BY <1>3, RecTypes, OneOrderMore
  <2> QED
    BY <1>4, <2>1, RecTypes DEF IInv
<1> QED
  BY <1>5, <1>6, MirrorRecords

\* A step whose answer is lost: the order is the fault's.
LEMMA LostRecords ==
    ASSUME IInv, IInv', RecInv, phase \in Mirroring, phase' \in Mirroring,
           rows' = rows, mem' = mem, dirty' = dirty, call'.row = call.row,
           NEW qty \in Nat, Accepts(qty, call.row),
           faults' = faults + 1, crashes' = crashes, MayNote <= MayNote'
    PROVE  RecInv'
<1>1. call.row \in Rows /\ Actable(mem[call.row])
  BY CallFacts DEF RecInv
<1>2. Lost(exits', mem') \in SUBSET (Lost(exits, mem) \cup {NextOrder}) /\ NextOrder \in OrderIds
  BY <1>1, Taken DEF Lost
<1>3. Newly' = Newly
  BY DEF Newly
<1>4. Cardinality(Lost(exits, mem)) <= Allowance /\ Cardinality(Newly) <= MayNote
  BY DEF RecInv, Managing, Mirroring
<1>5. Cardinality(Lost(exits', mem')) <= Allowance'
  <2>1. Cardinality(Lost(exits', mem')) <= Cardinality(Lost(exits, mem)) + 1
    BY <1>2, RecTypes, OneOrderMore
  <2>2. Allowance' = Allowance + 1
    BY RecTypes DEF Allowance, IInv, Targets
  <2> QED
    BY <1>4, <2>1, <2>2, RecTypes DEF IInv
<1>6. Notes(call.row, {}) /\ Actable(mem'[call.row])
  BY <1>1 DEF Notes
<1>7. Cardinality(Newly') <= MayNote'
  BY <1>3, <1>4, RecTypes DEF IInv
<1> QED
  BY <1>5, <1>6, <1>7, MirrorRecords

LEMMA CountRecords == ASSUME IInv, IInv', RecInv, NEW fine \in BOOLEAN, Count(fine) PROVE RecInv'
<1>1. /\ phase \in Mirroring /\ phase = "count" /\ phase' \in {"scale", "commit"}
      /\ rows' = rows /\ exits' = exits /\ dirty' = dirty /\ call' = call /\ crashes' = crashes
  BY DEF Count, ToPhase, Mirroring, brokerVars
<1>2. faults <= faults'
  <2>1. faults' = faults \/ faults' = faults + 1
    BY DEF Count, Faults
  <2> QED
    BY <2>1, RecTypes DEF IInv
<1>3. MayNote <= MayNote'
  BY <1>1, RecTypes DEF MayNote, IInv
<1> DEFINE row == [mem[call.row] EXCEPT !.original = Position(fine)]
<1>4. mem' = [mem EXCEPT ![call.row] = row] \/ mem' = [mem EXCEPT ![call.row] = mem[call.row]]
  BY <1>1, CallFacts DEF Count, IInv, TypeOK
<1>5. /\ row.status = mem[call.row].status /\ row.plan = mem[call.row].plan
      /\ row.live = mem[call.row].live /\ row.orders = mem[call.row].orders \cup {}
  BY <1>1, CallFacts DEF RowType
<1> HIDE DEF row
<1>6. Notes(call.row, {}) /\ Actable(mem'[call.row])
  BY <1>1, <1>4, <1>5, RowNotes
<1>7. phase' \in Mirroring /\ call'.row = call.row
  BY <1>1 DEF Mirroring
<1> QED
  BY <1>1, <1>2, <1>3, <1>6, <1>7, SilentRecords

\* The copy of the row, left as it is.
LEMMA SameNotes ==
    ASSUME IInv, RecInv, phase \in Mirroring, mem' = mem
    PROVE  Notes(call.row, {}) /\ Actable(mem'[call.row])
BY DEF Notes, RecInv

\* What a slice makes of its row, but for the counts.
LEMMA BankingKeeps ==
    ASSUME NEW row \in RowType, NEW shares, NEW accepted
    PROVE  /\ Banking(row, shares, accepted).status = row.status
           /\ Banking(row, shares, accepted).plan = row.plan
           /\ Banking(row, shares, accepted).live = row.live
           /\ Banking(row, shares, accepted).orders = row.orders \cup accepted
BY DEF Banking, RowType

LEMMA BankingNotes ==
    ASSUME IInv, RecInv, phase \in Mirroring, NEW shares, NEW accepted,
           mem' = [mem EXCEPT ![call.row] = Banking(mem[call.row], shares, accepted)]
    PROVE  Notes(call.row, accepted) /\ Actable(mem'[call.row])
<1> DEFINE row == Banking(mem[call.row], shares, accepted)
<1>1. /\ row.status = mem[call.row].status /\ row.plan = mem[call.row].plan
      /\ row.live = mem[call.row].live /\ row.orders = mem[call.row].orders \cup accepted
  BY CallFacts, BankingKeeps
<1>2. mem' = [mem EXCEPT ![call.row] = row]
  OBVIOUS
<1> HIDE DEF row
<1> QED
  BY <1>1, <1>2, RowNotes

LEMMA ScaleRecords ==
    ASSUME IInv, IInv', RecInv, ScaleSkips \/ ScaleAccepted \/ ScaleRefused
    PROVE  RecInv'
<1>1. /\ phase = "scale" /\ phase' = "scale" /\ phase \in Mirroring /\ phase' \in Mirroring
      /\ rows' = rows /\ dirty' = dirty /\ crashes' = crashes
  BY DEF ScaleSkips, ScaleAccepted, ScaleRefused, Scaling, Mirroring, brokerVars
<1> DEFINE shares == ScaleShares(mem[call.row])
<1>2. call'.row = call.row /\ call'.next = call.next + 1
  <2>1. call \in CallType
    BY <1>1, CallFacts
  <2> QED
    BY <2>1 DEF ScaleSkips, ScaleAccepted, ScaleRefused, CallType
<1>3. MayNote + 1 = MayNote' /\ MayNote <= MayNote'
  BY <1>1, <1>2, RecTypes DEF MayNote, IInv
<1>4. shares \in Nat
  BY <1>1, CallFacts, ScaleFacts
<1> HIDE DEF shares
<1>5. CASE ScaleAccepted
  <2>1. /\ mem' = [mem EXCEPT ![call.row] = Banking(mem[call.row], shares, {NextOrder})]
        /\ Accepts(shares, call.row) /\ faults' = faults
    BY <1>5 DEF ScaleAccepted, shares
  <2>2. Notes(call.row, {NextOrder}) /\ Actable(mem'[call.row])
    BY <1>1, <2>1, BankingNotes
  <2>3. MayNote + 1 <= MayNote'
    BY <1>3, RecTypes DEF IInv
  <2> QED
    BY <1>1, <1>2, <1>4, <2>1, <2>2, <2>3, NotedRecords
<1>6. CASE ScaleSkips \/ ScaleRefused
  <2>1. /\ exits' = exits
        /\ \/ mem' = [mem EXCEPT ![call.row] = Banking(mem[call.row], 0, {})]
           \/ mem' = [mem EXCEPT ![call.row] = Banking(mem[call.row], shares, {})]
    BY <1>6 DEF ScaleSkips, ScaleRefused, brokerVars, shares
  <2>2. Notes(call.row, {}) /\ Actable(mem'[call.row])
    BY <1>1, <2>1, BankingNotes
  <2>3. faults <= faults'
    <3>1. faults' = faults \/ faults' = faults + 1
      BY <1>6 DEF ScaleSkips, ScaleRefused, Faults
    <3> QED
      BY <3>1, RecTypes DEF IInv
  <2> QED
    BY <1>1, <1>2, <1>3, <2>1, <2>2, <2>3, SilentRecords
<1> QED
  BY <1>5, <1>6

LEMMA UnbankedRecords ==
    ASSUME IInv, IInv', RecInv, NEW fine \in BOOLEAN,
           ScaleRaises \/ Scaled \/ CloseFindsNone(fine) \/ CloseRefused \/ CloseRaises
    PROVE  RecInv'
<1>1. /\ phase \in Mirroring /\ phase' \in Mirroring /\ mem' = mem /\ rows' = rows
      /\ dirty' = dirty /\ crashes' = crashes
  BY DEF ScaleRaises, Scaled, CloseFindsNone, CloseRefused, CloseRaises, Scaling, ToPhase,
     Mirroring, passVars
<1>2. call'.row = call.row /\ call'.next = call.next
  <2>1. call \in CallType
    BY <1>1, CallFacts
  <2>2. call' = call \/ call' = [call EXCEPT !.ok = FALSE]
    BY DEF ScaleRaises, Scaled, CloseFindsNone, CloseRefused, CloseRaises, passVars
  <2> QED
    BY <2>1, <2>2 DEF CallType
<1>3. MayNote <= MayNote'
  <2>1. phase # "mark" /\ phase' # "mark" /\ (phase = "commit" => phase' = "commit")
    BY <1>1 DEF ScaleRaises, Scaled, CloseFindsNone, CloseRefused, CloseRaises, Scaling, Mirroring
  <2> QED
    BY <1>2, <2>1, RecTypes DEF MayNote, IInv
<1>4. CASE exits' = exits
  <2>1. faults <= faults'
    <3>1. faults' = faults \/ faults' = faults + 1
      BY DEF ScaleRaises, Scaled, CloseFindsNone, CloseRefused, CloseRaises, Faults
    <3> QED
      BY <3>1, RecTypes DEF IInv
  <2>2. Notes(call.row, {}) /\ Actable(mem'[call.row])
    BY <1>1, SameNotes
  <2> QED
    BY <1>1, <1>2, <1>3, <1>4, <2>1, <2>2, SilentRecords
<1>5. CASE ScaleRaises /\ Accepts(ScaleShares(mem[call.row]), call.row)
  <2>1. ScaleShares(mem[call.row]) \in Nat /\ faults' = faults + 1
    BY <1>1, <1>5, CallFacts, ScaleFacts DEF ScaleRaises, Faults
  <2> QED
    BY <1>1, <1>2, <1>3, <1>5, <2>1, LostRecords
<1>6. CASE CloseRaises
  <2>1. /\ held - call.booked \in Nat /\ faults' = faults + 1
        /\ Accepts(held - call.booked, call.row)
    BY <1>1, <1>6, CallFacts DEF CloseRaises, Faults, IInv, TypeOK
  <2> QED
    BY <1>1, <1>2, <1>3, <2>1, LostRecords
<1> QED
  BY <1>4, <1>5, <1>6 DEF ScaleRaises, Scaled, CloseFindsNone, CloseRefused, brokerVars

LEMMA CloseSendsRecords == ASSUME IInv, IInv', RecInv, CloseSends PROVE RecInv'
<1>1. /\ phase = "close" /\ phase' = "commit" /\ phase \in Mirroring /\ phase' \in Mirroring
      /\ rows' = rows /\ dirty' = dirty /\ faults' = faults /\ crashes' = crashes
  BY DEF CloseSends, ToPhase, Mirroring
<1>2. call'.row = call.row /\ call'.next = call.next
  BY <1>1, CallFacts DEF CloseSends, CallType
<1>3. MayNote + 1 <= MayNote'
  BY <1>1, <1>2, RecTypes DEF MayNote, IInv
<1>4. held - call.booked \in Nat /\ Accepts(held - call.booked, call.row)
  BY <1>1, CallFacts DEF CloseSends, IInv, TypeOK
<1> DEFINE row == [mem[call.row] EXCEPT !.orders = @ \cup {NextOrder}]
<1>5. mem' = [mem EXCEPT ![call.row] = row]
  BY DEF CloseSends
<1>6. /\ row.status = mem[call.row].status /\ row.plan = mem[call.row].plan
      /\ row.live = mem[call.row].live /\ row.orders = mem[call.row].orders \cup {NextOrder}
  BY <1>1, CallFacts DEF RowType
<1> HIDE DEF row
<1>7. Notes(call.row, {NextOrder}) /\ Actable(mem'[call.row])
  BY <1>1, <1>5, <1>6, RowNotes
<1> QED
  BY <1>1, <1>2, <1>3, <1>4, <1>7, NotedRecords

\* The row that could exit has left the list, and no other can.
LEMMA CommitRecords == ASSUME IInv, IInv', RecInv, Commit PROVE RecInv'
<1>1. /\ phase = "commit" /\ phase' = "mark" /\ phase \in Mirroring /\ todo' = todo \ {call.row}
      /\ rows' = rows /\ exits' = exits /\ dirty' = dirty /\ faults' = faults /\ crashes' = crashes
  BY DEF Commit, Settle, ToPhase, Mirroring, brokerVars
<1> DEFINE row == IF call.ok THEN Committed(mem[call.row]) ELSE mem[call.row]
<1>2. mem' = [mem EXCEPT ![call.row] = row]
  BY DEF Commit, Settle
<1>3. call.row \in Rows /\ mem[call.row] \in RowType /\ mem[call.row].status = "OPEN" /\ call.next \in 0..Targets
  BY <1>1, CallFacts
<1>4. /\ row.plan = mem[call.row].plan /\ row.live = mem[call.row].live
      /\ row.orders = mem[call.row].orders /\ row.status \in {"OPEN", "CLOSED"}
  <2>1. /\ Committed(mem[call.row]).plan = mem[call.row].plan
        /\ Committed(mem[call.row]).live = mem[call.row].live
        /\ Committed(mem[call.row]).orders = mem[call.row].orders
    BY <1>3 DEF Committed, RowType
  <2>2. Committed(mem[call.row]).status \in {"OPEN", "CLOSED"}
    BY <1>1, CommittedFacts
  <2> QED
    BY <1>3, <2>1, <2>2
<1> HIDE DEF row
<1>5. Notes(call.row, {})
  BY <1>2, <1>3, <1>4 DEF Notes, Actable, IInv, TypeOK
<1>6. Ledgered(mem)' /\ Ledgered(rows)'
  BY <1>1, <1>3, <1>5, CopyKept DEF RecInv, Ledgered, Actable
<1>7. Newly' = Newly /\ Lost(exits', mem') = Lost(exits, mem)
  BY <1>1, <1>3, <1>5, NothingNoted
<1>8. Cardinality(Lost(exits', mem')) <= Allowance'
  BY <1>1, <1>7 DEF RecInv, Managing, Mirroring, Allowance
<1>9. Cardinality(Newly') <= MayNote'
  <2>1. Cardinality(Newly) <= call.next + 1
    BY <1>1 DEF RecInv, Managing, MayNote
  <2>2. MayNote' = Targets + 1
    BY <1>1 DEF MayNote
  <2> QED
    BY <1>3, <1>7, <2>1, <2>2, RecTypes DEF Targets
<1>10. \A r \in todo' : ~Actable(mem'[r])
  <2> SUFFICES ASSUME NEW r \in todo', Actable(mem'[r]) PROVE FALSE
    OBVIOUS
  <2>1. r \in Rows /\ r # call.row
    BY <1>1 DEF IInv, TypeOK
  <2>2. Actable(mem[r]) /\ Actable(mem[call.row])
    BY <1>1, <1>5, <2>1 DEF Notes, RecInv
  <2> QED
    BY <1>3, <2>1, <2>2 DEF RecInv, Ledgered
<1>11. ~(\E r \in todo : Actable(mem[r]))'
  BY <1>10 DEF Actable
<1>12. dirty'
  BY <1>1 DEF RecInv
<1> QED
  BY <1>1, <1>6, <1>8, <1>9, <1>11, <1>12 DEF RecInv, Between, Managing, Mirroring

\* The orders of a ledger are what is lost of it.
LEMMA LostByOrders ==
    ASSUME IInv, NEW one, NEW other, \A r \in Rows : one[r].orders = other[r].orders
    PROVE  Lost(exits, one) = Lost(exits, other)
BY DEF Lost, IInv, TypeOK

LEMMA WriteRecords == ASSUME IInv, IInv', RecInv, ManageWrites PROVE RecInv'
<1>1. /\ phase = "mark" /\ phase' = "reconcile" /\ mem' = NoRows /\ exits' = exits
      /\ rows' = (IF dirty THEN mem ELSE rows)
      /\ faults' = faults /\ crashes' = crashes
  BY DEF ManageWrites, ToPhase, brokerVars
<1>2. rows' = mem \/ rows' = rows
  BY <1>1
<1>3. Ledgered(rows)' /\ Ledgered(mem)'
  BY <1>1, <1>2 DEF RecInv, Ledgered, Actable, NoRows, NewRow
<1>4. Lost(exits, rows') = Lost(exits, mem)
  BY <1>1, LostByOrders DEF RecInv, Managing, SameOrders
<1>5. Cardinality(Lost(exits', rows')) <= Allowance'
  BY <1>1, <1>4 DEF RecInv, Managing, Allowance
<1> QED
  BY <1>1, <1>3, <1>5 DEF RecInv, Managing, Mirroring

-----------------------------------------------------------------------------
(* reconcile_closes. *)

LEMMA ReconcileReadsRecords ==
    ASSUME IInv, IInv', RecInv, NEW outcome \in {"ok", "refused", "raised"}, ReconcileReads(outcome)
    PROVE  RecInv'
<1>1. /\ phase = "reconcile" /\ phase' = "resolve" /\ mem' = rows /\ rows' = rows /\ exits' = exits
      /\ crashes' = crashes
  BY DEF ReconcileReads, ToPhase, brokerVars
<1>2. Allowance <= Allowance'
  <2>1. faults' = faults \/ faults' = faults + 1
    BY DEF ReconcileReads, Faults
  <2> QED
    BY <1>1, <2>1, RecTypes DEF Allowance, IInv, Targets
<1>3. Cardinality(Lost(exits, rows)) <= Allowance
  BY <1>1 DEF RecInv, Between, Managing, Phases
<1>4. Cardinality(Lost(exits', rows')) <= Allowance'
  BY <1>1, <1>2, <1>3, RecTypes DEF IInv
<1> QED
  BY <1>1, <1>4 DEF RecInv, Ledgered, Actable, SameOrders, Managing, Mirroring

\* A closed row that is judged keeps its orders, and exits no more.
LEMMA ResolvedKeeps ==
    ASSUME NEW row \in RowType, row.status = "CLOSED", NEW fills
    PROVE  /\ Resolved(row, fills).orders = row.orders
           /\ ~Actable(Resolved(row, fills))
           /\ Resolved(row, fills).status # "NONE"
<1>1. row.plan =>
         /\ Reverted(row).orders = row.orders /\ Reverted(row).status = "OPEN"
         /\ Reverted(row).plan /\ ~Reverted(row).live
  BY NewRowFacts DEF Reverted, NewRow
<1>2. Flagged(row).orders = row.orders /\ Flagged(row).status = "CLOSED"
  BY DEF Flagged, RowType
<1>3. Reconciled(row, fills).orders = row.orders /\ Reconciled(row, fills).status = "CLOSED"
  BY DEF Reconciled, RowType
<1>4. \/ Resolved(row, fills) = Reverted(row) /\ row.plan
      \/ Resolved(row, fills) = Flagged(row)
      \/ Resolved(row, fills) = Reconciled(row, fills)
  BY DEF Resolved
<1> QED
  BY <1>1, <1>2, <1>3, <1>4 DEF Actable

LEMMA ReconcileWritesRecords ==
    ASSUME IInv, IInv', RecInv, NEW fine \in BOOLEAN, ReconcileWrites(fine)
    PROVE  RecInv'
<1>1. /\ phase = "resolve" /\ phase' = "rebalance" /\ mem' = NoRows /\ exits' = exits
      /\ crashes' = crashes
  BY DEF ReconcileWrites, ToPhase, brokerVars
<1>2. Allowance <= Allowance'
  <2>1. faults' = faults \/ faults' = faults + 1
    BY DEF ReconcileWrites, Faults
  <2> QED
    BY <1>1, <2>1, RecTypes DEF Allowance, IInv, Targets
<1>3. PICK fills \in SUBSET OrderIds :
          rows' = IF Due(mem) = {} THEN rows
                  ELSE [r \in Rows |-> IF r \in Due(mem) THEN Resolved(mem[r], fills) ELSE mem[r]]
  BY DEF ReconcileWrites
<1>4. \A r \in Rows : mem[r] \in RowType /\ mem[r].orders = rows[r].orders
  BY <1>1 DEF RecInv, SameOrders, IInv, TypeOK
<1>5. \A r \in Due(mem) : /\ Resolved(mem[r], fills).orders = mem[r].orders
                          /\ ~Actable(Resolved(mem[r], fills))
                          /\ Resolved(mem[r], fills).status # "NONE"
  BY <1>4, ResolvedKeeps DEF Due
<1>6. \A r \in Rows : rows'[r].orders = rows[r].orders
  BY <1>3, <1>4, <1>5
<1>7. Ledgered(rows)'
  <2>1. CASE rows' = rows
    BY <2>1 DEF RecInv, Ledgered, Actable
  <2>2. CASE \A r \in Rows : rows'[r] = IF r \in Due(mem) THEN Resolved(mem[r], fills) ELSE mem[r]
    <3>1. \A r \in Rows : /\ Actable(rows'[r]) => Actable(mem[r])
                          /\ rows'[r].status = "NONE" => mem[r].status = "NONE" /\ rows'[r].orders = mem[r].orders
      BY <1>5, <2>2
    <3> QED
      BY <3>1 DEF RecInv, Ledgered
  <2> QED
    BY <1>3, <2>1, <2>2
<1>8. Ledgered(mem)'
  BY <1>1 DEF Ledgered, Actable, NoRows, NewRow
<1>9. Cardinality(Lost(exits, rows')) <= Allowance'
  <2>1. Lost(exits, rows') = Lost(exits, rows)
    BY <1>6, LostByOrders
  <2>2. Cardinality(Lost(exits, rows)) <= Allowance
    BY <1>1 DEF RecInv, Between, Managing, Phases
  <2> QED
    BY <1>2, <2>1, <2>2, RecTypes DEF IInv
<1> QED
  BY <1>1, <1>7, <1>8, <1>9 DEF RecInv, Managing, Mirroring

LEMMA RecordsStep == IInv /\ RecInv /\ [Next]_vars => IInv' /\ RecInv'
<1> SUFFICES ASSUME IInv, RecInv, [Next]_vars PROVE IInv' /\ RecInv'
  OBVIOUS
<1>1. IInv'
  BY StepTypes
<1>2. ASSUME NEW r \in Rows, MarkUnplanned(r) \/ MarkUnquoted(r) \/ MarkHolds(r) \/ MarkExits(r)
      PROVE  RecInv'
  BY <1>1, <1>2, MarkRecords
<1>3. ASSUME NEW fine \in BOOLEAN, Count(fine) PROVE RecInv'
  BY <1>1, <1>3, CountRecords
<1>4. ASSUME NEW fine \in BOOLEAN,
             ScaleRaises \/ Scaled \/ CloseFindsNone(fine) \/ CloseRefused \/ CloseRaises
      PROVE  RecInv'
  BY <1>1, <1>4, UnbankedRecords
<1>5. CASE ScaleRaises \/ Scaled \/ CloseRefused \/ CloseRaises
  <2>1. TRUE \in BOOLEAN
    OBVIOUS
  <2> QED
    BY <1>1, <1>4, <1>5, <2>1
<1>6. CASE ScaleSkips \/ ScaleAccepted \/ ScaleRefused \/ CloseSends \/ Commit
  BY <1>1, <1>6, ScaleRecords, CloseSendsRecords, CommitRecords
<1>7. CASE ManageReads \/ ManageSkips \/ ManageWrites
  BY <1>1, <1>7, ReadRecords, UnrelatedRecords, WriteRecords
<1>8. CASE Manage
  BY <1>1, <1>2, <1>3, <1>4, <1>5, <1>6, <1>7, <1>8 DEF Manage
<1>9. CASE Reconcile
  BY <1>1, <1>9, ReconcileReadsRecords, ReconcileWritesRecords DEF Reconcile
<1>10. CASE Rebalance \/ Broker \/ PriceMoves \/ DaysPass \/ CloseLatest \/ Crash \/ UNCHANGED vars
  BY <1>1, <1>10, RebalanceRecords, BrokerRecords, UnrelatedRecords, CloseLatestRecords, CrashRecords
<1> QED
  BY <1>1, <1>8, <1>9, <1>10 DEF Next, Cycle

LEMMA RecordsInit == Init => RecInv
<1> SUFFICES ASSUME Init PROVE RecInv
  OBVIOUS
<1>1. IInv /\ phase = "rebalance" /\ rows = NoRows /\ mem = NoRows
  BY InitTypes DEF Init
<1>2. Ledgered(rows) /\ Ledgered(mem)
  BY <1>1 DEF Ledgered, Actable, NoRows, NewRow
<1>3. Lost(exits, rows) = {}
  BY DEF Init, Lost
<1>4. Cardinality(Lost(exits, rows)) <= Allowance
  BY <1>1, <1>3, NoOrders, RecTypes DEF IInv
<1> QED
  BY <1>1, <1>2, <1>4 DEF RecInv, Managing, Mirroring

\* Between passes every exit the broker took is on its row, but for one order
\* for each lost answer and those of one exit for each restart.
THEOREM ExitsRecorded == Spec => []ExitsOnRecord
<1>1. IInv /\ RecInv => ExitsOnRecord
  BY DEF RecInv, ExitsOnRecord, Unrecorded, Lost, Allowance, Between, Managing, Phases
<1>2. Spec => [](IInv /\ RecInv)
  BY InitTypes, RecordsInit, RecordsStep, PTL DEF Spec
<1> QED
  BY <1>1, <1>2, PTL

-----------------------------------------------------------------------------
(* Sums of shares.                                                         *)
(*                                                                         *)
(* A sum over orders is the number of their shares, told apart by order:   *)
(* that set can be counted, joined and compared with the theorems on       *)
(* finite sets, where the fold that computes the sum cannot.               *)

Unit(o, n) == {o} \X (1..n)
Units(os, S) == UNION {Unit(o, os[o].qty) : o \in S}
Shares(os, S) == Cardinality(Units(os, S))

Counted(os, S) == S \in SUBSET OrderIds /\ \A o \in S : os[o].qty \in Nat

LEMMA UnitCounts ==
    ASSUME NEW o, NEW n \in Nat
    PROVE  IsFiniteSet(Unit(o, n)) /\ Cardinality(Unit(o, n)) = n
<1> DEFINE one == {o}
           all == 1..n
<1>1. IsFiniteSet(one) /\ Cardinality(one) = 1
  BY FS_Singleton
<1>2. IsFiniteSet(all) /\ Cardinality(all) = n
  BY FS_Interval
<1>3. Unit(o, n) = one \X all
  BY DEF Unit
<1> HIDE DEF one, all
<1>4. IsFiniteSet(one \X all) /\ Cardinality(one \X all) = 1 * n
  BY <1>1, <1>2, FS_Product
<1> QED
  BY <1>3, <1>4

LEMMA UnitsFinite ==
    ASSUME NEW os, NEW S, Counted(os, S)
    PROVE  IsFiniteSet(Units(os, S)) /\ Shares(os, S) \in Nat
<1> DEFINE Parts == {Unit(o, os[o].qty) : o \in S}
<1>1. \A T \in Parts : IsFiniteSet(T)
  BY UnitCounts DEF Counted
<1>2. IsFiniteSet(Parts)
  <2> DEFINE g == [o \in S |-> Unit(o, os[o].qty)]
  <2>1. g \in Surjection(S, Parts) /\ IsFiniteSet(S)
    BY Countable DEF Surjection, Counted
  <2> HIDE DEF g, Parts
  <2> QED
    BY <2>1, FS_Surjection
<1> HIDE DEF Parts
<1>3. IsFiniteSet(UNION Parts)
  BY <1>1, <1>2, FS_UNION
<1> QED
  BY <1>3, FS_CardinalityType DEF Units, Shares, Parts

LEMMA SharesOfOneMore ==
    ASSUME NEW os, NEW S, Counted(os, S), NEW o \in S
    PROVE  Shares(os, S) = os[o].qty + Shares(os, S \ {o})
<1> DEFINE one == Unit(o, os[o].qty)
           rest == Units(os, S \ {o})
<1>1. os[o].qty \in Nat /\ Counted(os, S \ {o})
  BY DEF Counted
<1>2. IsFiniteSet(rest) /\ Cardinality(rest) \in Nat /\ Shares(os, S \ {o}) = Cardinality(rest)
  BY <1>1, UnitsFinite DEF Shares
<1>3. IsFiniteSet(one) /\ Cardinality(one) = os[o].qty
  BY <1>1, UnitCounts
<1>4. Units(os, S) = one \cup rest
  BY DEF Units
<1>5. one \cap rest = {}
  BY DEF Units, Unit
<1> HIDE DEF one, rest
<1>6. Cardinality(one \cup rest) = Cardinality(one) + Cardinality(rest) - Cardinality(one \cap rest)
  BY <1>2, <1>3, FS_Union
<1>7. Cardinality(one \cap rest) = 0
  BY <1>5, FS_EmptySet
<1> QED
  BY <1>1, <1>2, <1>3, <1>4, <1>6, <1>7 DEF Shares

LEMMA SharesOfNone == ASSUME NEW os PROVE Shares(os, {}) = 0
<1>1. Units(os, {}) = {}
  BY DEF Units
<1> QED
  BY <1>1, FS_EmptySet DEF Shares

LEMMA SharesOfFewer ==
    ASSUME NEW os, NEW S, Counted(os, S), NEW T \in SUBSET S
    PROVE  Shares(os, T) <= Shares(os, S)
<1>1. Units(os, T) \in SUBSET Units(os, S)
  BY DEF Units
<1> QED
  BY <1>1, UnitsFinite, FS_Subset DEF Shares

LEMMA SharesOfSame ==
    ASSUME NEW os, NEW ps, NEW S, \A o \in S : os[o].qty = ps[o].qty
    PROVE  Shares(os, S) = Shares(ps, S)
BY DEF Shares, Units

\* The fold takes the orders one by one, in whatever order: a set it is wrong
\* of would have a smallest one.
LEMMA SumIsShares ==
    ASSUME NEW os, NEW S, Counted(os, S)
    PROVE  MapThenSumSet(LAMBDA o : os[o].qty, S) = Shares(os, S)
<1> DEFINE Picked(s) == CHOOSE o \in s : TRUE
           Folds(g) == g = [s \in SUBSET S |-> IF s = {} THEN 0
                                               ELSE os[Picked(s)].qty + g[s \ {Picked(s)}]]
           shares == [s \in SUBSET S |-> Shares(os, s)]
<1>1. MapThenSumSet(LAMBDA o : os[o].qty, S) = (CHOOSE g : Folds(g))[S]
  BY DEF MapThenSumSet, MapThenFoldSet
<1>2. \A s \in SUBSET S : s # {} => Picked(s) \in s
  OBVIOUS
<1> HIDE DEF Picked
<1>3. IsFiniteSet(S) /\ \A s \in SUBSET S : Counted(os, s)
  BY Countable DEF Counted
<1>4. \A s \in SUBSET S :
          s # {} => Shares(os, s) = os[Picked(s)].qty + Shares(os, s \ {Picked(s)})
  BY <1>2, <1>3, SharesOfOneMore
<1>5. Folds(shares)
  BY <1>4, SharesOfNone
<1>6. ASSUME NEW g, Folds(g) PROVE g[S] = shares[S]
  <2> DEFINE Wrong == {s \in SUBSET S : g[s] # shares[s]}
  <2>1. ASSUME Wrong # {} PROVE FALSE
    <3> HIDE DEF Wrong
    <3>1. IsWellFoundedOn(StrictSubsetOrdering(S), SUBSET S) /\ Wrong \subseteq SUBSET S
      BY <1>3, FS_StrictSubsetOrderingWellFounded, FS_FiniteSubsetsOfFinite DEF Wrong
    <3>2. PICK s \in Wrong : \A t \in Wrong : ~(<<t, s>> \in StrictSubsetOrdering(S))
      BY <2>1, <3>1, WFMin
    <3> USE DEF Wrong
    <3>3. s \in SUBSET S /\ s # {}
      BY <1>6, <3>2, SharesOfNone
    <3>4. s \ {Picked(s)} \notin Wrong
      BY <1>2, <3>2, <3>3 DEF StrictSubsetOrdering
    <3> QED
      BY <1>4, <1>6, <3>2, <3>3, <3>4
  <2> QED
    BY <2>1
<1> HIDE DEF Folds
<1>7. Folds(CHOOSE g : Folds(g))
  BY <1>5
<1>8. (CHOOSE g : Folds(g))[S] = shares[S]
  BY <1>6, <1>7
<1> QED
  BY <1>1, <1>8

-----------------------------------------------------------------------------
(* The profit taken from fills.                                            *)
(*                                                                         *)
(* The account holds what was bought, less at least what the filled exits  *)
(* sold; a row whose profit was taken from fills sold a whole lot of it.   *)

Filled(os) == {o \in OrderIds : os[o].state = "filled"}
Bought == {r \in Rows : entry[r] = "filled"}

\* An order once filled is filled, for the same shares.
FillsStand == \A o \in Filled(exits) : exits'[o] = exits[o]

Fits(os, row) ==
    /\ row.status \in {"NONE", "OPEN"} => row.basis = "none"
    /\ row.basis = "fills" => row.orders \subseteq Filled(os) /\ Shares(os, row.orders) = Lot

SoldInv == held + Shares(exits, Filled(exits)) <= Lot * Cardinality(Bought)
FitsInv == \A r \in Rows : Fits(exits, rows[r]) /\ Fits(exits, mem[r])

\* The row being opened has not been ordered.
BookInv == phase = "book" => \A r \in Rows : IsLatest(r, Rows \ Unopened) => entry[r] = "none"

FillInv == LInv /\ SoldInv /\ FitsInv /\ BookInv

LEMMA OrdersCounted ==
    /\ TypeOK => \A S \in SUBSET OrderIds : Counted(exits, S)
    /\ TypeOK' => \A S \in SUBSET OrderIds : Counted(exits', S)
<1>1. TypeOK => \A S \in SUBSET OrderIds : Counted(exits, S)
  BY DEF TypeOK, Counted
<1>2. TypeOK' => \A S \in SUBSET OrderIds : Counted(exits', S)
  BY DEF TypeOK, Counted
<1> QED
  BY <1>1, <1>2

LEMMA BoughtCounts ==
    /\ IsFiniteSet(Bought) /\ Cardinality(Bought) \in Nat
    /\ \A r \in Rows : Cardinality(Bought \cup {r}) = IF r \in Bought THEN Cardinality(Bought)
                                                      ELSE Cardinality(Bought) + 1
    /\ \A r \in Rows : Cardinality(Bought) <= Cardinality(Bought \ {r}) + 1
                       /\ Cardinality(Bought \ {r}) \in Nat
<1>1. IsFiniteSet(Rows) /\ Bought \in SUBSET Rows
  BY FS_Interval DEF Rows, Bought
<1>2. IsFiniteSet(Bought) /\ Cardinality(Bought) \in Nat
  BY <1>1, FS_Subset, FS_CardinalityType
<1>3. \A r \in Rows : /\ IsFiniteSet(Bought \ {r}) /\ Cardinality(Bought \ {r}) \in Nat
                      /\ Cardinality(Bought) <= Cardinality(Bought \ {r}) + 1
  <2> SUFFICES ASSUME NEW r \in Rows
               PROVE  /\ IsFiniteSet(Bought \ {r}) /\ Cardinality(Bought \ {r}) \in Nat
                      /\ Cardinality(Bought) <= Cardinality(Bought \ {r}) + 1
    OBVIOUS
  <2>1. /\ IsFiniteSet(Bought \ {r})
        /\ Cardinality(Bought \ {r}) = IF r \in Bought THEN Cardinality(Bought) - 1 ELSE Cardinality(Bought)
    BY <1>2, FS_RemoveElement
  <2>2. Cardinality(Bought \ {r}) \in Nat
    BY <2>1, FS_CardinalityType
  <2> QED
    BY <1>2, <2>1, <2>2
<1> QED
  BY <1>2, <1>3, FS_AddElement

\* Where no order is filled and no entry bought, no more is held against them.
LEMMA NothingTraded ==
    ASSUME TypeOK, TypeOK', SoldInv, FillsStand, Filled(exits') = Filled(exits),
           held' <= held, Bought' = Bought
    PROVE  SoldInv'
<1>1. Shares(exits', Filled(exits')) = Shares(exits, Filled(exits))
  BY SharesOfSame DEF FillsStand
<1>2. Shares(exits, Filled(exits)) \in Nat
  BY OrdersCounted, UnitsFinite DEF Filled
<1>3. Lot * Cardinality(Bought) \in Nat
  BY BoughtCounts
<1>4. held \in Nat /\ held' \in Nat
  BY DEF TypeOK
<1>5. held' + Shares(exits, Filled(exits)) <= Lot * Cardinality(Bought)
  BY <1>2, <1>3, <1>4 DEF SoldInv
<1> QED
  BY <1>1, <1>5 DEF SoldInv

LEMMA EntryFillsSold ==
    ASSUME TypeOK, SoldInv, NEW r \in Rows, EntryFills(r)
    PROVE  SoldInv' /\ FillsStand
<1>1. exits' = exits /\ held' = held + Lot /\ entry[r] = "working" /\ entry' = [entry EXCEPT ![r] = "filled"]
  BY DEF EntryFills
<1>2. Bought' = Bought \cup {r} /\ r \notin Bought
  BY <1>1 DEF Bought, TypeOK
<1>3. Cardinality(Bought') = Cardinality(Bought) + 1 /\ Cardinality(Bought) \in Nat
  BY <1>2, BoughtCounts
<1>4. Lot * (Cardinality(Bought) + 1) = Lot * Cardinality(Bought) + Lot /\ Lot * Cardinality(Bought) \in Nat
  BY <1>3
<1>5. Shares(exits, Filled(exits)) \in Nat /\ held \in Nat
  BY OrdersCounted, UnitsFinite DEF Filled, TypeOK
<1>6. held' + Shares(exits, Filled(exits)) <= Lot * Cardinality(Bought')
  <2> DEFINE bound == Lot * Cardinality(Bought)
             sold == Shares(exits, Filled(exits))
  <2>1. held + sold <= bound /\ bound \in Nat /\ sold \in Nat /\ held \in Nat
    BY <1>4, <1>5 DEF SoldInv
  <2>2. Lot * Cardinality(Bought') = bound + Lot
    BY <1>3, <1>4
  <2> HIDE DEF bound, sold
  <2>3. held + Lot + sold <= bound + Lot
    BY <2>1
  <2> QED
    BY <1>1, <2>2, <2>3 DEF sold
<1> QED
  BY <1>1, <1>6 DEF SoldInv, FillsStand

LEMMA ExitFillsSold ==
    ASSUME TypeOK, SoldInv, NEW o \in OrderIds, ExitFills(o)
    PROVE  SoldInv' /\ FillsStand
<1>1. /\ exits[o].state = "working" /\ exits' = [exits EXCEPT ![o].state = "filled"]
      /\ held' = held - exits[o].qty /\ entry' = entry
  BY DEF ExitFills
<1>2. /\ exits'[o].state = "filled" /\ exits'[o].qty = exits[o].qty
      /\ \A p \in OrderIds \ {o} : exits'[p] = exits[p]
  BY <1>1 DEF TypeOK
<1>3. FillsStand
  BY <1>1, <1>2 DEF FillsStand, Filled
<1>4. Filled(exits') = Filled(exits) \cup {o} /\ o \notin Filled(exits)
  BY <1>1, <1>2 DEF Filled
<1>5. Shares(exits', Filled(exits')) = exits[o].qty + Shares(exits, Filled(exits))
  <2>1. Counted(exits, Filled(exits'))
    BY OrdersCounted DEF Filled
  <2>2. Shares(exits', Filled(exits')) = Shares(exits, Filled(exits'))
    BY <1>2, SharesOfSame DEF Filled
  <2>3. Filled(exits') \ {o} = Filled(exits) /\ o \in Filled(exits')
    BY <1>4
  <2> QED
    BY <2>1, <2>2, <2>3, SharesOfOneMore
<1>6. Bought' = Bought
  BY <1>1 DEF Bought
<1>7. Shares(exits, Filled(exits)) \in Nat /\ held \in Nat /\ exits[o].qty \in Nat
  BY OrdersCounted, UnitsFinite DEF Filled, TypeOK
<1>8. held' + Shares(exits', Filled(exits')) = held + Shares(exits, Filled(exits))
  BY <1>1, <1>5, <1>7
<1> QED
  BY <1>3, <1>6, <1>8 DEF SoldInv

LEMMA AcceptsStand ==
    ASSUME TypeOK, NEW qty, NEW r, Accepts(qty, r)
    PROVE  FillsStand /\ Filled(exits') = Filled(exits)
<1>1. NextOrder \in OrderIds /\ exits[NextOrder].state = "unsent"
  BY DEF Accepts, NextOrder, Unsent
<1>2. /\ exits'[NextOrder].state = "working"
      /\ \A o \in OrderIds \ {NextOrder} : exits'[o] = exits[o]
  BY <1>1 DEF Accepts, TypeOK
<1> QED
  BY <1>1, <1>2 DEF FillsStand, Filled

LEMMA ExitDiesStand ==
    ASSUME TypeOK, NEW o \in OrderIds, ExitDies(o)
    PROVE  FillsStand /\ Filled(exits') = Filled(exits)
<1>1. exits[o].state = "working" /\ exits' = [exits EXCEPT ![o].state = "dead"]
  BY DEF ExitDies
<1>2. exits'[o].state = "dead" /\ \A p \in OrderIds \ {o} : exits'[p] = exits[p]
  BY <1>1 DEF TypeOK
<1> QED
  BY <1>1, <1>2 DEF FillsStand, Filled

LEMMA StepSold == FillInv /\ TypeOK' /\ [Next]_vars => SoldInv' /\ FillsStand
<1> SUFFICES ASSUME FillInv, TypeOK', [Next]_vars PROVE SoldInv' /\ FillsStand
  OBVIOUS
<1>1. TypeOK /\ SoldInv /\ BookInv /\ held \in Nat
  BY DEF FillInv, LInv, IInv, TypeOK
<1>2. ASSUME FillsStand, Filled(exits') = Filled(exits), held' <= held, entry' = entry
      PROVE  SoldInv' /\ FillsStand
  <2>1. Bought' = Bought
    BY <1>2 DEF Bought
  <2> QED
    BY <1>1, <1>2, <2>1, NothingTraded
<1>3. CASE exits' = exits /\ held' = held /\ entry' = entry
  <2>1. FillsStand /\ Filled(exits') = Filled(exits) /\ held' <= held
    BY <1>1, <1>3 DEF FillsStand
  <2> QED
    BY <1>2, <1>3, <2>1
<1>4. ASSUME NEW qty, NEW r, Accepts(qty, r), held' = held, entry' = entry
      PROVE  SoldInv' /\ FillsStand
  <2>1. FillsStand /\ Filled(exits') = Filled(exits) /\ held' <= held
    BY <1>1, <1>4, AcceptsStand
  <2> QED
    BY <1>2, <1>4, <2>1
<1>5. ASSUME NEW o \in OrderIds, ExitDies(o) PROVE SoldInv' /\ FillsStand
  <2>1. FillsStand /\ Filled(exits') = Filled(exits)
    BY <1>1, <1>5, ExitDiesStand
  <2>2. held' <= held /\ entry' = entry
    BY <1>1, <1>5 DEF ExitDies
  <2> QED
    BY <1>2, <2>1, <2>2
<1>6. CASE StopFires
  <2>1. exits' = exits /\ held' <= held /\ entry' = entry
    BY <1>1, <1>6 DEF StopFires
  <2>2. FillsStand /\ Filled(exits') = Filled(exits)
    BY <2>1 DEF FillsStand
  <2> QED
    BY <1>2, <2>1, <2>2
<1>7. ASSUME NEW r \in Rows, EntryDies(r) PROVE SoldInv' /\ FillsStand
  <2>1. exits' = exits /\ held' = held /\ Bought' = Bought
    BY <1>1, <1>7 DEF EntryDies, Bought, TypeOK
  <2> QED
    BY <1>1, <2>1, NothingTraded DEF FillsStand
<1>8. ASSUME NEW r \in Rows, BookAccepted(r) \/ BookRaises(r) PROVE SoldInv' /\ FillsStand
  <2>1. /\ exits' = exits /\ held' = held /\ phase = "book" /\ IsLatest(r, Rows \ Unopened)
        /\ entry' = entry \/ entry' = [entry EXCEPT ![r] = "working"]
    BY <1>8 DEF BookAccepted, BookRaises
  <2>2. entry[r] = "none"
    BY <1>1, <2>1 DEF BookInv
  <2>3. Bought' = Bought
    BY <1>1, <2>1, <2>2 DEF Bought, TypeOK
  <2> QED
    BY <1>1, <2>1, <2>3, NothingTraded DEF FillsStand
<1>9. CASE Manage
  <2>1. held' = held /\ entry' = entry
    BY <1>9 DEF Manage, ManageReads, ManageSkips, MarkUnplanned, MarkUnquoted, MarkHolds, MarkExits,
       Count, CloseFindsNone, ScaleSkips, ScaleAccepted, ScaleRefused, ScaleRaises, Scaled,
       CloseSends, CloseRefused, CloseRaises, Commit, Settle, ManageWrites, brokerVars
  <2>2. exits' = exits \/ \E qty, r : Accepts(qty, r)
    BY <1>9 DEF Manage, ManageReads, ManageSkips, MarkUnplanned, MarkUnquoted, MarkHolds, MarkExits,
       Count, CloseFindsNone, ScaleSkips, ScaleAccepted, ScaleRefused, ScaleRaises, Scaled,
       CloseSends, CloseRefused, CloseRaises, Commit, Settle, ManageWrites, brokerVars
  <2> QED
    BY <1>3, <1>4, <2>1, <2>2
<1>10. CASE Reconcile
  BY <1>3, <1>10 DEF Reconcile, ReconcileReads, ReconcileWrites, brokerVars
<1>11. CASE Rebalance
  <2>1. \/ exits' = exits /\ held' = held /\ entry' = entry
        \/ \E r \in Rows : BookAccepted(r) \/ BookRaises(r)
    BY <1>11 DEF Rebalance, RebalanceSkips, BookRefused, VoidLatest, RebalanceOpens, brokerVars
  <2> QED
    BY <1>3, <1>8, <2>1
<1>12. CASE PriceMoves \/ DaysPass \/ CloseLatest \/ Crash \/ UNCHANGED vars
  BY <1>3, <1>12 DEF PriceMoves, DaysPass, CloseLatest, Crash, vars, brokerVars
<1>13. CASE Broker
  BY <1>1, <1>5, <1>6, <1>7, <1>13, EntryFillsSold, ExitFillsSold DEF Broker
<1> QED
  BY <1>9, <1>10, <1>11, <1>12, <1>13 DEF Next, Cycle

\* What fits its orders still does when more of them are filled.
LEMMA FitsStand ==
    ASSUME FillsStand, NEW row, Fits(exits, row)
    PROVE  Fits(exits', row)
<1>1. Filled(exits) \subseteq Filled(exits')
  BY DEF FillsStand, Filled
<1>2. row.orders \subseteq Filled(exits) => Shares(exits', row.orders) = Shares(exits, row.orders)
  BY SharesOfSame DEF FillsStand
<1> QED
  BY <1>1, <1>2 DEF Fits

LEMMA StepFits == FillInv /\ IInv' /\ [Next]_vars => \A r \in Rows : Fits(exits, rows'[r]) /\ Fits(exits, mem'[r])
<1> SUFFICES ASSUME FillInv, IInv', [Next]_vars
             PROVE  \A r \in Rows : Fits(exits, rows'[r]) /\ Fits(exits, mem'[r])
  OBVIOUS
<1>1. /\ IInv /\ rows \in [Rows -> RowType] /\ mem \in [Rows -> RowType]
      /\ \A r \in Rows : Fits(exits, rows[r]) /\ Fits(exits, mem[r])
  BY DEF FillInv, LInv, IInv, TypeOK, FitsInv
<1>2. \A row : row.basis = "none" => Fits(exits, row)
  BY DEF Fits
<1>3. \A r \in Rows : Fits(exits, NoRows[r])
  BY <1>2 DEF NoRows, NewRow
<1>4. CASE UNCHANGED <<rows, mem>>
  BY <1>1, <1>4
\* A row of the copy is replaced by one that is open, or was.
<1>5. ASSUME rows' = rows, NEW r \in Rows, mem[r].status = "OPEN", mem'[r].basis = mem[r].basis,
             \A s \in Rows \ {r} : mem'[s] = mem[s]
      PROVE  \A s \in Rows : Fits(exits, rows'[s]) /\ Fits(exits, mem'[s])
  <2>1. mem'[r].basis = "none"
    BY <1>1, <1>5 DEF Fits
  <2> QED
    BY <1>1, <1>2, <1>5, <2>1
<1>6. ASSUME NEW r \in Rows, MarkUnplanned(r) \/ MarkUnquoted(r) \/ MarkHolds(r) \/ MarkExits(r)
      PROVE  \A s \in Rows : Fits(exits, rows'[s]) /\ Fits(exits, mem'[s])
  <2> DEFINE row == Ensured(mem[r])
             moved == IF row.live THEN [row EXCEPT !.extreme = Extreme(row)] ELSE row
  <2>1. mem[r].status = "OPEN" /\ mem[r] \in RowType /\ rows' = rows
    BY <1>1, <1>6 DEF MarkUnplanned, MarkUnquoted, MarkHolds, MarkExits, NextRow, IInv, PassInv, Managing
  <2>2. row.basis = mem[r].basis /\ row \in RowType
    BY <2>1, EnsuredFacts DEF Ensured, RowType
  <2>3. moved.basis = mem[r].basis
    BY <2>2 DEF RowType
  <2>4. \/ mem' = mem
        \/ mem' = [mem EXCEPT ![r] = row]
        \/ mem' = [mem EXCEPT ![r] = moved]
    BY <1>6 DEF MarkUnplanned, MarkUnquoted, MarkHolds, MarkExits
  <2> HIDE DEF row, moved
  <2>5. mem'[r].basis = mem[r].basis /\ \A s \in Rows \ {r} : mem'[s] = mem[s]
    BY <1>1, <2>2, <2>3, <2>4
  <2> QED
    BY <1>5, <2>1, <2>5
<1>7. ASSUME phase \in Mirroring, rows' = rows, mem' # mem,
             (\E fine \in BOOLEAN : Count(fine)) \/ ScaleSkips \/ ScaleAccepted \/ ScaleRefused
                 \/ CloseSends \/ Commit
      PROVE  \A s \in Rows : Fits(exits, rows'[s]) /\ Fits(exits, mem'[s])
  <2>1. call.row \in Rows /\ mem[call.row] \in RowType /\ mem[call.row].status = "OPEN"
    BY <1>1, <1>7, CallFacts
  <2>2. \A n : [mem[call.row] EXCEPT !.original = n].basis = mem[call.row].basis
    BY <2>1 DEF RowType
  <2>3. \A shares, accepted : Banking(mem[call.row], shares, accepted).basis = mem[call.row].basis
    BY <2>1 DEF Banking, RowType
  <2>4. \A orders : [mem[call.row] EXCEPT !.orders = orders].basis = mem[call.row].basis
    BY <2>1 DEF RowType
  <2>5. Committed(mem[call.row]).basis = mem[call.row].basis
    BY <2>1 DEF Committed, RowType
  <2>6. \E row : mem' = [mem EXCEPT ![call.row] = row] /\ row.basis = mem[call.row].basis
    <3>1. ASSUME NEW fine \in BOOLEAN, Count(fine)
          PROVE  \E row : mem' = [mem EXCEPT ![call.row] = row] /\ row.basis = mem[call.row].basis
      <4>1. mem' = [mem EXCEPT ![call.row] = [mem[call.row] EXCEPT !.original = Position(fine)]]
        BY <1>7, <2>1, <3>1 DEF Count
      <4> QED
        BY <2>2, <4>1
    <3>2. CASE ScaleSkips \/ ScaleAccepted \/ ScaleRefused
      <4>1. \E shares, accepted :
                mem' = [mem EXCEPT ![call.row] = Banking(mem[call.row], shares, accepted)]
        BY <3>2 DEF ScaleSkips, ScaleAccepted, ScaleRefused
      <4> QED
        BY <2>3, <4>1
    <3>3. CASE CloseSends
      <4>1. mem' = [mem EXCEPT ![call.row] = [mem[call.row] EXCEPT !.orders = mem[call.row].orders \cup {NextOrder}]]
        BY <2>1, <3>3 DEF CloseSends
      <4> QED
        BY <2>4, <4>1
    <3>4. CASE Commit
      BY <2>5, <3>4 DEF Commit, Settle
    <3> QED
      BY <1>7, <3>1, <3>2, <3>3, <3>4
  <2>7. mem'[call.row].basis = mem[call.row].basis /\ \A s \in Rows \ {call.row} : mem'[s] = mem[s]
    BY <1>1, <2>1, <2>6
  <2> QED
    BY <1>5, <1>7, <2>1, <2>7
<1>8. ASSUME NEW fine \in BOOLEAN, Count(fine) PROVE \A s \in Rows : Fits(exits, rows'[s]) /\ Fits(exits, mem'[s])
  BY <1>4, <1>7, <1>8 DEF Count, Mirroring
<1>9. CASE ScaleSkips \/ ScaleAccepted \/ ScaleRefused \/ CloseSends \/ Commit
  <2>1. phase \in Mirroring /\ rows' = rows
    BY <1>9 DEF ScaleSkips, ScaleAccepted, ScaleRefused, Scaling, CloseSends, Commit, Settle, Mirroring
  <2> QED
    BY <1>4, <1>7, <1>9, <2>1
<1>10. CASE ManageReads \/ \E outcome \in {"ok", "refused", "raised"} : ReconcileReads(outcome)
  BY <1>1, <1>10 DEF ManageReads, ReconcileReads
<1>11. CASE ManageWrites \/ Crash
  BY <1>1, <1>3, <1>11 DEF ManageWrites, Crash
<1>12. ASSUME NEW fine \in BOOLEAN, ReconcileWrites(fine)
       PROVE  \A s \in Rows : Fits(exits, rows'[s]) /\ Fits(exits, mem'[s])
  <2>1. PICK fills \in SUBSET Filled(exits) :
            rows' = IF Due(mem) = {} THEN rows
                    ELSE [r \in Rows |-> IF r \in Due(mem) THEN Resolved(mem[r], fills) ELSE mem[r]]
    BY <1>12 DEF ReconcileWrites, Filled
  <2>2. ASSUME NEW r \in Due(mem) PROVE Fits(exits, Resolved(mem[r], fills))
    <3> DEFINE row == mem[r]
    <3>1. row \in RowType /\ row.status = "CLOSED" /\ Fits(exits, row)
      BY <1>1, <2>2 DEF Due
    <3>2. Fits(exits, Reverted(row))
      <4>1. Reverted(row).basis = "none"
        BY DEF Reverted, NewRow
      <4> QED
        BY <1>2, <4>1
    <3>3. Fits(exits, Flagged(row))
      BY <3>1 DEF Flagged, Fits, RowType
    <3>4. Fits(exits, Reconciled(row, fills))
      <4> DEFINE next == Reconciled(row, fills)
      <4>1. /\ next.status = "CLOSED" /\ next.orders = row.orders
            /\ next.basis = IF SoldInFull(row, fills) THEN "fills"
                            ELSE IF row.basis = "none" THEN "quote_estimate" ELSE row.basis
        BY <3>1 DEF Reconciled, RowType
      <4>2. SoldInFull(row, fills) => row.orders \subseteq Filled(exits) /\ Shares(exits, row.orders) = Lot
        <5>1. Counted(exits, row.orders)
          BY <1>1, <3>1, OrdersCounted DEF IInv, RowType
        <5>2. MapThenSumSet(LAMBDA o : exits[o].qty, row.orders) = Shares(exits, row.orders)
          BY <5>1, SumIsShares
        <5> QED
          BY <2>1, <5>2 DEF SoldInFull
      <4> HIDE DEF next, row
      <4>3. Fits(exits, next)
        BY <3>1, <4>1, <4>2 DEF Fits
      <4> QED
        BY <4>3 DEF next
    <3>5. Resolved(row, fills) \in {Reverted(row), Flagged(row), Reconciled(row, fills)}
      BY DEF Resolved
    <3> QED
      BY <3>2, <3>3, <3>4, <3>5
  <2>3. mem' = NoRows
    BY <1>12 DEF ReconcileWrites
  <2> QED
    BY <1>1, <1>3, <2>1, <2>2, <2>3
<1>13. CASE CloseLatest
  <2>1. PICK r \in Open(rows) : rows' = [rows EXCEPT ![r].status = "CLOSED", ![r].realized = rows[r].left]
    BY <1>13 DEF CloseLatest, IsLatest
  <2>2. r \in Rows /\ rows[r].status = "OPEN" /\ mem' = mem
    BY <1>13 DEF Open, CloseLatest, passVars
  <2>3. rows'[r].basis = "none" /\ \A s \in Rows \ {r} : rows'[s] = rows[s]
    BY <1>1, <2>1, <2>2 DEF Fits, RowType
  <2> QED
    BY <1>1, <1>2, <2>2, <2>3
<1>14. CASE VoidLatest
  <2>1. mem' = mem
    BY <1>14 DEF VoidLatest, passVars
  <2>2. ASSUME NEW r \in Open(rows), rows' = [rows EXCEPT ![r].status = "VOIDED_REJECT", ![r].realized = 0]
        PROVE  \A s \in Rows : Fits(exits, rows'[s])
    <3>1. r \in Rows /\ rows[r].status = "OPEN"
      BY DEF Open
    <3>2. rows'[r].basis = "none" /\ \A s \in Rows \ {r} : rows'[s] = rows[s]
      BY <1>1, <2>2, <3>1 DEF Fits, RowType
    <3> QED
      BY <1>1, <1>2, <3>2
  <2> QED
    BY <1>1, <1>14, <2>1, <2>2 DEF VoidLatest, IsLatest
<1>15. ASSUME NEW r \in Rows, RebalanceOpens(r) PROVE \A s \in Rows : Fits(exits, rows'[s]) /\ Fits(exits, mem'[s])
  <2>1. mem' = mem /\ rows' = [rows EXCEPT ![r] = [NewRow EXCEPT !.status = "OPEN"]]
    BY <1>15 DEF RebalanceOpens, passVars
  <2>2. rows'[r].basis = "none" /\ \A s \in Rows \ {r} : rows'[s] = rows[s]
    BY <1>1, <2>1 DEF NewRow
  <2> QED
    BY <1>1, <1>2, <2>1, <2>2
<1>16. CASE \/ ManageSkips \/ ScaleRaises \/ Scaled \/ CloseRefused \/ CloseRaises
            \/ RebalanceSkips \/ BookRefused \/ Broker \/ PriceMoves \/ DaysPass \/ UNCHANGED vars
            \/ \E fine \in BOOLEAN : CloseFindsNone(fine)
            \/ \E r \in Rows : BookAccepted(r) \/ BookRaises(r)
  BY <1>4, <1>16 DEF ManageSkips, ScaleRaises, Scaled, CloseRefused, CloseRaises, RebalanceSkips,
     BookRefused, Broker, EntryFills, EntryDies, ExitFills, ExitDies, StopFires, PriceMoves, DaysPass,
     vars, CloseFindsNone, BookAccepted, BookRaises, passVars
<1>17. CASE Manage
  BY <1>6, <1>8, <1>9, <1>10, <1>11, <1>16, <1>17 DEF Manage
<1>18. CASE Reconcile \/ Rebalance
  BY <1>10, <1>12, <1>14, <1>15, <1>16, <1>18 DEF Reconcile, Rebalance
<1> QED
  BY <1>11, <1>13, <1>16, <1>17, <1>18 DEF Next, Cycle

LEMMA StepBooks == FillInv /\ [Next]_vars => BookInv'
<1> SUFFICES ASSUME FillInv, [Next]_vars, phase' = "book", NEW r \in Rows, IsLatest(r, Rows \ Unopened)'
             PROVE  entry'[r] = "none"
  BY DEF BookInv
<1>1. /\ rows \in [Rows -> RowType] /\ entry \in [Rows -> {"none", "working", "filled", "dead"}]
      /\ \A s \in Rows : Quiet(rows[s], entry[s])
  BY DEF FillInv, LInv, IInv, TypeOK, VoidInv
<1>2. ASSUME NEW s \in Rows, RebalanceOpens(s) PROVE entry'[r] = "none"
  <2>1. /\ entry' = entry /\ rows[s].status = "NONE"
        /\ rows' = [rows EXCEPT ![s] = [NewRow EXCEPT !.status = "OPEN"]]
        /\ \A t \in Rows : rows[t].status # "NONE" => t < s
    BY <1>2 DEF RebalanceOpens, Unopened, brokerVars
  <2>2. rows'[s].status = "OPEN" /\ \A t \in Rows \ {s} : rows'[t] = rows[t]
    BY <1>1, <2>1 DEF NewRow
  <2>3. r >= s /\ rows'[r].status # "NONE"
    BY <2>2 DEF IsLatest, Unopened
  <2>4. r = s \/ r < s
    BY <2>1, <2>2, <2>3
  <2>5. r = s
    BY <2>3, <2>4 DEF Rows
  <2> QED
    BY <1>1, <2>1, <2>5 DEF Quiet
<1>3. CASE phase = "book" /\ Unopened' = Unopened /\ entry[r] = "none"
  <2>1. UNCHANGED entry \/ \E s \in Rows : entry[s] = "working" /\ entry' \in {[entry EXCEPT ![s] = "filled"], [entry EXCEPT ![s] = "dead"]}
    <3>1. CASE Manage
      BY <1>3, <3>1 DEF Manage, ManageReads, ManageSkips, MarkUnplanned, MarkUnquoted, MarkHolds, MarkExits,
       NextRow, Count, CloseFindsNone, ScaleSkips, ScaleAccepted, ScaleRefused, ScaleRaises, Scaled, Scaling,
       CloseSends, CloseRefused, CloseRaises, Commit, ManageWrites
    <3>2. CASE Reconcile \/ Rebalance
      BY <1>3, <3>2 DEF Reconcile, ReconcileReads, ReconcileWrites, Rebalance, RebalanceSkips, BookRefused,
         VoidLatest, RebalanceOpens, BookAccepted, BookRaises, ToPhase
    <3>3. CASE Broker
      BY <3>3 DEF Broker, EntryFills, EntryDies, ExitFills, ExitDies, StopFires
    <3>4. CASE PriceMoves \/ DaysPass \/ CloseLatest \/ Crash \/ UNCHANGED vars
      BY <3>4 DEF PriceMoves, DaysPass, CloseLatest, Crash, vars, brokerVars
    <3> QED
      BY <3>1, <3>2, <3>3, <3>4 DEF Next, Cycle
  <2> QED
    BY <1>1, <1>3, <2>1
<1>4. CASE \A s \in Rows : ~RebalanceOpens(s)
  <2>1. phase = "book" /\ Unopened' = Unopened
    <3>1. CASE Manage
      BY <3>1 DEF Manage, ManageReads, ManageSkips, MarkUnplanned, MarkUnquoted, MarkHolds, MarkExits,
       NextRow, Count, CloseFindsNone, ScaleSkips, ScaleAccepted, ScaleRefused, ScaleRaises, Scaled, Scaling,
       CloseSends, CloseRefused, CloseRaises, Commit, Settle, ManageWrites, ToPhase
    <3>2. CASE Reconcile \/ Rebalance
      BY <1>4, <3>2 DEF Reconcile, ReconcileReads, ReconcileWrites, Rebalance, RebalanceSkips, BookRefused,
         VoidLatest, BookAccepted, BookRaises, ToPhase
    <3>3. CASE Broker \/ PriceMoves \/ DaysPass \/ Crash \/ UNCHANGED vars
      BY <3>3 DEF Broker, EntryFills, EntryDies, ExitFills, ExitDies, StopFires, PriceMoves, DaysPass, Crash,
         vars, Unopened
    <3>4. CASE CloseLatest
      <4>1. PICK s \in Open(rows) : rows' = [rows EXCEPT ![s].status = "CLOSED", ![s].realized = rows[s].left]
        BY <3>4 DEF CloseLatest, IsLatest
      <4>2. s \in Rows /\ rows[s].status = "OPEN" /\ rows'[s].status = "CLOSED"
            /\ \A t \in Rows \ {s} : rows'[t] = rows[t]
        BY <1>1, <4>1 DEF Open, RowType
      <4>3. Unopened' = Unopened
        BY <4>2 DEF Unopened
      <4> QED
        BY <3>4, <4>3 DEF CloseLatest
    <3> QED
      BY <3>1, <3>2, <3>3, <3>4 DEF Next, Cycle
  <2>2. entry[r] = "none"
    BY <2>1 DEF FillInv, BookInv, IsLatest
  <2> QED
    BY <1>3, <2>1, <2>2
<1> QED
  BY <1>2, <1>4

LEMMA FillInvStep == FillInv /\ [Next]_vars => FillInv'
<1> SUFFICES ASSUME FillInv, [Next]_vars PROVE FillInv'
  OBVIOUS
<1>1. LInv' /\ IInv' /\ TypeOK'
  BY LInvStep DEF FillInv, LInv, IInv
<1>2. SoldInv' /\ FillsStand
  BY <1>1, StepSold
<1>3. FitsInv'
  BY <1>1, <1>2, StepFits, FitsStand DEF FitsInv
<1>4. BookInv'
  BY StepBooks
<1> QED
  BY <1>1, <1>2, <1>3, <1>4 DEF FillInv

LEMMA FillInvInit == Init => FillInv
<1> SUFFICES ASSUME Init PROVE FillInv
  OBVIOUS
<1>1. LInv
  BY LInvInit
<1>2. Filled(exits) = {} /\ Bought = {} /\ held = 0
  BY DEF Init, Filled, Bought
<1>3. SoldInv
  <2>1. Cardinality(Bought) = 0 /\ Shares(exits, Filled(exits)) = 0
    BY <1>2, SharesOfNone, NoOrders
  <2> QED
    BY <1>2, <2>1 DEF SoldInv
<1>4. FitsInv /\ BookInv
  BY DEF Init, FitsInv, Fits, NoRows, NewRow, BookInv
<1> QED
  BY <1>1, <1>3, <1>4 DEF FillInv

\* A realized_pnl taken from fills is that of the whole position: what is left
\* in the account was bought for other rows.
THEOREM FillsCorrect == Spec => []FillsLeaveNothing
<1>1. FillInv => FillsLeaveNothing
  <2> SUFFICES ASSUME FillInv, NEW r \in Rows, rows[r].basis = "fills"
               PROVE  held <= Lot * Cardinality({s \in Rows \ {r} : entry[s] = "filled"})
    BY DEF FillsLeaveNothing
  <2>1. TypeOK /\ rows[r].orders \subseteq Filled(exits) /\ Shares(exits, rows[r].orders) = Lot
    BY DEF FillInv, LInv, IInv, FitsInv, Fits
  <2>2. Lot <= Shares(exits, Filled(exits)) /\ Shares(exits, Filled(exits)) \in Nat
    BY <2>1, OrdersCounted, UnitsFinite, SharesOfFewer DEF Filled
  <2>3. held + Lot <= Lot * Cardinality(Bought)
    <3>1. Lot * Cardinality(Bought) \in Nat /\ held \in Nat
      BY <2>1, BoughtCounts DEF TypeOK
    <3> QED
      BY <2>2, <3>1 DEF FillInv, SoldInv
  <2>4. {s \in Rows \ {r} : entry[s] = "filled"} = Bought \ {r}
    BY DEF Bought
  <2>5. Lot * Cardinality(Bought) <= Lot * Cardinality(Bought \ {r}) + Lot
    <3>1. \A a, b \in Nat : a <= b + 1 => Lot * a <= Lot * b + Lot
      <4> SUFFICES ASSUME NEW a \in Nat, NEW b \in Nat, a <= b + 1 PROVE Lot * a <= Lot * b + Lot
        OBVIOUS
      <4>1. Lot * (b + 1) = Lot * b + Lot
        OBVIOUS
      <4>2. Lot * a <= Lot * (b + 1)
        OBVIOUS
      <4> QED
        BY <4>1, <4>2
    <3> QED
      BY <3>1, BoughtCounts
  <2>6. held \in Nat /\ Lot * Cardinality(Bought) \in Nat /\ Lot * Cardinality(Bought \ {r}) \in Nat
    BY <2>1, BoughtCounts DEF TypeOK
  <2> QED
    BY <2>3, <2>4, <2>5, <2>6
<1> QED
  BY <1>1, FillInvInit, FillInvStep, PTL DEF Spec
=============================================================================
