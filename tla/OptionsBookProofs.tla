-------------------------- MODULE OptionsBookProofs --------------------------
(***************************************************************************)
(* For every size, every set of prices and orders, every way reads can     *)
(* fail and any number of restarts: OptionsBook is type correct, the       *)
(* ladder never gives up more than it banks, the stop ratchets, reconciled *)
(* rows are final, the row lives the life TradeLife promises, a P&L taken  *)
(* from fills is that of a trade sold in full, and, as long as no answer   *)
(* is lost, an open row claims no more than the account holds.             *)
(***************************************************************************)
EXTENDS OptionsBook, FiniteSetTheorems, TLAPS

\* decide always finds how far the price has gone, and never goes back.
LEMMA ReachedIsAhead ==
    ASSUME NEW filled \in 0..Targets, NEW p \in Int
    PROVE  Reached(filled, p) \in filled..Targets
<1> DEFINE n == IF filled = 3 \/ p >= 9 THEN 3
                ELSE IF filled = 2 \/ p >= 6 THEN 2
                ELSE IF filled = 1 \/ p >= 3 THEN 1 ELSE 0
<1>1. n \in filled..Targets /\ \A i \in (filled + 1)..n : p >= Target(i)
  BY DEF Targets, Target
<1>2. n < Targets => p < Target(n + 1)
  BY DEF Targets, Target
<1> QED BY <1>1, <1>2 DEF Reached

\* The ladder banks more at later targets and never all of a trade.
LEMMA LadderBanks ==
    ASSUME NEW contracts \in Nat
    PROVE  /\ \A i \in 0..Targets : Banked(contracts, i) \in 0..contracts
           /\ \A i, j \in 0..Targets : i <= j => Banked(contracts, i) <= Banked(contracts, j)
           /\ contracts > 0 => \A i \in 0..Targets : Banked(contracts, i) < contracts
<1>1. /\ Banked(contracts, 0) = 0
      /\ Banked(contracts, 1) = contracts \div 4
      /\ Banked(contracts, 2) = (contracts + contracts) \div 4
      /\ Banked(contracts, 3) = (contracts + contracts + contracts) \div 4
  BY DEF Banked
<1>2. \A i \in 0..Targets : i = 0 \/ i = 1 \/ i = 2 \/ i = 3
  BY DEF Targets
<1> QED BY <1>1, <1>2

\* allocate: "the runner is never zero for a position of at least one contract".
THEOREM RunnerIsNeverZero ==
    ASSUME NEW contracts \in Nat \ {0}
    PROVE  Runner(contracts) >= 1
BY LadderBanks DEF Runner, Targets, Banked

\* current_stop only tightens as targets fill and the extreme advances.
LEMMA StopTightens ==
    ASSUME NEW a \in 0..Targets, NEW b \in 0..Targets, a <= b,
           NEW e \in Int, NEW f \in Int, e <= f
    PROVE  Stop(b, f) >= Stop(a, e)
BY DEF Stop, Targets, Target, InitialStop, Trail

-----------------------------------------------------------------------------

\* The entry is sent once, and its fills bound what is held.
EntryOnce ==
    /\ row.status = "NONE" => phase \notin {"closing", "placing", "writing", "book", "log"}
    /\ row.status = "NONE" \/ phase = "book" => entry.state = "none"
    /\ entry.state = "none" => entry.filled = 0
    /\ entry.state = "working" => entry.filled < Lot
    /\ held <= entry.filled

\* A working close has something left to sell.
ClosesHaveWork == \A o \in OrderIds : closes[o].state = "working" => closes[o].done < closes[o].qty

\* While a close is booked the row stands as it was read, and the manager's
\* copy is ahead of it on the ladder.
Booking == phase \in {"closing", "placing", "writing"}
CopyIsAhead ==
    Booking =>
        /\ row.status = "OPEN"
        /\ mem.status = "OPEN"
        /\ mem.reconciled = FALSE
        /\ mem.remaining = row.remaining
        /\ mem.targets_filled >= row.targets_filled
        /\ mem.extreme >= row.extreme

\* What a tranche may take leaves the copy what the ladder does not bank.
TrancheFits ==
    Booking /\ ~call.urgent =>
        /\ call.want > 0
        /\ mem.remaining - call.want >= Lot - Banked(Lot, mem.targets_filled)

CallIsBounded ==
    /\ phase = "placing" => call.live > 0
    /\ phase = "writing" /\ ~call.urgent => call.booked <= call.want

\* Reconciled rows are closed rows.
ReconciledIsClosed == row.reconciled => row.status = "CLOSED"

IInv ==
    /\ TypeOK
    /\ EntryOnce
    /\ ClosesHaveWork
    /\ CopyIsAhead
    /\ TrancheFits
    /\ CallIsBounded
    /\ ReconciledIsClosed
    /\ RunnerSurvives

-----------------------------------------------------------------------------

USE LotAssumption, PricesAssumption, ReadsAssumption, AnswersAssumption, CrashesAssumption
    DEF ReadOutcomes

\* The initial states satisfy the invariant.
LEMMA InitHolds == Init => IInv
<1> SUFFICES ASSUME Init PROVE IInv
  OBVIOUS
<1>1. Banked(Lot, 0) = 0
  BY DEF Banked
<1>2. TypeOK
  <2> USE DEF Init
  <2>1. NewRow \in RowType
    BY DEF NewRow, RowType, Targets
  <2>2. NoCall \in CallType
    BY DEF NoCall, CallType
  <2>3. closes \in [OrderIds -> CloseType]
    BY DEF CloseType
  <2>4. /\ forecast \in {"none", "PENDING", "PLACE_FAILED", "FILLED", "UNFILLED"}
        /\ entry \in [state : {"none", "working", "done"}, filled : 0..Lot]
        /\ held \in 0..Lot
        /\ phase \in Phases
        /\ crashes \in 0..MaxCrashes
    BY DEF Phases
  <2> QED BY <2>1, <2>2, <2>3, <2>4 DEF TypeOK
<1>3. EntryOnce /\ ClosesHaveWork /\ CopyIsAhead /\ TrancheFits /\ CallIsBounded /\ ReconciledIsClosed
  BY DEF Init, EntryOnce, ClosesHaveWork, CopyIsAhead, TrancheFits, CallIsBounded,
         ReconciledIsClosed, Booking, NewRow
<1>4. RunnerSurvives
  BY <1>1 DEF Init, RunnerSurvives, NewRow
<1> QED BY <1>2, <1>3, <1>4 DEF IInv

\* The manager's copy of an open row: further on the ladder, nothing given up.
LEMMA AdvancedIsAhead ==
    ASSUME TypeOK, RunnerSurvives
    PROVE  /\ Advanced \in RowType
           /\ Advanced.targets_filled = Reached(row.targets_filled, price)
           /\ Advanced.targets_filled >= row.targets_filled
           /\ Advanced.extreme >= row.extreme
           /\ Advanced.remaining = row.remaining
           /\ Advanced.status = row.status
           /\ Advanced.reconciled = row.reconciled
           /\ Advanced.remaining >= Lot - Banked(Lot, Advanced.targets_filled)
<1> DEFINE extreme == IF price > row.extreme THEN price ELSE row.extreme
           reached == Reached(row.targets_filled, price)
<1>1. /\ row \in RowType
      /\ price \in Int
      /\ row.targets_filled \in 0..Targets
      /\ row.extreme \in Int
      /\ row.remaining \in Int
  BY DEF TypeOK, RowType
<1>2. reached \in row.targets_filled..Targets
  BY <1>1, ReachedIsAhead
<1>3. reached \in 0..Targets
  BY <1>1, <1>2 DEF Targets
<1>4. /\ Banked(Lot, row.targets_filled) <= Banked(Lot, reached)
      /\ Banked(Lot, row.targets_filled) \in Int
      /\ Banked(Lot, reached) \in Int
  BY <1>1, <1>2, <1>3, LadderBanks DEF Targets
<1>5. extreme \in Int /\ extreme >= row.extreme
  BY <1>1
<1>6. Advanced = [row EXCEPT !.extreme = extreme, !.targets_filled = reached]
  BY DEF Advanced
<1>8. reached = Reached(row.targets_filled, price)
  OBVIOUS
<1> HIDE DEF extreme, reached
<1>7. /\ Advanced \in RowType
      /\ Advanced.extreme = extreme
      /\ Advanced.targets_filled = reached
      /\ Advanced.remaining = row.remaining
      /\ Advanced.status = row.status
      /\ Advanced.reconciled = row.reconciled
  BY <1>1, <1>3, <1>5, <1>6 DEF RowType
<1> QED BY <1>1, <1>2, <1>4, <1>5, <1>7, <1>8 DEF RunnerSurvives, Targets

\* A step that leaves the row, the entry and its fills alone, and books nothing.
LEMMA QuietStep ==
    ASSUME IInv, TypeOK',
           phase' \notin {"closing", "placing", "writing", "book", "log"},
           UNCHANGED <<row, entry>>, held' <= entry.filled,
           \A o \in OrderIds : closes'[o].state = "working" => closes'[o].done < closes'[o].qty
    PROVE  IInv'
BY DEF IInv, EntryOnce, ClosesHaveWork, CopyIsAhead, TrancheFits, CallIsBounded,
       ReconciledIsClosed, RunnerSurvives, Booking

\* A step that leaves the row and the manager alone: the broker, the market.
LEMMA OutsideStep ==
    ASSUME IInv, TypeOK', UNCHANGED <<row, phase, mem, call>>, EntryOnce', ClosesHaveWork'
    PROVE  IInv'
BY DEF IInv, CopyIsAhead, TrancheFits, CallIsBounded, ReconciledIsClosed, RunnerSurvives,
       Booking

\* Fills, expiries and the market leave the trade's books in order.
LEMMA BrokerSteps == IInv /\ (Broker \/ World) => IInv'
<1> SUFFICES ASSUME IInv, Broker \/ World PROVE IInv'
  OBVIOUS
<1> USE DEF fileVars, brokerVars, worldVars, localVars
<1>1. CASE EntryFills
  <2>1. /\ entry.filled \in 0..Lot /\ entry.filled < Lot
        /\ held \in 0..Lot /\ held <= entry.filled
        /\ entry.state = "working"
    BY <1>1 DEF IInv, TypeOK, EntryOnce, EntryFills
  <2>2. /\ entry'.filled = entry.filled + 1
        /\ entry'.state \in {"working", "done"}
        /\ entry'.state = "working" => entry.filled + 1 # Lot
        /\ held' = held + 1
        /\ entry' \in [state : {"none", "working", "done"}, filled : 0..Lot]
    BY <1>1, <2>1 DEF EntryFills
  <2>3. TypeOK'
    BY <1>1, <2>1, <2>2 DEF IInv, TypeOK, EntryFills
  <2>4. EntryOnce'
    BY <1>1, <2>1, <2>2 DEF IInv, TypeOK, EntryOnce, EntryFills
  <2>5. ClosesHaveWork'
    BY <1>1 DEF IInv, ClosesHaveWork, EntryFills
  <2> QED BY <1>1, <2>3, <2>4, <2>5, OutsideStep DEF EntryFills
<1>2. CASE EntryDies
  <2>1. TypeOK'
    BY <1>2 DEF IInv, TypeOK, EntryDies
  <2>2. EntryOnce' /\ ClosesHaveWork'
    BY <1>2 DEF IInv, TypeOK, EntryOnce, ClosesHaveWork, EntryDies
  <2> QED BY <1>2, <2>1, <2>2, OutsideStep DEF EntryDies
<1>3. ASSUME NEW o \in OrderIds, CloseFills(o) PROVE IInv'
  <2>1. /\ closes[o] \in CloseType
        /\ closes[o].done \in 0..Lot /\ closes[o].qty \in 0..Lot
        /\ closes[o].done < closes[o].qty
        /\ held \in 0..Lot /\ held > 0 /\ held' = held - 1
    BY <1>3 DEF IInv, TypeOK, ClosesHaveWork, CloseFills, CloseType
  <2>2. closes' = [closes EXCEPT ![o] =
                     [closes[o] EXCEPT !.done = closes[o].done + 1,
                                       !.state = IF closes[o].done + 1 = closes[o].qty
                                                 THEN "filled" ELSE closes[o].state]]
    BY <1>3 DEF CloseFills
  <2> DEFINE state == IF closes[o].done + 1 = closes[o].qty THEN "filled" ELSE closes[o].state
             filled == [closes[o] EXCEPT !.done = closes[o].done + 1, !.state = state]
  <2>3. /\ state \in {"unsent", "working", "filled", "dead"}
        /\ state = "working" => closes[o].done + 1 # closes[o].qty
        /\ closes[o].done + 1 \in 0..Lot
    BY <2>1 DEF CloseType
  <2>7. closes' = [closes EXCEPT ![o] = filled] /\ closes \in [OrderIds -> CloseType]
    BY <2>2 DEF IInv, TypeOK
  <2> HIDE DEF state
  <2>8. /\ filled \in CloseType
        /\ filled.done = closes[o].done + 1
        /\ filled.state = state
        /\ filled.qty = closes[o].qty
    BY <2>1, <2>3 DEF CloseType
  <2> HIDE DEF filled
  <2>10. /\ closes' \in [OrderIds -> CloseType]
         /\ closes'[o] = filled
         /\ \A p \in OrderIds \ {o} : closes'[p] = closes[p]
    BY <2>7, <2>8
  <2>4. TypeOK'
    BY <1>3, <2>1, <2>10 DEF IInv, TypeOK, CloseFills
  <2>5. EntryOnce'
    BY <1>3, <2>1 DEF IInv, TypeOK, EntryOnce, CloseFills
  <2>6. ClosesHaveWork'
    BY <2>1, <2>3, <2>8, <2>10 DEF IInv, ClosesHaveWork
  <2> QED BY <1>3, <2>4, <2>5, <2>6, OutsideStep DEF CloseFills
<1>4. ASSUME NEW o \in OrderIds, CloseExpires(o) PROVE IInv'
  <2>1. TypeOK'
    BY <1>4 DEF IInv, TypeOK, CloseExpires, CloseType
  <2>2. EntryOnce' /\ ClosesHaveWork'
    BY <1>4 DEF IInv, TypeOK, EntryOnce, ClosesHaveWork, CloseExpires
  <2> QED BY <1>4, <2>1, <2>2, OutsideStep DEF CloseExpires
<1>5. CASE PriceMoves \/ DaysPass
  <2>1. TypeOK'
    BY <1>5 DEF IInv, TypeOK, PriceMoves, DaysPass
  <2>2. EntryOnce' /\ ClosesHaveWork'
    BY <1>5 DEF IInv, EntryOnce, ClosesHaveWork, PriceMoves, DaysPass
  <2> QED BY <1>5, <2>1, <2>2, OutsideStep DEF PriceMoves, DaysPass
<1> QED BY <1>1, <1>2, <1>3, <1>4, <1>5 DEF Broker, World

\* The skips, the holds of the sweep and a restart touch nothing.
LEMMA QuietSteps ==
    IInv /\ (\/ ManageSkips \/ EnterSkips \/ ResolveSkips \/ SweepKeeps \/ Crash
             \/ ResolveEntry
             \/ \E outcome \in PositionReads : SweepReadsPositions(outcome)) => IInv'
<1> SUFFICES ASSUME IInv,
                    \/ ManageSkips \/ EnterSkips \/ ResolveSkips \/ SweepKeeps \/ Crash
                    \/ ResolveEntry
                    \/ \E outcome \in PositionReads : SweepReadsPositions(outcome)
             PROVE  IInv'
  OBVIOUS
<1> USE DEF fileVars, brokerVars, worldVars, localVars
<1>1. held <= entry.filled /\ ClosesHaveWork
  BY DEF IInv, EntryOnce
<1>2. CASE ManageSkips \/ EnterSkips \/ ResolveSkips \/ SweepKeeps
  <2>1. TypeOK'
    BY <1>2 DEF IInv, TypeOK, Phases, ManageSkips, EnterSkips, ResolveSkips, SweepKeeps
  <2> QED BY <1>1, <1>2, <2>1, QuietStep
       DEF ClosesHaveWork, ManageSkips, EnterSkips, ResolveSkips, SweepKeeps
<1>3. CASE Crash
  <2>1. NewRow \in RowType /\ NoCall \in CallType
    BY DEF NewRow, RowType, NoCall, CallType, Targets
  <2>2. TypeOK'
    <3>1. crashes' \in 0..MaxCrashes
      BY <1>3 DEF IInv, TypeOK, Crash
    <3>2. phase' \in Phases
      BY <1>3 DEF Crash, Phases
    <3> QED BY <1>3, <2>1, <3>1, <3>2 DEF IInv, TypeOK, Crash
  <2> QED BY <1>1, <1>3, <2>2, QuietStep DEF ClosesHaveWork, Crash
<1>4. CASE ResolveEntry
  <2>1. TypeOK'
    BY <1>4 DEF IInv, TypeOK, Phases, ResolveEntry
  <2> QED BY <1>1, <1>4, <2>1, QuietStep DEF ClosesHaveWork, ResolveEntry
<1>5. ASSUME NEW outcome \in PositionReads, SweepReadsPositions(outcome) PROVE IInv'
  <2>1. phase' \in {"sweeping", "manage"} /\ phase' \in Phases
    BY <1>5 DEF SweepReadsPositions, Phases
  <2>2. seenHeld' \in BOOLEAN
    <3>1. CASE outcome = "ok"
      <4>1. seenHeld' = (held > 0)
        BY <1>5, <3>1 DEF SweepReadsPositions
      <4>2. (held > 0) \in BOOLEAN
        BY SMT DEF IInv, TypeOK
      <4> QED BY <4>1, <4>2, Zenon
    <3>2. CASE outcome # "ok"
      BY <1>5, <3>2 DEF IInv, TypeOK, SweepReadsPositions
    <3> QED BY <3>1, <3>2
  <2>3. TypeOK'
    BY <1>5, <2>1, <2>2 DEF IInv, TypeOK, SweepReadsPositions
  <2> QED BY <1>1, <1>5, <2>1, <2>3, QuietStep DEF ClosesHaveWork, SweepReadsPositions
<1> QED BY <1>2, <1>3, <1>4, <1>5

-----------------------------------------------------------------------------
(* The steps that change the row or book a close *)

\* A step that changes the row between two calls of the cycle.
LEMMA RowStep ==
    ASSUME IInv, TypeOK', UNCHANGED <<entry, closes, held>>,
           phase' \notin {"closing", "placing", "writing", "book", "log"},
           row.status # "NONE", row'.status # "NONE",
           row'.reconciled => row'.status = "CLOSED", RunnerSurvives'
    PROVE  IInv'
BY DEF IInv, EntryOnce, ClosesHaveWork, CopyIsAhead, TrancheFits, CallIsBounded,
       ReconciledIsClosed, Booking

\* The manager decides to sell some of an open row.
LEMMA BookStep ==
    ASSUME IInv, row.status = "OPEN", phase = "manage",
           NEW want \in 0..Lot, NEW urgent \in BOOLEAN, NEW copy \in RowType,
           Book(want, urgent, copy),
           copy.status = "OPEN", copy.reconciled = FALSE,
           copy.remaining = row.remaining,
           copy.targets_filled >= row.targets_filled,
           copy.extreme >= row.extreme,
           ~urgent => /\ want > 0
                      /\ copy.remaining - want >= Lot - Banked(Lot, copy.targets_filled)
    PROVE  IInv'
<1> USE DEF fileVars, brokerVars, worldVars
<1>1. /\ call' \in CallType
      /\ call'.want = want
      /\ call'.urgent = urgent
  <2>1. call' = [want |-> want, urgent |-> urgent, live |-> 0,
                 ok |-> FALSE, booked |-> 0, order |-> {}]
    BY DEF Book, NoCall
  <2> QED BY <2>1 DEF CallType
<1>2. /\ mem' = copy
      /\ phase' = "closing"
      /\ UNCHANGED <<row, forecast, entry, closes, held, price, expiring, aged,
                     seenHeld, crashes>>
  BY DEF Book
<1>3. TypeOK'
  BY <1>1, <1>2 DEF IInv, TypeOK, Phases
<1>4. EntryOnce' /\ ClosesHaveWork' /\ ReconciledIsClosed' /\ RunnerSurvives'
  BY <1>2 DEF IInv, EntryOnce, ClosesHaveWork, ReconciledIsClosed, RunnerSurvives
<1>5. CopyIsAhead' /\ TrancheFits' /\ CallIsBounded'
  BY <1>1, <1>2 DEF CopyIsAhead, TrancheFits, CallIsBounded, Booking
<1> QED BY <1>3, <1>4, <1>5 DEF IInv

\* The manager's four decisions about an open row.
LEMMA ManageSteps ==
    IInv /\ (ManageMaturity \/ ManageHolds \/ ManageStops \/ ManageScales) => IInv'
<1> SUFFICES ASSUME IInv, ManageMaturity \/ ManageHolds \/ ManageStops \/ ManageScales
             PROVE  IInv'
  OBVIOUS
<1>1. /\ row \in RowType
      /\ row.status = "OPEN"
      /\ phase = "manage"
      /\ row.remaining \in 0..Lot
      /\ row.targets_filled \in 0..Targets
      /\ row.extreme \in Int
      /\ row.reconciled = FALSE
  BY DEF IInv, TypeOK, RowType, ReconciledIsClosed,
         ManageMaturity, ManageHolds, ManageStops, ManageScales
<1>2. /\ Advanced \in RowType
      /\ Advanced.targets_filled = Reached(row.targets_filled, price)
      /\ Advanced.targets_filled >= row.targets_filled
      /\ Advanced.extreme >= row.extreme
      /\ Advanced.remaining = row.remaining
      /\ Advanced.status = "OPEN"
      /\ Advanced.reconciled = FALSE
      /\ Advanced.remaining >= Lot - Banked(Lot, Advanced.targets_filled)
  BY <1>1, AdvancedIsAhead DEF IInv
<1>3. CASE ManageMaturity
  <2>1. Book(row.remaining, TRUE, row)
    BY <1>3 DEF ManageMaturity
  <2>2. row.targets_filled >= row.targets_filled /\ row.extreme >= row.extreme
    BY <1>1 DEF Targets
  <2> QED BY <1>1, <2>1, <2>2, BookStep
<1>4. CASE ManageStops
  <2>1. Book(row.remaining, TRUE, Advanced)
    BY <1>4 DEF ManageStops
  <2> QED BY <1>1, <1>2, <2>1, BookStep
<1>5. CASE ManageScales
  <2> DEFINE tranche == ToSell(Lot, row.targets_filled, Advanced.targets_filled)
             want == Smaller(tranche, row.remaining)
  <2>1. Book(want, FALSE, Advanced)
    BY <1>5 DEF ManageScales
  <2>2. tranche > 0
    BY <1>2, <1>5 DEF ManageScales, Decision, Action
  <2>3. Advanced.targets_filled \in 0..Targets
    BY <1>2 DEF RowType
  <2>4. /\ Banked(Lot, row.targets_filled) \in 0..Lot
        /\ Banked(Lot, row.targets_filled) < Lot
        /\ Banked(Lot, Advanced.targets_filled) \in 0..Lot
    BY <1>1, <2>3, LadderBanks
  <2>5. row.remaining >= Lot - Banked(Lot, row.targets_filled)
    BY DEF IInv, RunnerSurvives
  <2>6. /\ want \in 0..Lot
        /\ want > 0
        /\ Advanced.remaining - want >= Lot - Banked(Lot, Advanced.targets_filled)
    BY <1>1, <1>2, <2>2, <2>4, <2>5 DEF Smaller, ToSell
  <2> HIDE DEF want
  <2> QED BY <1>1, <1>2, <2>1, <2>6, BookStep
<1>6. CASE ManageHolds
  <2> USE DEF brokerVars, worldVars, localVars
  <2>1. row' = Advanced /\ phase' = "review" /\ UNCHANGED <<entry, closes, held>>
    BY <1>6 DEF ManageHolds
  <2>2. TypeOK'
    BY <1>2, <1>6, <2>1 DEF IInv, TypeOK, Phases, ManageHolds
  <2>3. RunnerSurvives'
    BY <1>2, <2>1 DEF RunnerSurvives
  <2> QED BY <1>1, <1>2, <2>1, <2>2, <2>3, RowStep
<1> QED BY <1>3, <1>4, <1>5, <1>6

\* What is sent is something, and no more than was asked for.
LEMMA QuantityIsBounded ==
    ASSUME TypeOK, CallIsBounded, phase = "placing"
    PROVE  /\ Quantity \in 1..Lot
           /\ call.want > 0 => Quantity <= call.want
BY DEF TypeOK, CallIsBounded, CallType, Quantity, Smaller

\* A step of a close that leaves the row and the copy alone.
LEMMA CloseStep ==
    ASSUME IInv, Booking, UNCHANGED <<row, mem, entry, held>>, TypeOK',
           phase' \in {"placing", "writing"},
           call'.want = call.want, call'.urgent = call.urgent,
           ClosesHaveWork', CallIsBounded'
    PROVE  IInv'
<1>1. CopyIsAhead' /\ TrancheFits'
  BY DEF IInv, CopyIsAhead, TrancheFits, Booking
<1>2. EntryOnce'
  BY DEF IInv, EntryOnce, Booking
<1>3. ReconciledIsClosed' /\ RunnerSurvives'
  BY DEF IInv, ReconciledIsClosed, RunnerSurvives
<1> QED BY <1>1, <1>2, <1>3 DEF IInv

\* An answer keeps the request it answers.
LEMMA AnswerStep ==
    ASSUME TypeOK, NEW ok \in BOOLEAN, NEW booked \in 0..Lot, NEW order \in SUBSET OrderIds,
           Answer(ok, booked, order)
    PROVE  /\ call' \in CallType
           /\ call'.want = call.want
           /\ call'.urgent = call.urgent
           /\ call'.booked = booked
           /\ phase' = "writing"
BY DEF TypeOK, CallType, Answer

\* Booking a close, whatever is read, cancelled, skipped, sent or refused.
LEMMA CloseSteps ==
    ASSUME IInv,
           \/ \E outcome \in PositionReads : CloseReads(outcome)
           \/ CloseSkips
           \/ \E cancelled \in SUBSET Working : CloseRefused(cancelled)
           \/ \E cancelled \in SUBSET Working, o \in OrderIds : CloseSends(o, cancelled)
    PROVE  IInv'
<1> USE DEF fileVars, brokerVars, worldVars, localVars
<1>1. /\ TypeOK /\ CallIsBounded /\ ClosesHaveWork /\ TrancheFits
      /\ closes \in [OrderIds -> CloseType]
  BY DEF IInv, TypeOK
<1>2. ASSUME NEW outcome \in PositionReads, CloseReads(outcome) PROVE IInv'
  <2>1. Booking /\ UNCHANGED <<row, mem, entry, held, closes>> /\ phase = "closing"
    BY <1>2 DEF CloseReads, Booking
  <2>2. ClosesHaveWork'
    BY <1>1, <2>1 DEF ClosesHaveWork
  <2>3. CASE outcome = "ok" /\ held > 0
    <3>1. call' = [call EXCEPT !.live = held] /\ phase' = "placing"
      BY <1>2, <2>3 DEF CloseReads
    <3>2. /\ call' \in CallType
          /\ call'.want = call.want
          /\ call'.urgent = call.urgent
          /\ call'.live = held
      BY <1>1, <3>1 DEF TypeOK, CallType
    <3>3. CallIsBounded'
      BY <2>3, <3>1, <3>2, <2>1 DEF CallIsBounded
    <3>4. TypeOK'
      BY <1>1, <1>2, <3>1, <3>2 DEF TypeOK, Phases, CloseReads
    <3> QED BY <2>1, <2>2, <3>1, <3>2, <3>3, <3>4, CloseStep
  <2>4. CASE ~(outcome = "ok" /\ held > 0)
    <3>1. Answer(TRUE, 0, {})
      BY <1>2, <2>4 DEF CloseReads
    <3>2. 0 \in 0..Lot /\ {} \in SUBSET OrderIds
      OBVIOUS
    <3>3. /\ call' \in CallType
          /\ call'.want = call.want
          /\ call'.urgent = call.urgent
          /\ call'.booked = 0
          /\ phase' = "writing"
      BY <1>1, <3>1, <3>2, AnswerStep
    <3>4. CallIsBounded'
      BY <1>1, <3>3 DEF CallIsBounded, TypeOK, CallType
    <3>5. TypeOK'
      BY <1>1, <1>2, <3>3 DEF TypeOK, Phases, CloseReads
    <3> QED BY <2>1, <2>2, <3>3, <3>4, <3>5, CloseStep
  <2> QED BY <2>3, <2>4
<1>3. ASSUME phase = "placing", UNCHANGED <<row, forecast, mem, entry, held, price, expiring,
                                           aged, seenHeld, crashes>>,
             ClosesHaveWork', closes' \in [OrderIds -> CloseType],
             NEW ok \in BOOLEAN, NEW booked \in {0, Quantity}, NEW order \in SUBSET OrderIds,
             Answer(ok, booked, order)
      PROVE  IInv'
  <2>1. /\ Quantity \in 0..Lot
        /\ call.want > 0 => Quantity <= call.want
    BY <1>1, <1>3, QuantityIsBounded
  <2>2. booked \in 0..Lot
    BY <1>3, <2>1
  <2>3. /\ call' \in CallType
        /\ call'.want = call.want
        /\ call'.urgent = call.urgent
        /\ call'.booked = booked
        /\ phase' = "writing"
    BY <1>1, <1>3, <2>2, AnswerStep
  <2>4. Booking
    BY <1>3 DEF Booking
  <2>5. CallIsBounded'
    BY <1>1, <1>3, <2>1, <2>3, <2>4 DEF CallIsBounded, TrancheFits, TypeOK, CallType
  <2>6. TypeOK'
    BY <1>1, <1>3, <2>3 DEF TypeOK, Phases
  <2> QED BY <1>3, <2>3, <2>4, <2>5, <2>6, CloseStep
<1>4. CASE CloseSkips
  <2>1. ClosesHaveWork' /\ closes' \in [OrderIds -> CloseType]
    BY <1>1, <1>4 DEF ClosesHaveWork, CloseSkips
  <2>2. Answer(FALSE, Quantity, {}) /\ {} \in SUBSET OrderIds
    BY <1>4 DEF CloseSkips
  <2> QED BY <1>3, <1>4, <2>1, <2>2 DEF CloseSkips
<1>5. ASSUME NEW cancelled \in SUBSET Working, CloseRefused(cancelled) PROVE IInv'
  <2>1. closes' \in [OrderIds -> CloseType]
    BY <1>1, <1>5 DEF CloseRefused, CloseType
  <2>2. ClosesHaveWork'
    BY <1>1, <1>5 DEF CloseRefused, ClosesHaveWork, CloseType
  <2>3. Answer(FALSE, Quantity, {}) /\ {} \in SUBSET OrderIds
    BY <1>5 DEF CloseRefused
  <2> QED BY <1>3, <1>5, <2>1, <2>2, <2>3 DEF CloseRefused
<1>6. ASSUME NEW cancelled \in SUBSET Working, NEW o \in OrderIds, CloseSends(o, cancelled)
      PROVE  IInv'
  <2>1. Quantity \in 1..Lot
    BY <1>1, <1>6, QuantityIsBounded DEF CloseSends
  <2>2. call.urgent \in BOOLEAN
    BY <1>1 DEF TypeOK, CallType
  <2>3. closes' \in [OrderIds -> CloseType]
    BY <1>1, <1>6, <2>1, <2>2 DEF CloseSends, CloseType
  <2>4. ClosesHaveWork'
    BY <1>1, <1>6, <2>1 DEF CloseSends, ClosesHaveWork, CloseType
  <2>5. Answer(TRUE, Quantity, {o}) \/ Answer(FALSE, 0, {})
    BY <1>6 DEF CloseSends
  <2>6. {o} \in SUBSET OrderIds /\ {} \in SUBSET OrderIds
    OBVIOUS
  <2> QED BY <1>3, <1>6, <2>3, <2>4, <2>5, <2>6 DEF CloseSends
<1> QED BY <1>2, <1>4, <1>5, <1>6

\* What is written back keeps the ladder, whatever the answer was.
LEMMA WrittenIsARow ==
    ASSUME IInv, phase = "writing", NEW new, new = Written(call.booked)
    PROVE  /\ new \in RowType
           /\ new.status \in {"OPEN", "CLOSED"}
           /\ new.reconciled = FALSE
           /\ new.targets_filled = mem.targets_filled
           /\ new.extreme = mem.extreme
           /\ new.remaining <= mem.remaining
           /\ new.remaining >= Lot - Banked(Lot, mem.targets_filled)
<1>1. /\ mem \in RowType
      /\ mem.status = "OPEN"
      /\ mem.reconciled = FALSE
      /\ mem.remaining \in 0..Lot
      /\ mem.targets_filled \in 0..Targets
      /\ row.targets_filled \in 0..Targets
      /\ mem.targets_filled >= row.targets_filled
      /\ mem.remaining = row.remaining
      /\ call.order \in SUBSET OrderIds /\ call.booked \in 0..Lot /\ call.want \in 0..Lot
      /\ call.ok \in BOOLEAN /\ call.urgent \in BOOLEAN
  BY DEF IInv, TypeOK, RowType, CallType, CopyIsAhead, Booking
<1>2. /\ Banked(Lot, row.targets_filled) <= Banked(Lot, mem.targets_filled)
      /\ Banked(Lot, row.targets_filled) \in 0..Lot
      /\ Banked(Lot, mem.targets_filled) \in 0..Lot
  BY <1>1, LadderBanks DEF Targets
<1>3. mem.remaining >= Lot - Banked(Lot, mem.targets_filled)
  BY <1>1, <1>2 DEF IInv, RunnerSurvives
<1>4. ~call.urgent => mem.remaining - call.booked >= Lot - Banked(Lot, mem.targets_filled)
  BY <1>1, <1>2 DEF IInv, CallIsBounded, TrancheFits, Booking
<1> DEFINE logged == [mem EXCEPT !.exits = mem.exits \cup call.order]
           left == mem.remaining - call.booked
<1>5. /\ logged \in RowType
      /\ logged.status = "OPEN"
      /\ logged.reconciled = FALSE
      /\ logged.targets_filled = mem.targets_filled
      /\ logged.extreme = mem.extreme
      /\ logged.remaining = mem.remaining
  BY <1>1 DEF RowType
<1>6. new = IF ~call.ok THEN logged
            ELSE IF call.urgent THEN [logged EXCEPT !.status = "CLOSED"]
            ELSE IF call.booked = 0 THEN logged
            ELSE [logged EXCEPT !.remaining = left,
                                !.status = IF left <= 0 THEN "CLOSED" ELSE logged.status]
  BY DEF Written
<1> HIDE DEF logged
<1>7. CASE ~call.ok \/ (~call.urgent /\ call.booked = 0)
  BY <1>1, <1>3, <1>5, <1>6, <1>7
<1>8. CASE call.ok /\ call.urgent
  BY <1>1, <1>3, <1>5, <1>6, <1>8 DEF RowType
<1>9. CASE call.ok /\ ~call.urgent /\ call.booked # 0
  <2> DEFINE status == IF left <= 0 THEN "CLOSED" ELSE logged.status
  <2>1. new = [logged EXCEPT !.remaining = left, !.status = status]
    BY <1>6, <1>9
  <2>2. /\ left \in 0..Lot /\ left <= mem.remaining
        /\ left >= Lot - Banked(Lot, mem.targets_filled)
        /\ status \in {"OPEN", "CLOSED"}
    BY <1>1, <1>2, <1>4, <1>5, <1>9
  <2> HIDE DEF left, status
  <2> QED BY <1>5, <2>1, <2>2 DEF RowType
<1> QED BY <1>1, <1>7, <1>8, <1>9

\* The ledger written back keeps the invariant.
LEMMA WriteStep == IInv /\ ManageWrites => IInv'
<1> SUFFICES ASSUME IInv, ManageWrites PROVE IInv'
  OBVIOUS
<1> USE DEF fileVars, brokerVars, worldVars
<1>1. /\ phase = "writing" /\ phase' = "review"
      /\ row' = Written(call.booked)
      /\ UNCHANGED <<entry, closes, held>>
      /\ row.status = "OPEN"
  BY DEF ManageWrites, WriteBack, IInv, CopyIsAhead, Booking
<1>2. /\ row' \in RowType
      /\ row'.status \in {"OPEN", "CLOSED"}
      /\ row'.reconciled = FALSE
      /\ row'.targets_filled = mem.targets_filled
      /\ row'.remaining >= Lot - Banked(Lot, mem.targets_filled)
  BY <1>1, WrittenIsARow
<1>3. TypeOK'
  <2>1. NewRow \in RowType /\ NoCall \in CallType
    BY DEF NewRow, RowType, NoCall, CallType, Targets
  <2> QED BY <1>1, <1>2, <2>1 DEF IInv, TypeOK, Phases, ManageWrites, WriteBack
<1>4. RunnerSurvives'
  BY <1>2 DEF RunnerSurvives
<1> QED BY <1>1, <1>2, <1>3, <1>4, RowStep

\* What reconcile_closes makes of a closed row.
LEMMA ReviewedIsARow ==
    ASSUME row \in RowType
    PROVE  /\ Reverted \in RowType
           /\ Reverted.status = "OPEN" /\ Reverted.reconciled = row.reconciled
           /\ Reverted.targets_filled = 0 /\ Reverted.remaining = Lot
           /\ \A readable, fills \in BOOLEAN :
                  /\ Reconciled(readable, fills) \in RowType
                  /\ Reconciled(readable, fills).status = row.status
                  /\ Reconciled(readable, fills).targets_filled = row.targets_filled
                  /\ Reconciled(readable, fills).remaining = row.remaining
           /\ [row EXCEPT !.partial = TRUE, !.verified_flat = FALSE] \in RowType
<1>1. Reverted \in RowType /\ Reverted.status = "OPEN" /\ Reverted.reconciled = row.reconciled
      /\ Reverted.targets_filled = 0 /\ Reverted.remaining = Lot
  <2>1. Lot \in 0..Lot /\ 0 \in 0..Targets
    BY DEF Targets
  <2>2. PICK size \in 0..Lot, none \in 0..Targets, start \in Int :
             size = Lot /\ none = 0 /\ start = 0
    BY <2>1
  <2>3. Reverted = [row EXCEPT !.status = "OPEN", !.remaining = size,
                               !.targets_filled = none, !.extreme = start,
                               !.reverted = TRUE, !.verified_flat = FALSE, !.basis = "none"]
    BY <2>2 DEF Reverted
  <2>4. /\ Reverted \in RowType
        /\ Reverted.status = "OPEN" /\ Reverted.reconciled = row.reconciled
        /\ Reverted.targets_filled = none /\ Reverted.remaining = size
    BY <2>3 DEF RowType
  <2> QED BY <2>2, <2>4
<1>2. ASSUME NEW readable \in BOOLEAN, NEW fills \in BOOLEAN
      PROVE  /\ Reconciled(readable, fills) \in RowType
             /\ Reconciled(readable, fills).status = row.status
             /\ Reconciled(readable, fills).targets_filled = row.targets_filled
             /\ Reconciled(readable, fills).remaining = row.remaining
  BY DEF Reconciled, RowType
<1>3. [row EXCEPT !.partial = TRUE, !.verified_flat = FALSE] \in RowType
  BY DEF RowType
<1> QED BY <1>1, <1>2, <1>3

\* reconcile_closes keeps the invariant, whatever it can read.
LEMMA ReviewStep == IInv /\ ReviewCloses => IInv'
<1> SUFFICES ASSUME IInv, NEW outcome \in PositionReads, NEW ordersRead \in BOOLEAN,
                    Review(outcome, ordersRead)
             PROVE  IInv'
  BY DEF ReviewCloses
<1> USE DEF fileVars, brokerVars, worldVars, localVars
<1>1. /\ phase' = "enter"
      /\ UNCHANGED <<forecast, entry, closes, held, price, expiring, aged,
                     mem, call, seenHeld, crashes>>
      /\ row \in RowType
      /\ RunnerSurvives
  BY DEF Review, IInv, TypeOK
<1>2. CASE row' = row
  <2>1. TypeOK'
    BY <1>1, <1>2 DEF IInv, TypeOK, Phases
  <2> QED BY <1>1, <1>2, <2>1, QuietStep DEF IInv, EntryOnce, ClosesHaveWork
<1>3. CASE row.status = "CLOSED" /\ ~row.reconciled /\ row' # row
  <2> DEFINE readable == outcome # "raised"
             fills == ordersRead /\ SoldInFull
  <2>1. readable \in BOOLEAN /\ (fills \in BOOLEAN)
    BY DEF SoldInFull
  <2>2. \/ row' = Reverted
        \/ row' = [row EXCEPT !.partial = TRUE, !.verified_flat = FALSE]
        \/ row' = Reconciled(readable, fills)
    BY <1>3 DEF Review
  <2> HIDE DEF readable, fills
  <2>3. row' \in RowType
    BY <1>1, <2>1, <2>2, ReviewedIsARow
  <2>4. TypeOK'
    BY <1>1, <2>3 DEF IInv, TypeOK, Phases
  <2>5. CASE row' = Reverted
    <3>1. row'.status = "OPEN" /\ row'.reconciled = FALSE
      BY <1>1, <1>3, <2>5, ReviewedIsARow DEF RowType
    <3>2. row'.remaining = Lot /\ row'.targets_filled = 0
      BY <1>1, <2>5, ReviewedIsARow
    <3>3. Banked(Lot, 0) = 0
      BY DEF Banked
    <3>4. RunnerSurvives'
      BY <3>2, <3>3 DEF RunnerSurvives
    <3> QED BY <1>1, <1>3, <2>4, <3>1, <3>4, RowStep
  <2>6. CASE row' # Reverted
    <3>1. /\ row'.status = row.status
          /\ row'.remaining = row.remaining
          /\ row'.targets_filled = row.targets_filled
      <4>1. CASE row' = [row EXCEPT !.partial = TRUE, !.verified_flat = FALSE]
        BY <1>1, <4>1 DEF RowType
      <4>2. CASE row' = Reconciled(readable, fills)
        BY <1>1, <2>1, <4>2, ReviewedIsARow
      <4> QED BY <2>2, <2>6, <4>1, <4>2
    <3>2. RunnerSurvives'
      BY <1>1, <3>1 DEF RunnerSurvives
    <3> QED BY <1>1, <1>3, <2>4, <3>1, <3>2, RowStep
  <2> QED BY <2>5, <2>6
<1> QED BY <1>2, <1>3 DEF Review

\* Recording a trade, sending its entry and logging the forecast.
LEMMA EntrySteps == IInv /\ (RecordTrade \/ BookEntry \/ LogForecast) => IInv'
<1> SUFFICES ASSUME IInv, RecordTrade \/ BookEntry \/ LogForecast PROVE IInv'
  OBVIOUS
<1> USE DEF fileVars, brokerVars, worldVars, localVars
<1>1. CASE RecordTrade
  <2>1. NewRow \in RowType
    BY DEF NewRow, RowType, Targets
  <2>2. /\ row' \in RowType
        /\ row'.status = "OPEN"
        /\ row'.reconciled = FALSE
        /\ row'.remaining = NewRow.remaining
        /\ row'.targets_filled = NewRow.targets_filled
    <3>1. NewRow.reconciled = FALSE
      BY DEF NewRow
    <3> QED BY <1>1, <2>1, <3>1 DEF RecordTrade, RowType
  <2>3. NewRow.remaining = Lot /\ NewRow.targets_filled = 0 /\ Banked(Lot, 0) = 0
    BY DEF NewRow, Banked
  <2>4. TypeOK'
    BY <1>1, <2>2 DEF IInv, TypeOK, Phases, RecordTrade
  <2>5. EntryOnce' /\ ClosesHaveWork'
    BY <1>1, <2>2 DEF IInv, EntryOnce, ClosesHaveWork, RecordTrade
  <2>6. CopyIsAhead' /\ TrancheFits' /\ CallIsBounded' /\ ReconciledIsClosed'
    BY <1>1, <2>2 DEF CopyIsAhead, TrancheFits, CallIsBounded, ReconciledIsClosed, Booking,
                      RecordTrade
  <2>7. RunnerSurvives'
    BY <2>2, <2>3 DEF RunnerSurvives
  <2> QED BY <2>4, <2>5, <2>6, <2>7 DEF IInv
<1>2. CASE BookEntry
  <2>1. /\ entry \in [state : {"none", "working", "done"}, filled : 0..Lot]
        /\ entry.state = "none" /\ entry.filled = 0
        /\ held = 0 /\ row.status # "NONE"
    BY <1>2 DEF IInv, TypeOK, EntryOnce, BookEntry
  <2>2. entry' = entry \/ (entry'.state = "working" /\ entry'.filled = 0)
    BY <1>2 DEF BookEntry
  <2>3. entry' \in [state : {"none", "working", "done"}, filled : 0..Lot]
    BY <1>2, <2>1 DEF BookEntry
  <2>4. phase' \in {"log", "resolve"} /\ phase' \in Phases
    BY <1>2 DEF BookEntry, Phases
  <2>5. TypeOK'
    BY <1>2, <2>3, <2>4 DEF IInv, TypeOK, BookEntry
  <2>6. EntryOnce' /\ ClosesHaveWork'
    BY <1>2, <2>1, <2>2, <2>4 DEF IInv, EntryOnce, ClosesHaveWork, BookEntry
  <2>7. CopyIsAhead' /\ TrancheFits' /\ CallIsBounded' /\ ReconciledIsClosed' /\ RunnerSurvives'
    BY <1>2, <2>4 DEF IInv, CopyIsAhead, TrancheFits, CallIsBounded, ReconciledIsClosed,
                      RunnerSurvives, Booking, BookEntry
  <2> QED BY <2>5, <2>6, <2>7 DEF IInv
<1>3. CASE LogForecast
  <2>1. TypeOK'
    BY <1>3 DEF IInv, TypeOK, Phases, LogForecast
  <2> QED BY <1>3, <2>1, QuietStep DEF IInv, EntryOnce, ClosesHaveWork, LogForecast
<1> QED BY <1>1, <1>2, <1>3

\* Voiding changes the status of an open row, and nothing else.
LEMMA VoidStep ==
    ASSUME IInv, NEW next \in {"sweep", "manage"}, VoidUnfilled(next)
    PROVE  IInv'
<1> USE DEF fileVars, brokerVars, worldVars, localVars
<1>1. /\ phase' = next
      /\ UNCHANGED <<forecast, entry, closes, held, price, expiring, aged, mem, call,
                     seenHeld, crashes>>
      /\ row \in RowType
      /\ phase' \in Phases
  BY DEF VoidUnfilled, IInv, TypeOK, Phases
<1>2. CASE row.status # "OPEN"
  <2>1. row' = row
    BY <1>2 DEF VoidUnfilled
  <2>2. TypeOK'
    BY <1>1, <2>1 DEF IInv, TypeOK
  <2> QED BY <1>1, <2>1, <2>2, QuietStep DEF IInv, EntryOnce, ClosesHaveWork
<1>3. CASE row.status = "OPEN"
  <2>1. /\ row' \in RowType
        /\ row'.status = "VOID_UNFILLED"
        /\ row'.reconciled = row.reconciled
        /\ row'.remaining = row.remaining
        /\ row'.targets_filled = row.targets_filled
    BY <1>1, <1>3 DEF VoidUnfilled, RowType
  <2>2. row.reconciled = FALSE
    BY <1>1, <1>3 DEF IInv, ReconciledIsClosed, RowType
  <2>3. TypeOK'
    BY <1>1, <2>1 DEF IInv, TypeOK
  <2>4. RunnerSurvives'
    BY <2>1 DEF IInv, RunnerSurvives
  <2> QED BY <1>1, <1>3, <2>1, <2>2, <2>3, <2>4, RowStep
<1> QED BY <1>2, <1>3

\* Both ways of voiding an entry.
LEMMA VoidSteps == IInv /\ (VoidEntry \/ SweepVoids) => IInv'
BY VoidStep DEF VoidEntry, SweepVoids

-----------------------------------------------------------------------------
(* The theorems *)

\* The invariant is inductive.
LEMMA StepHolds == IInv /\ [Next]_vars => IInv'
<1> SUFFICES ASSUME IInv, [Next]_vars PROVE IInv'
  OBVIOUS
<1>1. CASE UNCHANGED vars
  BY <1>1 DEF vars, fileVars, brokerVars, worldVars, localVars, IInv, TypeOK, EntryOnce,
              ClosesHaveWork, CopyIsAhead, TrancheFits, CallIsBounded, ReconciledIsClosed,
              RunnerSurvives, Booking
<1>2. CASE Manage
  <2>1. ASSUME NEW cancelled \in SUBSET Working,
               CloseRefused(cancelled) \/ \E o \in OrderIds : CloseSends(o, cancelled)
        PROVE  IInv'
    BY <2>1, CloseSteps
  <2> QED BY <1>2, <2>1, QuietSteps, ManageSteps, CloseSteps, WriteStep DEF Manage
<1>3. CASE ReviewCloses \/ Enter \/ Resolve \/ Sweep
  BY <1>3, QuietSteps, ReviewStep, EntrySteps, VoidSteps DEF Enter, Resolve, Sweep
<1>4. CASE Broker \/ World \/ Crash
  BY <1>4, QuietSteps, BrokerSteps
<1> QED BY <1>1, <1>2, <1>3, <1>4 DEF Next, Cycle

\* The invariant holds throughout.
LEMMA InvariantHolds == Spec => []IInv
BY InitHolds, StepHolds, PTL DEF Spec

\* Every variable keeps its type, for every trade size.
THEOREM TypeCorrect == Spec => []TypeOK
<1>1. IInv => TypeOK
  BY DEF IInv
<1> QED BY <1>1, InvariantHolds, PTL

\* The runner is never given up to the ladder by the row (RunnerSurvives).
THEOREM LadderHolds == Spec => []RunnerSurvives
<1>1. IInv => RunnerSurvives
  BY DEF IInv
<1> QED BY <1>1, InvariantHolds, PTL
-----------------------------------------------------------------------------
(* What a step may make of the row *)

RowRecorded ==
    /\ row.status = "NONE"
    /\ row'.status = "OPEN"
    /\ row'.targets_filled = 0
    /\ row'.remaining = Lot

RowManaged ==
    /\ row.status = "OPEN"
    /\ row'.status \in {"OPEN", "CLOSED"}
    /\ row'.targets_filled >= row.targets_filled
    /\ row'.extreme >= row.extreme
    /\ row'.remaining <= row.remaining

RowVoided ==
    /\ row.status = "OPEN"
    /\ row'.status = "VOID_UNFILLED"
    /\ row'.targets_filled = row.targets_filled
    /\ row'.remaining = row.remaining

RowReopened ==
    /\ row.status = "CLOSED"
    /\ row'.status = "OPEN"
    /\ row'.targets_filled = 0
    /\ row'.remaining = Lot

RowAnnotated ==
    /\ row.status = "CLOSED"
    /\ row'.status = "CLOSED"
    /\ row'.targets_filled = row.targets_filled
    /\ row'.remaining = row.remaining

\* Every step leaves the row alone, or records, manages, voids, reopens or
\* annotates a row that has not been reconciled.
LEMMA RowChanges ==
    ASSUME IInv, [Next]_vars
    PROVE  \/ row' = row
           \/ /\ row.reconciled = FALSE
              /\ RowRecorded \/ RowManaged \/ RowVoided \/ RowReopened \/ RowAnnotated
<1> USE DEF fileVars, brokerVars, worldVars, localVars
<1>1. /\ row \in RowType
      /\ row.targets_filled \in 0..Targets
      /\ row.remaining \in 0..Lot
      /\ row.extreme \in Int
      /\ row.reconciled \in BOOLEAN
      /\ row.status # "CLOSED" => row.reconciled = FALSE
  BY DEF IInv, TypeOK, RowType, ReconciledIsClosed
<1>2. CASE ManageHolds
  BY <1>1, <1>2, AdvancedIsAhead DEF IInv, ManageHolds, RowManaged
<1>3. CASE ManageWrites
  <2>1. /\ Booking
        /\ phase = "writing"
        /\ row' = Written(call.booked)
    BY <1>3 DEF ManageWrites, WriteBack, Booking
  <2>2. /\ row.status = "OPEN"
        /\ mem.targets_filled >= row.targets_filled
        /\ mem.extreme >= row.extreme
        /\ mem.remaining = row.remaining
    BY <2>1 DEF IInv, CopyIsAhead
  <2>3. /\ row'.status \in {"OPEN", "CLOSED"}
        /\ row'.targets_filled = mem.targets_filled
        /\ row'.extreme = mem.extreme
        /\ row'.remaining <= mem.remaining
    BY <2>1, WrittenIsARow
  <2> QED BY <1>1, <2>2, <2>3 DEF RowManaged
<1>4. CASE ReviewCloses
  <2>1. PICK outcome \in PositionReads, ordersRead \in BOOLEAN : Review(outcome, ordersRead)
    BY <1>4 DEF ReviewCloses
  <2> DEFINE readable == outcome # "raised"
             fills == ordersRead /\ SoldInFull
  <2>2. readable \in BOOLEAN /\ fills \in BOOLEAN
    BY DEF SoldInFull
  <2>3. \/ row' = row
        \/ /\ row.status = "CLOSED" /\ row.reconciled = FALSE
           /\ \/ row' = Reverted
              \/ row' = [row EXCEPT !.partial = TRUE, !.verified_flat = FALSE]
              \/ row' = Reconciled(readable, fills)
    BY <1>1, <2>1 DEF Review
  <2> HIDE DEF readable, fills
  <2>4. CASE row' = Reverted /\ row.status = "CLOSED" /\ row.reconciled = FALSE
    BY <1>1, <2>4, ReviewedIsARow DEF RowReopened
  <2>5. CASE row' = [row EXCEPT !.partial = TRUE, !.verified_flat = FALSE]
             /\ row.status = "CLOSED" /\ row.reconciled = FALSE
    BY <1>1, <2>5 DEF RowAnnotated, RowType
  <2>6. CASE row' = Reconciled(readable, fills) /\ row.status = "CLOSED" /\ row.reconciled = FALSE
    BY <1>1, <2>2, <2>6, ReviewedIsARow DEF RowAnnotated
  <2> QED BY <2>3, <2>4, <2>5, <2>6
<1>5. CASE RecordTrade
  <2>1. NewRow \in RowType /\ NewRow.remaining = Lot /\ NewRow.targets_filled = 0
    BY DEF NewRow, RowType, Targets
  <2>2. row.status = "NONE" /\ row' = [NewRow EXCEPT !.status = "OPEN"]
    BY <1>5 DEF RecordTrade
  <2>3. row'.status = "OPEN" /\ row'.remaining = Lot /\ row'.targets_filled = 0
    BY <2>1, <2>2 DEF RowType
  <2> QED BY <1>1, <2>2, <2>3 DEF RowRecorded
<1>6. CASE VoidEntry \/ SweepVoids
  <2>1. row' = IF row.status = "OPEN" THEN [row EXCEPT !.status = "VOID_UNFILLED"] ELSE row
    BY <1>6 DEF VoidEntry, SweepVoids, VoidUnfilled
  <2> QED BY <1>1, <2>1 DEF RowVoided, RowType
<1>7. CASE \/ ManageSkips \/ ManageMaturity \/ ManageStops \/ ManageScales \/ CloseSkips
           \/ \E outcome \in PositionReads : CloseReads(outcome)
           \/ \E cancelled \in SUBSET Working :
                 CloseRefused(cancelled) \/ \E o \in OrderIds : CloseSends(o, cancelled)
  BY <1>7 DEF ManageSkips, ManageMaturity, ManageStops, ManageScales, Book, CloseSkips,
              CloseReads, CloseRefused, CloseSends
<1>8. CASE \/ EnterSkips \/ BookEntry \/ LogForecast \/ ResolveSkips \/ ResolveEntry
           \/ SweepKeeps \/ Crash
           \/ \E outcome \in PositionReads : SweepReadsPositions(outcome)
  BY <1>8 DEF EnterSkips, BookEntry, LogForecast, ResolveSkips, ResolveEntry, SweepKeeps,
              Crash, SweepReadsPositions
<1>9. CASE Broker \/ World \/ UNCHANGED vars
  BY <1>9 DEF Broker, World, EntryFills, EntryDies, CloseFills, CloseExpires, PriceMoves,
              DaysPass, vars
<1> QED BY <1>2, <1>3, <1>4, <1>5, <1>6, <1>7, <1>8, <1>9
     DEF Next, Cycle, Manage, Enter, Resolve, Sweep

\* A reconciled row is never touched again (ReconciledIsFinal).
THEOREM ReconciledStaysFinal == Spec => ReconciledIsFinal
<1>1. IInv /\ [Next]_vars => [row.reconciled => row' = row]_vars
  BY RowChanges
<1> QED BY <1>1, InvariantHolds, PTL DEF Spec, ReconciledIsFinal

\* The stop never loosens while a row stays open (StopRatchetsWhileOpen).
THEOREM StopRatchets == Spec => StopRatchetsWhileOpen
<1> DEFINE Ratchets ==
        row.status = "OPEN" /\ row'.status = "OPEN" =>
            Stop(row'.targets_filled, row'.extreme) >= Stop(row.targets_filled, row.extreme)
<1>1. IInv /\ IInv' /\ [Next]_vars => Ratchets
  <2> SUFFICES ASSUME IInv, IInv', [Next]_vars, row.status = "OPEN", row'.status = "OPEN"
               PROVE  Stop(row'.targets_filled, row'.extreme)
                          >= Stop(row.targets_filled, row.extreme)
    OBVIOUS
  <2>1. /\ row.targets_filled \in 0..Targets /\ row'.targets_filled \in 0..Targets
        /\ row.extreme \in Int /\ row'.extreme \in Int
    BY DEF IInv, TypeOK, RowType
  <2>2. row' = row \/ RowManaged
    BY RowChanges DEF RowRecorded, RowVoided, RowReopened, RowAnnotated
  <2>3. row'.targets_filled >= row.targets_filled /\ row'.extreme >= row.extreme
    <3>1. row.targets_filled >= row.targets_filled /\ row.extreme >= row.extreme
      BY <2>1 DEF Targets
    <3>2. CASE row' = row
      BY <3>1, <3>2
    <3>3. CASE RowManaged
      BY <3>3 DEF RowManaged
    <3> QED BY <2>2, <3>2, <3>3
  <2> QED BY <2>1, <2>3, StopTightens
<1>2. IInv /\ IInv' /\ [Next]_vars => [Ratchets]_vars
  BY <1>1
<1> QED BY <1>2, InvariantHolds, PTL DEF Spec, StopRatchetsWhileOpen

-----------------------------------------------------------------------------
(* The row implements TradeLife *)

\* Before it is recorded the row claims the whole trade and no target.
Unrecorded == row.status = "NONE" => row.targets_filled = 0 /\ row.remaining = Lot

\* The initial row is TradeLife's.
LEMMA LifeBegins == Init => Unrecorded /\ Life!Init
BY DEF Init, NewRow, Unrecorded, Life!Init

\* Every step is a step of TradeLife, or changes nothing it speaks of.
LEMMA LifeGoesOn ==
    ASSUME IInv, IInv', Unrecorded, [Next]_vars
    PROVE  Unrecorded' /\ [Life!Next]_(Life!lifeVars)
<1>1. /\ row.targets_filled \in 0..Targets /\ row'.targets_filled \in 0..Targets
      /\ row.remaining \in 0..Lot /\ row'.remaining \in 0..Lot
      /\ row'.remaining >= Lot - Banked(Lot, row'.targets_filled)
  BY DEF IInv, TypeOK, RowType, RunnerSurvives
<1>2. Banked(Lot, row'.targets_filled) \in 0..Lot
  BY <1>1, LadderBanks
<1> USE DEF Unrecorded, Life!Next, Life!lifeVars
<1>3. CASE row' = row
  BY <1>3
<1>4. CASE RowRecorded
  BY <1>4 DEF RowRecorded, Life!Record
<1>5. CASE RowManaged
  <2>1. row'.targets_filled \in row.targets_filled..Targets
    BY <1>1, <1>5 DEF RowManaged, Targets
  <2>2. row'.remaining \in (Lot - Banked(Lot, row'.targets_filled))..row.remaining
    BY <1>1, <1>2, <1>5 DEF RowManaged
  <2> QED BY <1>5, <2>1, <2>2
       DEF RowManaged, Life!Manage, Life!Advance, Life!Targets, Targets, Life!Banked, Banked
<1>6. CASE RowVoided
  BY <1>6 DEF RowVoided, Life!Void
<1>7. CASE RowReopened
  BY <1>7 DEF RowReopened, Life!Reopen
<1>8. CASE RowAnnotated
  BY <1>8 DEF RowAnnotated
<1> QED BY <1>3, <1>4, <1>5, <1>6, <1>7, <1>8, RowChanges

\* OptionsBook implements TradeLife (RowLivesTradeLife).
THEOREM RowImplementsTradeLife == Spec => RowLivesTradeLife
<1>1. IInv /\ IInv' /\ Unrecorded /\ [Next]_vars => Unrecorded' /\ [Life!Next]_(Life!lifeVars)
  BY LifeGoesOn
<1> QED BY <1>1, LifeBegins, InvariantHolds, PTL DEF Spec, RowLivesTradeLife, Life!Spec

-----------------------------------------------------------------------------
(* Sums of contracts.                                                      *)
(*                                                                         *)
(* What a set of closing orders sold is the number of their contracts,     *)
(* told apart by order: that set can be counted, joined and compared with  *)
(* the theorems on finite sets, where the fold of a sum cannot.            *)

Unit(o, n) == {o} \X (1..n)
Units(f, S) == UNION {Unit(o, f[o]) : o \in S}
Count(f, S) == Cardinality(Units(f, S))

LEMMA UnitCounts ==
    ASSUME NEW o, NEW n \in Nat
    PROVE  IsFiniteSet(Unit(o, n)) /\ Cardinality(Unit(o, n)) = n
<1> DEFINE one == {o}
           all == 1..n
<1>1. IsFiniteSet(one) /\ Cardinality(one) = 1
  BY FS_Singleton
<1>2. IsFiniteSet(all) /\ Cardinality(all) = n
  BY FS_Interval
<1>3. Unit(o, n) = one \X all
  BY DEF Unit
<1> HIDE DEF one, all
<1>4. IsFiniteSet(one \X all) /\ Cardinality(one \X all) = 1 * n
  BY <1>1, <1>2, FS_Product
<1> QED
  BY <1>3, <1>4

LEMMA CountIsFinite ==
    ASSUME NEW f \in [OrderIds -> Nat], NEW S \in SUBSET OrderIds
    PROVE  IsFiniteSet(Units(f, S)) /\ Count(f, S) \in Nat
<1> DEFINE Parts == {Unit(o, f[o]) : o \in S}
<1>1. \A T \in Parts : IsFiniteSet(T)
  BY UnitCounts
<1>2. IsFiniteSet(Parts)
  <2> DEFINE g == [o \in S |-> Unit(o, f[o])]
  <2>1. g \in Surjection(S, Parts) /\ IsFiniteSet(S)
    BY OrderIdsAssumption, FS_Subset DEF Surjection
  <2> HIDE DEF g, Parts
  <2> QED
    BY <2>1, FS_Surjection
<1> HIDE DEF Parts
<1>3. IsFiniteSet(UNION Parts)
  BY <1>1, <1>2, FS_UNION
<1> QED
  BY <1>3, FS_CardinalityType DEF Units, Count, Parts

LEMMA CountOfOneMore ==
    ASSUME NEW f \in [OrderIds -> Nat], NEW S \in SUBSET OrderIds, NEW o \in S
    PROVE  Count(f, S) = f[o] + Count(f, S \ {o})
<1> DEFINE one == Unit(o, f[o])
           rest == Units(f, S \ {o})
<1>1. IsFiniteSet(rest) /\ Cardinality(rest) \in Nat /\ Count(f, S \ {o}) = Cardinality(rest)
  BY CountIsFinite DEF Count
<1>2. IsFiniteSet(one) /\ Cardinality(one) = f[o] /\ f[o] \in Nat
  BY UnitCounts
<1>3. Units(f, S) = one \cup rest
  BY DEF Units
<1>4. one \cap rest = {}
  BY DEF Units, Unit
<1> HIDE DEF one, rest
<1>5. Cardinality(one \cup rest) = Cardinality(one) + Cardinality(rest) - Cardinality(one \cap rest)
  BY <1>1, <1>2, FS_Union
<1>6. Cardinality(one \cap rest) = 0
  BY <1>4, FS_EmptySet
<1> QED
  BY <1>1, <1>2, <1>3, <1>5, <1>6 DEF Count

LEMMA CountOfNone == ASSUME NEW f PROVE Count(f, {}) = 0
<1>1. Units(f, {}) = {}
  BY DEF Units
<1> QED
  BY <1>1, FS_EmptySet DEF Count

\* Fewer orders, or orders for less, count less.
LEMMA CountOfLess ==
    ASSUME NEW f \in [OrderIds -> Nat], NEW g \in [OrderIds -> Nat],
           NEW S \in SUBSET OrderIds, NEW T \in SUBSET S,
           \A o \in T : f[o] <= g[o]
    PROVE  Count(f, T) <= Count(g, S)
<1>1. \A o \in T : Unit(o, f[o]) \subseteq Unit(o, g[o])
  BY DEF Unit
<1>2. Units(f, T) \in SUBSET Units(g, S)
  BY <1>1 DEF Units
<1> QED
  BY <1>2, CountIsFinite, FS_Subset DEF Count

LEMMA CountOfSame ==
    ASSUME NEW f, NEW g, NEW S, \A o \in S : f[o] = g[o]
    PROVE  Count(f, S) = Count(g, S)
BY DEF Count, Units

\* What changes one order changes the count by as much.
LEMMA CountOfChange ==
    ASSUME NEW f \in [OrderIds -> Nat], NEW g \in [OrderIds -> Nat], NEW o \in OrderIds,
           \A p \in OrderIds \ {o} : g[p] = f[p]
    PROVE  Count(g, OrderIds) - g[o] = Count(f, OrderIds) - f[o]
<1>1. Count(g, OrderIds \ {o}) = Count(f, OrderIds \ {o})
  BY CountOfSame
<1>2. /\ Count(f, OrderIds) = f[o] + Count(f, OrderIds \ {o})
      /\ Count(g, OrderIds) = g[o] + Count(g, OrderIds \ {o})
  BY CountOfOneMore
<1>3. /\ Count(f, OrderIds \ {o}) \in Nat /\ f[o] \in Nat
      /\ Count(g, OrderIds \ {o}) \in Nat /\ g[o] \in Nat
  BY CountIsFinite
<1> QED
  BY <1>1, <1>2, <1>3

DoneOf(os) == [o \in OrderIds |-> os[o].done]
AskedOf(os) == [o \in OrderIds |-> os[o].qty]

\* The fold takes the orders one by one, in whatever order: a set it is wrong
\* of would have a smallest one.
LEMMA SumIsCount ==
    ASSUME NEW os, DoneOf(os) \in [OrderIds -> Nat], NEW S \in SUBSET OrderIds
    PROVE  MapThenSumSet(LAMBDA o : os[o].done, S) = Count(DoneOf(os), S)
<1> DEFINE Picked(s) == CHOOSE o \in s : TRUE
           Folds(g) == g = [s \in SUBSET S |-> IF s = {} THEN 0
                                               ELSE os[Picked(s)].done + g[s \ {Picked(s)}]]
           counts == [s \in SUBSET S |-> Count(DoneOf(os), s)]
<1>1. MapThenSumSet(LAMBDA o : os[o].done, S) = (CHOOSE g : Folds(g))[S]
  BY DEF MapThenSumSet, MapThenFoldSet
<1>2. \A s \in SUBSET S : s # {} => Picked(s) \in s
  OBVIOUS
<1> HIDE DEF Picked
<1>3. IsFiniteSet(S)
  BY OrderIdsAssumption, FS_Subset
<1>4. \A s \in SUBSET S :
          s # {} => Count(DoneOf(os), s) = os[Picked(s)].done + Count(DoneOf(os), s \ {Picked(s)})
  <2> SUFFICES ASSUME NEW s \in SUBSET S, s # {}
               PROVE  Count(DoneOf(os), s) = os[Picked(s)].done + Count(DoneOf(os), s \ {Picked(s)})
    OBVIOUS
  <2>1. Picked(s) \in s /\ Picked(s) \in OrderIds /\ s \in SUBSET OrderIds
    BY <1>2
  <2>2. Count(DoneOf(os), s) = DoneOf(os)[Picked(s)] + Count(DoneOf(os), s \ {Picked(s)})
    BY <2>1, CountOfOneMore
  <2> QED
    BY <2>1, <2>2 DEF DoneOf
<1>5. Folds(counts)
  BY <1>4, CountOfNone
<1>6. ASSUME NEW g, Folds(g) PROVE g[S] = counts[S]
  <2> DEFINE Wrong == {s \in SUBSET S : g[s] # counts[s]}
  <2>1. ASSUME Wrong # {} PROVE FALSE
    <3> HIDE DEF Wrong
    <3>1. IsWellFoundedOn(StrictSubsetOrdering(S), SUBSET S) /\ Wrong \subseteq SUBSET S
      BY <1>3, FS_StrictSubsetOrderingWellFounded, FS_FiniteSubsetsOfFinite DEF Wrong
    <3>2. PICK s \in Wrong : \A t \in Wrong : ~(<<t, s>> \in StrictSubsetOrdering(S))
      BY <2>1, <3>1, WFMin
    <3> USE DEF Wrong
    <3>3. s \in SUBSET S /\ s # {}
      BY <1>6, <3>2, CountOfNone
    <3>4. s \ {Picked(s)} \notin Wrong
      BY <1>2, <3>2, <3>3 DEF StrictSubsetOrdering
    <3> QED
      BY <1>4, <1>6, <3>2, <3>3, <3>4
  <2> QED
    BY <2>1
<1> HIDE DEF Folds
<1>7. Folds(CHOOSE g : Folds(g))
  BY <1>5
<1>8. (CHOOSE g : Folds(g))[S] = counts[S]
  BY <1>6, <1>7
<1> QED
  BY <1>1, <1>8

-----------------------------------------------------------------------------
(* The P&L taken from fills.                                               *)
(*                                                                         *)
(* The account holds what the entry bought less what the closing orders    *)
(* sold, so that exits that sold a whole lot leave nothing for any other   *)
(* order to have sold.                                                     *)

DoneBy(ids) == Count(DoneOf(closes), ids)

OrdersInv ==
    /\ \A o \in OrderIds : closes[o].done <= closes[o].qty
    /\ \A o \in OrderIds : closes[o].state = "unsent" => closes[o].qty = 0
    /\ held + DoneBy(OrderIds) = entry.filled

BasisInv ==
    /\ mem.basis = "none"
    /\ row.basis # "none" => row.reconciled
    /\ row.basis = "fills" => /\ \A o \in row.exits : closes[o].state = "filled"
                              /\ DoneBy(row.exits) = Lot

\* What every step does to the orders: a filled order stays as it is, a contract
\* is sold, an order is sent, or some die.
Kept(o) ==
    /\ closes'[o].done = closes[o].done
    /\ closes'[o].qty = closes[o].qty
    /\ closes'[o].state = "unsent" => closes[o].state = "unsent"
    /\ closes[o].state = "filled" => closes'[o] = closes[o]

ContractSold(o) ==
    /\ closes[o].state = "working"
    /\ closes'[o].state # "unsent"
    /\ closes'[o].done = closes[o].done + 1
    /\ closes'[o].qty = closes[o].qty
    /\ closes[o].done < closes[o].qty
    /\ \A p \in OrderIds \ {o} : Kept(p)

OrderSent(o) ==
    /\ closes[o].state = "unsent"
    /\ closes'[o].state = "working"
    /\ closes'[o].done = 0
    /\ closes'[o].qty = Quantity
    /\ \A p \in OrderIds \ {o} : Kept(p)

OrderChange ==
    \/ (\A o \in OrderIds : Kept(o)) /\ held' - held = entry'.filled - entry.filled
    \/ (\E o \in OrderIds : ContractSold(o)) /\ held' = held - 1 /\ entry'.filled = entry.filled
    \/ /\ \E o \in OrderIds : OrderSent(o)
       /\ \E o \in OrderIds, cancelled \in SUBSET Working : CloseSends(o, cancelled)
       /\ held' = held /\ entry'.filled = entry.filled

LEMMA OrdersTyped ==
    /\ TypeOK => /\ DoneOf(closes) \in [OrderIds -> Nat] /\ AskedOf(closes) \in [OrderIds -> Nat]
                 /\ held \in Nat /\ entry.filled \in 0..Lot
    /\ TypeOK' => /\ DoneOf(closes') \in [OrderIds -> Nat] /\ AskedOf(closes') \in [OrderIds -> Nat]
                  /\ held' \in Nat /\ entry'.filled \in 0..Lot
<1>1. \A c \in CloseType : c.done \in Nat /\ c.qty \in Nat
  BY DEF CloseType
<1>2. ASSUME NEW os \in [OrderIds -> CloseType]
      PROVE  DoneOf(os) \in [OrderIds -> Nat] /\ AskedOf(os) \in [OrderIds -> Nat]
  BY <1>1 DEF DoneOf, AskedOf
<1> QED BY <1>2 DEF TypeOK

LEMMA OrdersChange == IInv /\ [Next]_vars => OrderChange
<1> SUFFICES ASSUME IInv, [Next]_vars PROVE OrderChange
  OBVIOUS
<1> USE DEF fileVars, brokerVars, worldVars, localVars
<1>1. /\ closes \in [OrderIds -> CloseType]
      /\ held \in Nat /\ entry.filled \in Nat
      /\ entry \in [state : {"none", "working", "done"}, filled : 0..Lot]
  BY OrdersTyped DEF IInv, TypeOK
<1>2. CASE UNCHANGED brokerVars
  BY <1>1, <1>2 DEF OrderChange, Kept
<1>3. CASE EntryFills
  <2>1. closes' = closes /\ held' = held + 1 /\ entry'.filled = entry.filled + 1
    BY <1>3 DEF EntryFills
  <2> QED BY <1>1, <2>1 DEF OrderChange, Kept
<1>4. CASE EntryDies
  <2>1. closes' = closes /\ held' = held /\ entry'.filled = entry.filled
    BY <1>1, <1>4 DEF EntryDies
  <2> QED BY <1>1, <2>1 DEF OrderChange, Kept
<1>5. CASE BookEntry
  <2>1. entry.filled = 0
    BY <1>5 DEF IInv, EntryOnce, BookEntry
  <2>2. closes' = closes /\ held' = held /\ entry'.filled = entry.filled
    BY <1>5, <2>1 DEF BookEntry
  <2> QED BY <1>1, <2>2 DEF OrderChange, Kept
<1>6. ASSUME NEW o \in OrderIds, CloseFills(o) PROVE OrderChange
  <2>1. closes[o] \in CloseType /\ closes[o].done < closes[o].qty /\ closes[o].state = "working"
    BY <1>1, <1>6 DEF IInv, ClosesHaveWork, CloseFills
  <2>2. /\ closes'[o].done = closes[o].done + 1
        /\ closes'[o].qty = closes[o].qty
        /\ closes'[o].state # "unsent"
        /\ \A p \in OrderIds \ {o} : closes'[p] = closes[p]
    BY <1>1, <1>6, <2>1 DEF CloseFills, CloseType
  <2>3. ContractSold(o)
    BY <2>1, <2>2 DEF ContractSold, Kept
  <2>4. held' = held - 1 /\ entry' = entry
    BY <1>6 DEF CloseFills
  <2> QED BY <2>3, <2>4 DEF OrderChange
<1>7. ASSUME NEW o \in OrderIds, CloseExpires(o) PROVE OrderChange
  <2>1. \A p \in OrderIds : Kept(p)
    BY <1>1, <1>7 DEF CloseExpires, Kept, CloseType
  <2>2. held' = held /\ entry' = entry
    BY <1>7 DEF CloseExpires
  <2> QED BY <1>1, <2>1, <2>2 DEF OrderChange
<1>8. ASSUME NEW cancelled \in SUBSET Working, CloseRefused(cancelled) PROVE OrderChange
  <2>1. \A p \in OrderIds : Kept(p)
    BY <1>1, <1>8 DEF CloseRefused, Kept, CloseType, Working
  <2>2. held' = held /\ entry' = entry
    BY <1>8 DEF CloseRefused
  <2> QED BY <1>1, <2>1, <2>2 DEF OrderChange
<1>9. ASSUME NEW cancelled \in SUBSET Working, NEW o \in OrderIds, CloseSends(o, cancelled)
      PROVE  OrderChange
  <2>1. OrderSent(o)
    BY <1>1, <1>9 DEF CloseSends, OrderSent, Kept, CloseType, Working
  <2>2. held' = held /\ entry' = entry
    BY <1>9 DEF CloseSends
  <2> QED BY <1>9, <2>1, <2>2 DEF OrderChange
<1>10. CASE \/ ManageSkips \/ ManageMaturity \/ ManageHolds \/ ManageStops \/ ManageScales
            \/ CloseSkips \/ ManageWrites \/ ReviewCloses
            \/ \E outcome \in PositionReads : CloseReads(outcome)
  <2>1. UNCHANGED brokerVars
    BY <1>10 DEF ManageSkips, ManageMaturity, ManageHolds, ManageStops, ManageScales, Book,
                 CloseSkips, ManageWrites, WriteBack, ReviewCloses, Review, CloseReads
  <2> QED BY <1>2, <2>1
<1>11. CASE \/ EnterSkips \/ RecordTrade \/ LogForecast \/ Resolve \/ Sweep \/ World \/ Crash
            \/ UNCHANGED vars
  <2>1. UNCHANGED brokerVars
    BY <1>11 DEF EnterSkips, RecordTrade, LogForecast, Resolve, ResolveSkips, ResolveEntry,
                 VoidEntry, VoidUnfilled, Sweep, SweepReadsPositions, SweepKeeps, SweepVoids,
                 World, PriceMoves, DaysPass, Crash, vars
  <2> QED BY <1>2, <2>1
<1> QED BY <1>3, <1>4, <1>5, <1>6, <1>7, <1>8, <1>9, <1>10, <1>11
     DEF Next, Cycle, Manage, Enter, Broker

LEMMA OrdersStep == IInv /\ IInv' /\ OrdersInv /\ OrderChange => OrdersInv'
<1> SUFFICES ASSUME IInv, TypeOK', OrdersInv, OrderChange PROVE OrdersInv'
  BY DEF IInv
<1> DEFINE f == DoneOf(closes)
           g == DoneOf(closes')
<1>1. /\ f \in [OrderIds -> Nat] /\ g \in [OrderIds -> Nat]
      /\ held \in Nat /\ held' \in Nat /\ entry.filled \in Nat /\ entry'.filled \in Nat
      /\ \A o \in OrderIds : closes[o].done \in Nat /\ closes[o].qty \in Nat
  BY OrdersTyped DEF IInv, TypeOK, CloseType
<1>2. \A o \in OrderIds : f[o] = closes[o].done /\ g[o] = closes'[o].done
  BY DEF DoneOf
<1>3. /\ held + Count(f, OrderIds) = entry.filled
      /\ Count(f, OrderIds) \in Nat /\ Count(g, OrderIds) \in Nat
  BY <1>1, CountIsFinite DEF OrdersInv, DoneBy
<1> SUFFICES /\ \A o \in OrderIds : closes'[o].done <= closes'[o].qty
             /\ \A o \in OrderIds : closes'[o].state = "unsent" => closes'[o].qty = 0
             /\ held' + Count(g, OrderIds) = entry'.filled
  BY DEF OrdersInv, DoneBy
<1> HIDE DEF f, g
<1>4. CASE (\A o \in OrderIds : Kept(o)) /\ held' - held = entry'.filled - entry.filled
  <2>1. Count(g, OrderIds) = Count(f, OrderIds)
    <3>1. \A o \in OrderIds : g[o] = f[o]
      BY <1>2, <1>4 DEF Kept
    <3> QED BY <3>1, CountOfSame
  <2>2. held' + Count(g, OrderIds) = entry'.filled
    BY <1>1, <1>3, <1>4, <2>1
  <2> QED BY <1>4, <2>2 DEF OrdersInv, Kept
<1>5. ASSUME NEW o \in OrderIds, ContractSold(o), held' = held - 1, entry'.filled = entry.filled
      PROVE  /\ \A p \in OrderIds : closes'[p].done <= closes'[p].qty
             /\ \A p \in OrderIds : closes'[p].state = "unsent" => closes'[p].qty = 0
             /\ held' + Count(g, OrderIds) = entry'.filled
  <2>1. g[o] = f[o] + 1 /\ f[o] \in Nat
    BY <1>1, <1>2, <1>5 DEF ContractSold
  <2>2. Count(g, OrderIds) - g[o] = Count(f, OrderIds) - f[o]
    <3>1. \A p \in OrderIds \ {o} : g[p] = f[p]
      BY <1>2, <1>5 DEF ContractSold, Kept
    <3> QED BY <1>1, <3>1, CountOfChange
  <2>3. held' + Count(g, OrderIds) = entry'.filled
    BY <1>1, <1>3, <1>5, <2>1, <2>2
  <2> QED BY <1>1, <1>5, <2>3 DEF OrdersInv, ContractSold, Kept
<1>6. ASSUME NEW o \in OrderIds, OrderSent(o), held' = held, entry'.filled = entry.filled
      PROVE  /\ \A p \in OrderIds : closes'[p].done <= closes'[p].qty
             /\ \A p \in OrderIds : closes'[p].state = "unsent" => closes'[p].qty = 0
             /\ held' + Count(g, OrderIds) = entry'.filled
  <2>1. \A p \in OrderIds : g[p] = f[p]
    BY <1>1, <1>2, <1>6 DEF OrdersInv, OrderSent, Kept
  <2>2. Count(g, OrderIds) = Count(f, OrderIds)
    BY <2>1, CountOfSame
  <2>3. closes'[o].qty \in Nat
    BY DEF TypeOK, CloseType
  <2> QED BY <1>1, <1>3, <1>6, <2>2, <2>3 DEF OrdersInv, OrderSent, Kept
<1> QED BY <1>4, <1>5, <1>6 DEF OrderChange

\* A filled order is not touched again.
LEMMA FilledStays ==
    ASSUME OrderChange, NEW o \in OrderIds, closes[o].state = "filled"
    PROVE  closes'[o] = closes[o]
BY DEF OrderChange, Kept, ContractSold, OrderSent

\* The evidence of a reconciliation.
LEMMA EvidenceIsCounted ==
    ASSUME IInv
    PROVE  SoldInFull => /\ \A o \in row.exits : closes[o].state = "filled"
                         /\ DoneBy(row.exits) = Lot
<1>1. row.exits \in SUBSET OrderIds /\ DoneOf(closes) \in [OrderIds -> Nat]
  BY OrdersTyped DEF IInv, TypeOK, RowType
<1>2. MapThenSumSet(LAMBDA o : closes[o].done, row.exits) = DoneBy(row.exits)
  BY <1>1, SumIsCount DEF DoneBy
<1> QED BY <1>2 DEF SoldInFull

\* Only a reconciliation states where the P&L was taken from.
LEMMA BasisChanges ==
    IInv /\ BasisInv /\ [Next]_vars =>
        /\ mem'.basis = "none"
        /\ \/ row' = row
           \/ row'.basis = "none"
           \/ /\ row'.reconciled /\ row'.exits = row.exits /\ closes' = closes
              /\ row'.basis = "fills" => SoldInFull
<1> SUFFICES ASSUME IInv, BasisInv, [Next]_vars
             PROVE  /\ mem'.basis = "none"
                    /\ \/ row' = row
                       \/ row'.basis = "none"
                       \/ /\ row'.reconciled /\ row'.exits = row.exits /\ closes' = closes
                          /\ row'.basis = "fills" => SoldInFull
  OBVIOUS
<1> USE DEF fileVars, brokerVars, worldVars, localVars
<1>1. /\ row \in RowType /\ mem \in RowType /\ mem.basis = "none"
      /\ row.status = "OPEN" => row.basis = "none" /\ Advanced.basis = "none"
      /\ NewRow.basis = "none"
  <2>1. row.status = "OPEN" => row.basis = "none"
    BY DEF IInv, ReconciledIsClosed, BasisInv
  <2>2. row \in RowType => Advanced.basis = row.basis
    BY DEF Advanced, RowType
  <2> QED BY <2>1, <2>2 DEF IInv, TypeOK, BasisInv, NewRow
<1>2. CASE UNCHANGED <<row, mem>>
  BY <1>1, <1>2
<1>3. CASE ManageMaturity \/ ManageStops \/ ManageScales
  BY <1>1, <1>3 DEF ManageMaturity, ManageStops, ManageScales, Book
<1>4. CASE ManageHolds
  BY <1>1, <1>4 DEF ManageHolds
<1>5. CASE ManageWrites
  <2>1. row' = Written(call.booked) /\ mem' = NewRow
    BY <1>5 DEF ManageWrites, WriteBack
  <2>2. Written(call.booked).basis = "none"
    BY <1>1 DEF Written, RowType
  <2> QED BY <1>1, <2>1, <2>2
<1>6. CASE ReviewCloses
  <2>1. PICK outcome \in PositionReads, ordersRead \in BOOLEAN : Review(outcome, ordersRead)
    BY <1>6 DEF ReviewCloses
  <2> DEFINE readable == outcome # "raised"
             fills == ordersRead /\ SoldInFull
  <2>2. readable \in BOOLEAN /\ fills \in BOOLEAN
    BY DEF SoldInFull
  <2>3. /\ UNCHANGED <<mem, closes>>
        /\ \/ row' = row
           \/ /\ row.reconciled = FALSE
              /\ \/ row' = Reverted
                 \/ row' = [row EXCEPT !.partial = TRUE, !.verified_flat = FALSE]
                 \/ row' = Reconciled(readable, fills)
    BY <1>1, <2>1 DEF Review, RowType
  <2>4. fills => SoldInFull
    OBVIOUS
  <2> HIDE DEF readable, fills
  <2>5. CASE row' = Reverted
    BY <1>1, <2>3, <2>5 DEF Reverted, RowType
  <2>6. CASE row' = [row EXCEPT !.partial = TRUE, !.verified_flat = FALSE]
             /\ row.reconciled = FALSE
    BY <1>1, <2>3, <2>6 DEF RowType, BasisInv
  <2>7. CASE row' = Reconciled(readable, fills)
    <3>1. /\ row'.reconciled /\ row'.exits = row.exits
          /\ row'.basis = IF fills THEN "fills" ELSE "unreconciled"
      BY <1>1, <2>7 DEF Reconciled, RowType
    <3> QED BY <1>1, <2>2, <2>3, <2>4, <3>1
  <2> QED BY <1>1, <2>3, <2>5, <2>6, <2>7
<1>7. CASE RecordTrade
  BY <1>1, <1>7 DEF RecordTrade, NewRow
<1>8. CASE VoidEntry \/ SweepVoids
  <2>1. /\ row' = IF row.status = "OPEN" THEN [row EXCEPT !.status = "VOID_UNFILLED"] ELSE row
        /\ mem' = mem
    BY <1>8 DEF VoidEntry, SweepVoids, VoidUnfilled
  <2> QED BY <1>1, <2>1 DEF RowType
<1>9. CASE Crash
  BY <1>1, <1>9 DEF Crash
<1>10. CASE \/ ManageSkips \/ CloseSkips
            \/ \E outcome \in PositionReads : CloseReads(outcome)
            \/ \E cancelled \in SUBSET Working :
                  CloseRefused(cancelled) \/ \E o \in OrderIds : CloseSends(o, cancelled)
  <2>1. UNCHANGED <<row, mem>>
    BY <1>10 DEF ManageSkips, CloseSkips, CloseReads, CloseRefused, CloseSends
  <2> QED BY <1>2, <2>1
<1>11. CASE \/ EnterSkips \/ BookEntry \/ LogForecast \/ ResolveSkips \/ ResolveEntry
            \/ SweepKeeps \/ (\E outcome \in PositionReads : SweepReadsPositions(outcome))
  <2>1. UNCHANGED <<row, mem>>
    BY <1>11 DEF EnterSkips, BookEntry, LogForecast, ResolveSkips, ResolveEntry, SweepKeeps,
                 SweepReadsPositions
  <2> QED BY <1>2, <2>1
<1>12. CASE Broker \/ World \/ UNCHANGED vars
  <2>1. UNCHANGED <<row, mem>>
    BY <1>12 DEF Broker, World, EntryFills, EntryDies, CloseFills, CloseExpires, PriceMoves,
                 DaysPass, vars
  <2> QED BY <1>2, <2>1
<1> QED BY <1>3, <1>4, <1>5, <1>6, <1>7, <1>8, <1>9, <1>10, <1>11, <1>12
     DEF Next, Cycle, Manage, Enter, Resolve, Sweep

LEMMA BasisStep == IInv /\ IInv' /\ BasisInv /\ OrderChange /\ [Next]_vars => BasisInv'
<1> SUFFICES ASSUME IInv, IInv', BasisInv, OrderChange, [Next]_vars PROVE BasisInv'
  OBVIOUS
<1>1. row.exits \in SUBSET OrderIds /\ row.reconciled \in BOOLEAN
  BY DEF IInv, TypeOK, RowType
<1>2. mem'.basis = "none"
  BY BasisChanges
<1>3. CASE row' = row
  <2>1. ASSUME row.basis = "fills"
        PROVE  /\ \A o \in row.exits : closes'[o].state = "filled"
               /\ DoneBy(row.exits)' = Lot
    <3>1. \A o \in row.exits : closes[o].state = "filled" /\ closes'[o] = closes[o]
      BY <1>1, <2>1, FilledStays DEF BasisInv
    <3>2. \A o \in row.exits : DoneOf(closes')[o] = DoneOf(closes)[o]
      BY <1>1, <3>1 DEF DoneOf
    <3>3. Count(DoneOf(closes'), row.exits) = Count(DoneOf(closes), row.exits)
      BY <3>2, CountOfSame
    <3> QED BY <1>3, <2>1, <3>1, <3>3 DEF BasisInv, DoneBy
  <2> QED BY <1>2, <1>3, <2>1 DEF BasisInv, DoneBy
<1>4. CASE row'.basis = "none"
  BY <1>2, <1>4 DEF BasisInv
<1>5. CASE /\ row'.reconciled /\ row'.exits = row.exits /\ closes' = closes
           /\ row'.basis = "fills" => SoldInFull
  BY <1>2, <1>5, EvidenceIsCounted DEF BasisInv, DoneBy
<1> QED BY <1>3, <1>4, <1>5, BasisChanges

FillsInv == IInv /\ OrdersInv /\ BasisInv

LEMMA FillsBegin == Init => OrdersInv /\ BasisInv
<1> SUFFICES ASSUME Init PROVE OrdersInv /\ BasisInv
  OBVIOUS
<1>1. \A o \in OrderIds : closes[o] = [state |-> "unsent", qty |-> 0, done |-> 0, urgent |-> FALSE]
  BY DEF Init
<1>2. DoneBy(OrderIds) = 0
  <2> DEFINE f == DoneOf(closes)
  <2>1. \A o \in OrderIds : Unit(o, f[o]) = {}
    BY <1>1 DEF DoneOf, Unit
  <2>2. Units(f, OrderIds) = {}
    BY <2>1 DEF Units
  <2> QED BY <2>2, FS_EmptySet DEF DoneBy, Count
<1>3. OrdersInv
  BY <1>1, <1>2 DEF Init, OrdersInv
<1>4. BasisInv
  BY DEF Init, BasisInv, NewRow
<1> QED BY <1>3, <1>4

LEMMA FillsHold == Spec => []FillsInv
<1>1. Init => FillsInv
  BY InitHolds, FillsBegin DEF FillsInv
<1>2. FillsInv /\ [Next]_vars => FillsInv'
  BY StepHolds, OrdersChange, OrdersStep, BasisStep DEF FillsInv
<1> QED BY <1>1, <1>2, PTL DEF Spec

\* A P&L taken from fills is that of a trade sold in full (RealizedMeansFlat).
THEOREM FillsMeanFlat == Spec => []RealizedMeansFlat
<1>1. FillsInv => RealizedMeansFlat
  <2> SUFFICES ASSUME FillsInv, row.basis = "fills"
               PROVE  held = 0 /\ Sold(OrderIds) = Lot
    BY DEF RealizedMeansFlat
  <2>1. /\ DoneOf(closes) \in [OrderIds -> Nat] /\ row.exits \in SUBSET OrderIds
        /\ held \in Nat /\ entry.filled \in 0..Lot
    BY OrdersTyped DEF FillsInv, IInv, TypeOK, RowType
  <2>2. Sold(OrderIds) = DoneBy(OrderIds)
    BY <2>1, SumIsCount DEF Sold, DoneBy
  <2>3. DoneBy(row.exits) <= DoneBy(OrderIds) /\ DoneBy(OrderIds) \in Nat
    BY <2>1, CountOfLess, CountIsFinite DEF DoneBy
  <2>4. DoneBy(row.exits) = Lot /\ held + DoneBy(OrderIds) = entry.filled
    BY DEF FillsInv, BasisInv, OrdersInv
  <2> QED BY <2>1, <2>2, <2>3, <2>4
<1> QED BY <1>1, FillsHold, PTL

-----------------------------------------------------------------------------
(* What an open row claims.                                                *)
(*                                                                         *)
(* Until a restart or a revert, and unless an answer is lost, what closing *)
(* orders were asked to sell has come off the row, or is about to.         *)

AskedFor == Count(AskedOf(closes), OrderIds)

Untouched == crashes = 0 /\ ~row.reverted /\ row.status \in {"NONE", "OPEN"}

CoverInv ==
    /\ row.status = "NONE" => AskedFor = 0
    /\ Booking => mem.reverted = row.reverted
    /\ ~LostAnswers /\ Untouched =>
          /\ ~(phase = "writing" /\ call.ok) => row.remaining + AskedFor <= Lot
          /\ phase = "writing" /\ call.ok /\ ~call.urgent =>
                mem.remaining + AskedFor - call.booked <= Lot

LEMMA AskedChanges ==
    ASSUME TypeOK, TypeOK', OrdersInv, OrderChange
    PROVE  /\ AskedFor \in Nat /\ AskedFor' \in Nat
           /\ \/ AskedFor' = AskedFor
              \/ /\ AskedFor' = AskedFor + Quantity
                 /\ \E o \in OrderIds, cancelled \in SUBSET Working : CloseSends(o, cancelled)
<1> DEFINE f == AskedOf(closes)
           g == AskedOf(closes')
<1>1. f \in [OrderIds -> Nat] /\ g \in [OrderIds -> Nat]
  BY OrdersTyped
<1>2. \A o \in OrderIds : f[o] = closes[o].qty /\ g[o] = closes'[o].qty
  BY DEF AskedOf
<1>3. AskedFor = Count(f, OrderIds) /\ AskedFor' = Count(g, OrderIds)
  BY DEF AskedFor
<1> HIDE DEF f, g
<1>4. Count(f, OrderIds) \in Nat /\ Count(g, OrderIds) \in Nat
  BY <1>1, CountIsFinite
<1>5. CASE \/ \A o \in OrderIds : Kept(o)
           \/ \E o \in OrderIds : ContractSold(o)
  <2>1. \A o \in OrderIds : g[o] = f[o]
    BY <1>2, <1>5 DEF Kept, ContractSold
  <2>2. Count(g, OrderIds) = Count(f, OrderIds)
    BY <2>1, CountOfSame
  <2> QED BY <1>3, <1>4, <2>2
<1>6. ASSUME NEW o \in OrderIds, OrderSent(o)
      PROVE  Count(g, OrderIds) = Count(f, OrderIds) + Quantity
  <2>1. f[o] = 0 /\ g[o] = Quantity /\ \A p \in OrderIds \ {o} : g[p] = f[p]
    BY <1>2, <1>6 DEF OrdersInv, OrderSent, Kept
  <2>2. Count(g, OrderIds) - g[o] = Count(f, OrderIds) - f[o]
    BY <1>1, <2>1, CountOfChange
  <2>3. Quantity \in Nat
    BY <1>1, <2>1
  <2> QED BY <1>4, <2>1, <2>2, <2>3
<1> QED BY <1>3, <1>4, <1>5, <1>6 DEF OrderChange

\* A row that is left alone, by a step that books nothing and orders nothing.
LEMMA CoverStands ==
    ASSUME CoverInv, row' = row, crashes' = crashes, AskedFor' = AskedFor,
           \/ phase' = phase /\ UNCHANGED <<mem, call>>
           \/ ~Booking /\ ~Booking'
    PROVE  CoverInv'
BY DEF CoverInv, Untouched, Booking

LEMMA CoverStep == FillsInv /\ FillsInv' /\ CoverInv /\ [Next]_vars => CoverInv'
<1> SUFFICES ASSUME FillsInv, FillsInv', CoverInv, [Next]_vars PROVE CoverInv'
  OBVIOUS
<1> USE DEF fileVars, brokerVars, worldVars, localVars
<1>1. /\ row \in RowType /\ mem \in RowType /\ call \in CallType
      /\ row.remaining \in 0..Lot /\ mem.remaining \in 0..Lot /\ call.booked \in 0..Lot
      /\ call.ok \in BOOLEAN /\ call.urgent \in BOOLEAN
      /\ crashes \in Nat
  BY DEF FillsInv, IInv, TypeOK, RowType, CallType
<1>2. /\ AskedFor \in Nat /\ AskedFor' \in Nat
      /\ \/ AskedFor' = AskedFor
         \/ /\ AskedFor' = AskedFor + Quantity
            /\ \E o \in OrderIds, cancelled \in SUBSET Working : CloseSends(o, cancelled)
  <2>1. OrderChange
    BY OrdersChange DEF FillsInv
  <2> QED BY <2>1, AskedChanges DEF FillsInv, IInv
<1>3. Booking => /\ row.status = "OPEN" /\ mem.status = "OPEN"
                 /\ mem.remaining = row.remaining /\ mem.reverted = row.reverted
  BY DEF FillsInv, IInv, CopyIsAhead, CoverInv
<1>4. ASSUME NEW o \in OrderIds, NEW cancelled \in SUBSET Working, CloseSends(o, cancelled)
      PROVE  CoverInv'
  <2>1. /\ phase = "placing" /\ phase' = "writing"
        /\ UNCHANGED <<row, mem, crashes>>
        /\ LostAnswers \/ (call'.ok /\ call'.booked = Quantity)
    BY <1>1, <1>4 DEF CloseSends, Answer, CallType
  <2>2. row.status = "OPEN" /\ mem.remaining = row.remaining /\ mem.reverted = row.reverted
    BY <1>3, <2>1 DEF Booking
  <2>3. AskedFor' <= AskedFor + Quantity /\ Quantity \in Nat
    <3>1. Quantity \in Nat
      BY <1>4, QuantityIsBounded DEF FillsInv, IInv, TypeOK, CallType, Quantity, Smaller
    <3> QED BY <1>2, <3>1
  <2>4. ~LostAnswers /\ Untouched => row.remaining + AskedFor <= Lot
    BY <2>1 DEF CoverInv
  <2>5. ~LostAnswers /\ Untouched => mem'.remaining + AskedFor' - call'.booked <= Lot
    BY <1>1, <1>2, <2>1, <2>2, <2>3, <2>4
  <2> QED BY <2>1, <2>2, <2>5 DEF CoverInv, Untouched
<1> SUFFICES ASSUME AskedFor' = AskedFor,
                    ~ \E o \in OrderIds, cancelled \in SUBSET Working : CloseSends(o, cancelled)
             PROVE  CoverInv'
  BY <1>2, <1>4
<1>5. CASE ManageMaturity \/ ManageStops \/ ManageScales
  <2>1. /\ phase = "manage" /\ phase' = "closing"
        /\ UNCHANGED <<row, crashes>>
        /\ mem' = row \/ mem' = Advanced
    BY <1>5 DEF ManageMaturity, ManageStops, ManageScales, Book
  <2>2. Advanced.reverted = row.reverted
    BY <1>1 DEF Advanced, RowType
  <2> QED BY <2>1, <2>2 DEF CoverInv, Untouched
<1>6. CASE ManageHolds
  <2>1. /\ phase = "manage" /\ phase' = "review" /\ row' = Advanced /\ UNCHANGED crashes
    BY <1>6 DEF ManageHolds
  <2>2. /\ Advanced.reverted = row.reverted /\ Advanced.remaining = row.remaining
        /\ Advanced.status = row.status
    BY <1>1 DEF Advanced, RowType
  <2> QED BY <2>1, <2>2 DEF CoverInv, Untouched, Booking
<1>7. CASE \/ CloseSkips \/ (\E cancelled \in SUBSET Working : CloseRefused(cancelled))
            \/ (\E outcome \in PositionReads : CloseReads(outcome))
  <2>1. /\ phase \in {"closing", "placing"}
        /\ UNCHANGED <<row, mem, crashes>>
        /\ \/ phase' = "placing"
           \/ phase' = "writing" /\ (call'.ok => call'.booked = 0)
    BY <1>1, <1>7 DEF CloseSkips, CloseRefused, CloseReads, Answer, CallType
  <2>2. Booking /\ phase # "writing"
    BY <2>1 DEF Booking
  <2>3. ~LostAnswers /\ Untouched => row.remaining + AskedFor <= Lot
    BY <2>2 DEF CoverInv
  <2>4. call'.booked = 0 /\ ~LostAnswers /\ Untouched => mem'.remaining + AskedFor' - call'.booked <= Lot
    BY <1>1, <1>2, <1>3, <2>1, <2>2, <2>3
  <2> QED BY <1>3, <2>1, <2>2, <2>3, <2>4 DEF CoverInv, Untouched
<1>8. CASE ManageWrites
  <2>1. /\ phase = "writing" /\ phase' = "review"
        /\ row' = Written(call.booked) /\ UNCHANGED crashes
    BY <1>8 DEF ManageWrites, WriteBack
  <2>2. /\ Written(call.booked).reverted = mem.reverted
        /\ Written(call.booked).status \in {"OPEN", "CLOSED"}
        /\ ~call.ok => Written(call.booked).remaining = mem.remaining
        /\ call.ok /\ call.urgent => Written(call.booked).status = "CLOSED"
        /\ call.ok /\ ~call.urgent => Written(call.booked).remaining = mem.remaining - call.booked
    BY <1>1, <1>3, <2>1 DEF Written, RowType, Booking
  <2>3. ~LostAnswers /\ Untouched /\ ~call.ok => row'.remaining + AskedFor' <= Lot
    BY <1>3, <2>1, <2>2 DEF CoverInv, Booking
  <2>4. ~LostAnswers /\ Untouched /\ call.ok /\ ~call.urgent => row'.remaining + AskedFor' <= Lot
    <3>1. ~LostAnswers /\ Untouched /\ call.ok /\ ~call.urgent =>
              mem.remaining + AskedFor - call.booked <= Lot
      BY <2>1 DEF CoverInv
    <3> QED BY <1>1, <1>2, <2>1, <2>2, <3>1
  <2>5. row.status = "OPEN" /\ row.reverted = mem.reverted
    BY <1>3, <2>1 DEF Booking
  <2>6. Untouched' => Untouched /\ ~(call.ok /\ call.urgent)
    BY <1>1, <2>1, <2>2, <2>5 DEF Untouched
  <2> QED BY <1>1, <2>1, <2>2, <2>3, <2>4, <2>6 DEF CoverInv, Booking
<1>9. CASE ReviewCloses
  <2>1. PICK outcome \in PositionReads, ordersRead \in BOOLEAN : Review(outcome, ordersRead)
    BY <1>9 DEF ReviewCloses
  <2> DEFINE readable == outcome # "raised"
             fills == ordersRead /\ SoldInFull
  <2>2. /\ phase = "review" /\ phase' = "enter" /\ UNCHANGED crashes
        /\ \/ row' = row
           \/ /\ row.status = "CLOSED"
              /\ \/ row' = Reverted
                 \/ row' = [row EXCEPT !.partial = TRUE, !.verified_flat = FALSE]
                 \/ row' = Reconciled(readable, fills)
    BY <2>1 DEF Review
  <2> HIDE DEF readable, fills
  <2>3. Reverted.reverted = TRUE /\ Reverted.status = "OPEN"
    BY <1>1 DEF Reverted, RowType
  <2>4. row.status = "CLOSED" => /\ [row EXCEPT !.partial = TRUE, !.verified_flat = FALSE].status = "CLOSED"
                                 /\ Reconciled(readable, fills).status = "CLOSED"
    BY <1>1 DEF Reconciled, RowType
  <2>5. CASE row' = row
    BY <2>2, <2>5, CoverStands DEF Booking
  <2>6. CASE row' # row
    BY <2>2, <2>3, <2>4, <2>6 DEF CoverInv, Untouched, Booking
  <2> QED BY <2>5, <2>6
<1>10. CASE RecordTrade
  <2>1. /\ row.status = "NONE" /\ row' = [NewRow EXCEPT !.status = "OPEN"] /\ phase' = "book"
    BY <1>10 DEF RecordTrade
  <2>2. row'.status = "OPEN" /\ row'.remaining = Lot
    BY <2>1 DEF NewRow
  <2>3. AskedFor = 0
    BY <2>1 DEF CoverInv
  <2>4. row'.remaining + AskedFor' <= Lot
    BY <2>2, <2>3
  <2> QED BY <2>1, <2>2, <2>4 DEF CoverInv, Booking
<1>11. CASE VoidEntry \/ SweepVoids
  <2>1. /\ phase \in {"void", "sweeping"} /\ phase' \in {"sweep", "manage"} /\ UNCHANGED crashes
        /\ row' = IF row.status = "OPEN" THEN [row EXCEPT !.status = "VOID_UNFILLED"] ELSE row
    BY <1>11 DEF VoidEntry, SweepVoids, VoidUnfilled
  <2>2. CASE row' = row
    BY <2>1, <2>2, CoverStands DEF Booking
  <2>3. CASE row' # row
    <3>1. row'.status = "VOID_UNFILLED"
      BY <1>1, <2>1, <2>3 DEF RowType
    <3> QED BY <2>1, <3>1 DEF CoverInv, Untouched, Booking
  <2> QED BY <2>2, <2>3
<1>12. CASE Crash
  <2>1. crashes' = crashes + 1 /\ crashes' # 0 /\ row' = row /\ phase' = "manage"
    BY <1>1, <1>12 DEF Crash
  <2> QED BY <2>1 DEF CoverInv, Untouched, Booking
<1>13. CASE \/ ManageSkips \/ EnterSkips \/ BookEntry \/ LogForecast \/ ResolveSkips
            \/ ResolveEntry \/ SweepKeeps
            \/ (\E outcome \in PositionReads : SweepReadsPositions(outcome))
  <2>1. ~Booking /\ ~Booking' /\ UNCHANGED <<row, crashes>>
    BY <1>13 DEF ManageSkips, EnterSkips, BookEntry, LogForecast, ResolveSkips, ResolveEntry,
                 SweepKeeps, SweepReadsPositions, Booking
  <2> QED BY <2>1, CoverStands
<1>14. CASE Broker \/ World \/ UNCHANGED vars
  <2>1. UNCHANGED <<row, mem, call, phase, crashes>>
    BY <1>14 DEF Broker, World, EntryFills, EntryDies, CloseFills, CloseExpires, PriceMoves,
                 DaysPass, vars
  <2> QED BY <2>1, CoverStands
<1> QED BY <1>4, <1>5, <1>6, <1>7, <1>8, <1>9, <1>10, <1>11, <1>12, <1>13, <1>14
     DEF Next, Cycle, Manage, Enter, Resolve, Sweep

LEMMA CoverBegins == Init => CoverInv
<1> SUFFICES ASSUME Init PROVE CoverInv
  OBVIOUS
<1>1. AskedFor = 0
  <2> DEFINE f == AskedOf(closes)
  <2>1. \A o \in OrderIds : Unit(o, f[o]) = {}
    BY DEF Init, AskedOf, Unit
  <2>2. Units(f, OrderIds) = {}
    BY <2>1 DEF Units
  <2> QED BY <2>2, FS_EmptySet DEF AskedFor, Count
<1>2. row.remaining = Lot /\ row.reverted = mem.reverted /\ phase = "enter"
  BY DEF Init, NewRow
<1>3. row.remaining + AskedFor <= Lot
  BY <1>1, <1>2
<1> QED BY <1>1, <1>2, <1>3 DEF CoverInv

\* As long as no answer to an order is lost, an open row of an undisturbed trade
\* claims no contracts the account does not hold (OpenRowIsCovered).
THEOREM OpenRowsCovered == Spec => [](~LostAnswers => OpenRowIsCovered)
<1>1. Init => FillsInv /\ CoverInv
  BY InitHolds, FillsBegin, CoverBegins DEF FillsInv
<1>2. FillsInv /\ [Next]_vars => FillsInv'
  BY StepHolds, OrdersChange, OrdersStep, BasisStep DEF FillsInv
<1>3. FillsInv /\ FillsInv' /\ CoverInv /\ [Next]_vars => CoverInv'
  BY CoverStep
<1>4. FillsInv /\ CoverInv => (~LostAnswers => OpenRowIsCovered)
  <2> SUFFICES ASSUME FillsInv, CoverInv, ~LostAnswers,
                      Undisturbed, row.status = "OPEN", phase # "writing"
               PROVE  row.remaining <= held
    BY DEF OpenRowIsCovered
  <2>1. /\ DoneOf(closes) \in [OrderIds -> Nat] /\ AskedOf(closes) \in [OrderIds -> Nat]
        /\ held \in Nat /\ row.remaining \in Nat
    BY OrdersTyped DEF FillsInv, IInv, TypeOK, RowType
  <2>2. \A o \in OrderIds : DoneOf(closes)[o] <= AskedOf(closes)[o]
    BY DEF FillsInv, OrdersInv, DoneOf, AskedOf
  <2>3. DoneBy(OrderIds) <= AskedFor /\ DoneBy(OrderIds) \in Nat /\ AskedFor \in Nat
    BY <2>1, <2>2, CountOfLess, CountIsFinite DEF DoneBy, AskedFor
  <2>4. held + DoneBy(OrderIds) = Lot
    BY DEF FillsInv, OrdersInv, Undisturbed
  <2>5. row.remaining + AskedFor <= Lot
    BY DEF CoverInv, Untouched, Undisturbed
  <2> QED BY <2>1, <2>3, <2>4, <2>5
<1> QED BY <1>1, <1>2, <1>3, <1>4, PTL DEF Spec
=============================================================================
