---------------------------- MODULE OptionsBook ----------------------------
(***************************************************************************)
(* The life of one option trade: its row in the options ledger, its orders *)
(* and contracts at the broker, and the scheduler cycle that manages it    *)
(*                                                                         *)
(*    manage -> review -> enter -> resolve -> sweep -> manage ...          *)
(*                                                                         *)
(* (options_position_manager_engine, greyline_sim_execution_engine,        *)
(* momentum_options_execution_engine, options_entry_reconciler_engine).    *)
(* Between any two calls of the cycle the broker fills, expires or refuses *)
(* orders, the underlying moves, and the process may die and restart.      *)
(***************************************************************************)
EXTENDS Doctrine, FiniteSets, FiniteSetsExt

CONSTANTS
    Lot,            \* contracts the trade was recorded with
    Prices,         \* prices the underlying can trade at (see Doctrine)
    OrderIds,       \* closing orders the broker can take before the run ends
    PositionReads,  \* how a read of the account can end
    LostAnswers,    \* whether the answer to an order the broker took can be lost
    MaxCrashes      \* bound on restarts

\* A read answers 200 ("ok"), answers 200 with a body that does not parse or
\* lists nothing ("blank"), answers something else ("refused": the gateway
\* returns ok = False and a body without positions), or raises ("raised").
ReadOutcomes == {"ok", "blank", "refused", "raised"}

ASSUME LotAssumption == Lot \in Nat \ {0}
ASSUME PricesAssumption == Prices \subseteq Int
ASSUME OrderIdsAssumption == IsFiniteSet(OrderIds)
ASSUME ReadsAssumption == PositionReads \subseteq ReadOutcomes
ASSUME AnswersAssumption == LostAnswers \in BOOLEAN
ASSUME CrashesAssumption == MaxCrashes \in Nat

VARIABLES
    row,        \* the trade's row in options_paper_trade_ledger.jsonl
    forecast,   \* the status of its entry in entry_outcomes.jsonl
    entry,      \* its opening order at the broker
    closes,     \* its closing orders at the broker
    held,       \* contracts of it in the account
    price,      \* the underlying, now
    expiring,   \* one business day before expiry, or later
    aged,       \* the row is older than SWEEP_MIN_AGE_MINUTES
    phase,      \* where the cycle is
    mem,        \* manage_open_positions' copy of the row
    call,       \* the close it is booking, and the answer
    seenHeld,   \* what the sweep's positions read showed
    crashes     \* restarts so far

brokerVars == <<entry, closes, held>>
fileVars == <<row, forecast>>
worldVars == <<price, expiring, aged>>
localVars == <<mem, call, seenHeld>>
vars == <<fileVars, brokerVars, worldVars, phase, localVars, crashes>>

-----------------------------------------------------------------------------
(* State *)

Phases == {"manage", "closing", "placing", "writing", "review", "enter", "book",
           "log", "resolve", "void", "sweep", "sweeping"}

\* `exits` are the order ids in exit_events; `contracts` and
\* `remaining_contracts` move together and are one field.
RowType ==
    [status : {"NONE", "OPEN", "CLOSED", "VOID_UNFILLED"},
     targets_filled : 0..Targets, extreme : Int, remaining : 0..Lot,
     exits : SUBSET OrderIds,
     reverted : BOOLEAN, partial : BOOLEAN, verified_flat : BOOLEAN,
     basis : {"none", "fills", "unreconciled"}, reconciled : BOOLEAN]

NewRow ==
    [status |-> "NONE", targets_filled |-> 0, extreme |-> 0, remaining |-> Lot,
     exits |-> {}, reverted |-> FALSE, partial |-> FALSE, verified_flat |-> FALSE,
     basis |-> "none", reconciled |-> FALSE]

CloseType ==
    [state : {"unsent", "working", "filled", "dead"},
     qty : 0..Lot, done : 0..Lot, urgent : BOOLEAN]

\* A close being booked: how many are wanted, how urgently, how many the
\* positions read showed; then the answer: ok, the contracts reported, the order.
CallType ==
    [want : 0..Lot, urgent : BOOLEAN, live : 0..Lot,
     ok : BOOLEAN, booked : 0..Lot, order : SUBSET OrderIds]

NoCall == [want |-> 0, urgent |-> FALSE, live |-> 0,
           ok |-> FALSE, booked |-> 0, order |-> {}]

TypeOK ==
    /\ row \in RowType
    /\ forecast \in {"none", "PENDING", "PLACE_FAILED", "FILLED", "UNFILLED"}
    /\ entry \in [state : {"none", "working", "done"}, filled : 0..Lot]
    /\ closes \in [OrderIds -> CloseType]
    /\ held \in 0..Lot
    /\ price \in Prices
    /\ expiring \in BOOLEAN
    /\ aged \in BOOLEAN
    /\ phase \in Phases
    /\ mem \in RowType
    /\ call \in CallType
    /\ seenHeld \in BOOLEAN
    /\ crashes \in 0..MaxCrashes

Init ==
    /\ row = NewRow
    /\ forecast = "none"
    /\ entry = [state |-> "none", filled |-> 0]
    /\ closes = [o \in OrderIds |->
                    [state |-> "unsent", qty |-> 0, done |-> 0, urgent |-> FALSE]]
    /\ held = 0
    /\ price \in Prices
    /\ expiring = FALSE
    /\ aged = FALSE
    /\ phase = "enter"
    /\ mem = NewRow
    /\ call = NoCall
    /\ seenHeld = FALSE
    /\ crashes = 0

Working == {o \in OrderIds : closes[o].state = "working"}

\* Contracts the broker keeps for the working closes; it refuses to sell them
\* a second time.
Reserved(ids) == MapThenSumSet(LAMBDA o : closes[o].qty - closes[o].done, ids)

-----------------------------------------------------------------------------
(* The broker and the market *)

EntryFills ==
    /\ entry.state = "working"
    /\ entry' = [state |-> IF entry.filled + 1 = Lot THEN "done" ELSE "working",
                 filled |-> entry.filled + 1]
    /\ held' = held + 1
    /\ UNCHANGED <<closes, fileVars, worldVars, phase, localVars, crashes>>

\* Rejected after acceptance, cancelled, or expired at the end of the day.
EntryDies ==
    /\ entry.state = "working"
    /\ entry' = [entry EXCEPT !.state = "done"]
    /\ UNCHANGED <<closes, held, fileVars, worldVars, phase, localVars, crashes>>

CloseFills(o) ==
    /\ closes[o].state = "working"
    /\ held > 0
    /\ closes' = [closes EXCEPT
                    ![o].done = @ + 1,
                    ![o].state = IF closes[o].done + 1 = closes[o].qty THEN "filled" ELSE @]
    /\ held' = held - 1
    /\ UNCHANGED <<entry, fileVars, worldVars, phase, localVars, crashes>>

\* A closing order is good for the day.
CloseExpires(o) ==
    /\ closes[o].state = "working"
    /\ closes' = [closes EXCEPT ![o].state = "dead"]
    /\ UNCHANGED <<entry, held, fileVars, worldVars, phase, localVars, crashes>>

PriceMoves ==
    /\ price' \in Prices
    /\ UNCHANGED <<expiring, aged, fileVars, brokerVars, phase, localVars, crashes>>

DaysPass ==
    /\ \/ aged' = TRUE /\ UNCHANGED expiring
       \/ aged' = TRUE /\ expiring' = TRUE
    /\ UNCHANGED <<price, fileVars, brokerVars, phase, localVars, crashes>>

-----------------------------------------------------------------------------
(* manage_open_positions *)

\* Fault: targets counted from scratch instead of from those filled.
AdvancedFromScratch ==
    LET extreme == IF price > row.extreme THEN price ELSE row.extreme IN
    [row EXCEPT !.extreme = extreme, !.targets_filled = Reached(0, price)]

\* The row as the manager holds it once it has a usable quote: the extreme and
\* the targets advance before any close is attempted.
Advanced ==
    LET extreme == IF price > row.extreme THEN price ELSE row.extreme IN
    [row EXCEPT !.extreme = extreme,
                !.targets_filled = Reached(row.targets_filled, price)]

Decision == Action(Lot, row.targets_filled, price, Advanced.extreme)

Book(want, urgent, copy) ==
    /\ mem' = copy
    /\ call' = [NoCall EXCEPT !.want = want, !.urgent = urgent]
    /\ phase' = "closing"
    /\ UNCHANGED <<fileVars, brokerVars, worldVars, seenHeld, crashes>>

\* Nothing to do for this row: it is not open, the market is closed, or the
\* underlying has no fresh quote.
ManageSkips ==
    /\ phase = "manage"
    /\ phase' = "review"
    /\ UNCHANGED <<fileVars, brokerVars, worldVars, localVars, crashes>>

\* Maturity comes first, and does not touch the ladder.
ManageMaturity ==
    /\ phase = "manage"
    /\ row.status = "OPEN"
    /\ expiring
    /\ Book(row.remaining, TRUE, row)

ManageHolds ==
    /\ phase = "manage"
    /\ row.status = "OPEN"
    /\ ~expiring
    /\ Decision \in {"HOLD", "RATCHET"}
    /\ row' = Advanced
    /\ phase' = "review"
    /\ UNCHANGED <<forecast, brokerVars, worldVars, localVars, crashes>>

ManageStops ==
    /\ phase = "manage"
    /\ row.status = "OPEN"
    /\ ~expiring
    /\ Decision = "CLOSE"
    /\ Book(row.remaining, TRUE, Advanced)

Smaller(m, n) == IF m < n THEN m ELSE n

ManageScales ==
    /\ phase = "manage"
    /\ row.status = "OPEN"
    /\ ~expiring
    /\ Decision = "SCALE"
    /\ Book(Smaller(ToSell(Lot, row.targets_filled, Advanced.targets_filled),
                    row.remaining),
            FALSE, Advanced)

-----------------------------------------------------------------------------
(* book_option_close *)

Answer(ok, booked, order) ==
    /\ call' = [call EXCEPT !.ok = ok, !.booked = booked, !.order = order]
    /\ phase' = "writing"

\* sim_position: whatever is not a 200 reads as no position, and no position
\* is a successful close of nothing.
CloseReads(outcome) ==
    /\ phase = "closing"
    /\ IF outcome = "ok" /\ held > 0
       THEN /\ call' = [call EXCEPT !.live = held]
            /\ phase' = "placing"
       ELSE Answer(TRUE, 0, {})
    /\ UNCHANGED <<fileVars, brokerVars, worldVars, mem, seenHeld, crashes>>

\* min(want, live): want = 0 asks for the whole position.
Quantity == IF call.want > 0 THEN Smaller(call.want, call.live) ELSE call.live

\* A patient close is skipped when a close already rests, or when the contract
\* has no two-sided quote; the answer still carries the quantity.
CloseSkips ==
    /\ phase = "placing"
    /\ ~call.urgent
    /\ Answer(FALSE, Quantity, {})
    /\ UNCHANGED <<fileVars, brokerVars, worldVars, mem, seenHeld, crashes>>

\* A close is sent: an urgent one after cancelling the closes it saw resting
\* (`cancelled` are those whose cancel landed), a patient one when it saw none.
\* A failed orders read shows none.  The request may time out after the broker
\* took the order: _book_close then reports a failure of nothing.
CloseSends(o, cancelled) ==
    /\ phase = "placing"
    /\ cancelled \subseteq Working
    /\ ~call.urgent => cancelled = {}
    /\ closes[o].state = "unsent"
    /\ Quantity <= held - Reserved(Working \ cancelled)
    /\ closes' = [p \in OrderIds |->
                    IF p = o THEN [state |-> "working", qty |-> Quantity, done |-> 0,
                                   urgent |-> call.urgent]
                    ELSE IF p \in cancelled THEN [closes[p] EXCEPT !.state = "dead"]
                    ELSE closes[p]]
    /\ \/ Answer(TRUE, Quantity, {o})
       \/ LostAnswers /\ Answer(FALSE, 0, {})
    /\ UNCHANGED <<entry, held, fileVars, worldVars, mem, seenHeld, crashes>>

\* The broker refuses the order: the contracts are reserved, or for a reason of
\* its own.
CloseRefused(cancelled) ==
    /\ phase = "placing"
    /\ cancelled \subseteq Working
    /\ ~call.urgent => cancelled = {}
    /\ closes' = [p \in OrderIds |->
                    IF p \in cancelled THEN [closes[p] EXCEPT !.state = "dead"]
                    ELSE closes[p]]
    /\ Answer(FALSE, Quantity, {})
    /\ UNCHANGED <<entry, held, fileVars, worldVars, mem, seenHeld, crashes>>

\* The row after its close was answered: a stop or a liquidation that was ok
\* closes it, a tranche that was ok and booked something comes off it.
Written(deducted) ==
    LET left   == mem.remaining - deducted
        logged == [mem EXCEPT !.exits = @ \cup call.order]
    IN  IF ~call.ok THEN logged
        ELSE IF call.urgent THEN [logged EXCEPT !.status = "CLOSED"]
        ELSE IF call.booked = 0 THEN logged
        ELSE [logged EXCEPT !.remaining = left,
                            !.status = IF left <= 0 THEN "CLOSED" ELSE @]

WriteBack(deducted) ==
    /\ phase = "writing"
    /\ row' = Written(deducted)
    /\ phase' = "review"
    /\ call' = NoCall
    /\ mem' = NewRow
    /\ UNCHANGED <<forecast, brokerVars, worldVars, seenHeld, crashes>>
ManageWritesUndeducted == WriteBack(0)

\* The ledger is written back.
ManageWrites == WriteBack(call.booked)

-----------------------------------------------------------------------------
(* reconcile_closes *)

\* Fault: every exit is filled, however much they sold.
SoldInFullUncounted ==
    row.exits # {} /\ \A o \in row.exits : closes[o].state = "filled"

\* The fills account for the whole trade: every exit order is Filled, and they
\* sold as many contracts as were recorded.
SoldInFull ==
    /\ row.exits # {}
    /\ \A o \in row.exits : closes[o].state = "filled"
    /\ MapThenSumSet(LAMBDA o : closes[o].done, row.exits) = Lot

\* Fault: reopened without restoring the contracts.
RevertedShort ==
    [row EXCEPT !.status = "OPEN", !.targets_filled = 0, !.extreme = 0,
                !.reverted = TRUE, !.verified_flat = FALSE, !.basis = "none"]

Reverted ==
    [row EXCEPT !.status = "OPEN", !.remaining = Lot, !.targets_filled = 0,
                !.extreme = 0, !.reverted = TRUE, !.verified_flat = FALSE,
                !.basis = "none"]

Reconciled(readable, fills) ==
    [row EXCEPT !.reconciled = TRUE,
                !.verified_flat = @ \/ readable,
                !.basis = IF fills THEN "fills" ELSE "unreconciled"]

\* Only a read that raises is unreadable; one that is not a 200 shows no positions.
Review(outcome, ordersRead) ==
    /\ phase = "review"
    /\ LET readable == outcome # "raised"
           showing  == IF outcome = "ok" THEN held ELSE 0
       IN  row' = IF row.status # "CLOSED" \/ row.reconciled THEN row
                  ELSE IF readable /\ showing >= Lot THEN Reverted
                  ELSE IF readable /\ showing > 0
                       THEN [row EXCEPT !.partial = TRUE, !.verified_flat = FALSE]
                  ELSE Reconciled(readable, ordersRead /\ SoldInFull)
    /\ phase' = "enter"
    /\ UNCHANGED <<forecast, brokerVars, worldVars, localVars, crashes>>

-----------------------------------------------------------------------------
(* The entry: record_trade, book_option_opens, record_forecast *)

EnterSkips ==
    /\ phase = "enter"
    /\ phase' = "resolve"
    /\ UNCHANGED <<fileVars, brokerVars, worldVars, localVars, crashes>>

\* The row is written OPEN before its order is sent.
RecordTrade ==
    /\ phase = "enter"
    /\ row.status = "NONE"
    /\ row' = [NewRow EXCEPT !.status = "OPEN"]
    /\ aged' = FALSE
    /\ phase' = "book"
    /\ UNCHANGED <<forecast, brokerVars, price, expiring, localVars, crashes>>

\* The broker takes the order or refuses it; a request that raises skips the
\* logging of the forecast, whether the broker took the order or not.
BookEntry ==
    /\ phase = "book"
    /\ \/ entry' = [state |-> "working", filled |-> 0]
       \/ UNCHANGED entry
    /\ phase' = "log" \/ (LostAnswers /\ phase' = "resolve")
    /\ UNCHANGED <<fileVars, closes, held, worldVars, localVars, crashes>>

LogForecast ==
    /\ phase = "log"
    /\ forecast' = IF entry.state = "none" THEN "PLACE_FAILED" ELSE "PENDING"
    /\ phase' = "resolve"
    /\ UNCHANGED <<row, brokerVars, worldVars, localVars, crashes>>

-----------------------------------------------------------------------------
(* OptionsEntryReconcilerEngine: reconcile and sweep_phantoms *)

\* "partiallyfilled" contains "filled": an entry counts as filled from its
\* first contract on, as long as it works; one that ended short counts as dead.
EntryReadsFilled == entry.filled = Lot \/ (entry.filled > 0 /\ entry.state = "working")
\* Fault: an entry that ended short is neither filled nor dead.
EntryReadsDeadEmpty == entry.state = "done" /\ entry.filled = 0
EntryReadsDead == entry.state = "done" /\ entry.filled < Lot

ResolveSkips ==
    /\ phase = "resolve"
    /\ phase' = "sweep"
    /\ UNCHANGED <<fileVars, brokerVars, worldVars, localVars, crashes>>

ResolveEntry ==
    /\ phase = "resolve"
    /\ forecast = "PENDING"
    /\ \/ /\ EntryReadsFilled
          /\ forecast' = "FILLED"
          /\ phase' = "sweep"
       \/ /\ EntryReadsDead
          /\ forecast' = "UNFILLED"
          /\ phase' = "void"
    /\ UNCHANGED <<row, brokerVars, worldVars, localVars, crashes>>

\* Fault: any row of that symbol is voided.
VoidUnfilledAlways(next) ==
    /\ row' = [row EXCEPT !.status = "VOID_UNFILLED"]
    /\ phase' = next
    /\ UNCHANGED <<forecast, brokerVars, worldVars, localVars, crashes>>

VoidUnfilled(next) ==
    /\ row' = IF row.status = "OPEN" THEN [row EXCEPT !.status = "VOID_UNFILLED"] ELSE row
    /\ phase' = next
    /\ UNCHANGED <<forecast, brokerVars, worldVars, localVars, crashes>>

VoidEntry == phase = "void" /\ VoidUnfilled("sweep")

\* snapshot reads the positions, then the orders; it refuses an answer that is
\* not a 200, but a blank one shows an empty account.
SweepReadsPositions(outcome) ==
    /\ phase = "sweep"
    /\ IF outcome \in {"ok", "blank"}
       THEN phase' = "sweeping" /\ seenHeld' = (outcome = "ok" /\ held > 0)
       ELSE phase' = "manage" /\ UNCHANGED seenHeld
    /\ UNCHANGED <<fileVars, brokerVars, worldVars, mem, call, crashes>>

SweepKeeps ==
    /\ phase = "sweeping"
    /\ phase' = "manage"
    /\ UNCHANGED <<fileVars, brokerVars, worldVars, localVars, crashes>>

\* Fault: only entries with a dead order are swept, not those never sent.
SweepVoidsSent ==
    /\ phase = "sweeping"
    /\ row.status = "OPEN"
    /\ aged
    /\ ~seenHeld
    /\ entry.state = "done"
    /\ VoidUnfilled("manage")

SweepVoids ==
    /\ phase = "sweeping"
    /\ row.status = "OPEN"
    /\ aged
    /\ ~seenHeld
    /\ entry.state # "working" \/ "blank" \in PositionReads
    /\ VoidUnfilled("manage")

-----------------------------------------------------------------------------

\* The process dies and is restarted: the files and the broker stay.
Crash ==
    /\ crashes < MaxCrashes
    /\ crashes' = crashes + 1
    /\ phase' = "manage"
    /\ mem' = NewRow
    /\ call' = NoCall
    /\ UNCHANGED <<fileVars, brokerVars, worldVars, seenHeld>>

Manage ==
    \/ ManageSkips \/ ManageMaturity \/ ManageHolds \/ ManageStops \/ ManageScales
    \/ (\E outcome \in PositionReads : CloseReads(outcome))
    \/ CloseSkips
    \/ (\E cancelled \in SUBSET Working :
           CloseRefused(cancelled) \/ \E o \in OrderIds : CloseSends(o, cancelled))
    \/ ManageWrites

ReviewCloses ==
    \E outcome \in PositionReads, ordersRead \in BOOLEAN : Review(outcome, ordersRead)

Enter == EnterSkips \/ RecordTrade \/ BookEntry \/ LogForecast

Resolve == ResolveSkips \/ ResolveEntry \/ VoidEntry

Sweep ==
    \/ \E outcome \in PositionReads : SweepReadsPositions(outcome)
    \/ SweepKeeps \/ SweepVoids

Broker ==
    \/ EntryFills \/ EntryDies
    \/ \E o \in OrderIds : CloseFills(o) \/ CloseExpires(o)

World == PriceMoves \/ DaysPass

Cycle == Manage \/ ReviewCloses \/ Enter \/ Resolve \/ Sweep

Next == Cycle \/ Broker \/ World \/ Crash

Spec == Init /\ [][Next]_vars

\* The scheduler repeats the cycle for as long as the process lives, and time
\* passes.  Beyond that: the market opens and the underlying is quoted again
\* and again, and the sweep's and the resolver's reads do not fail for ever.
ManageDecides == ManageMaturity \/ ManageHolds \/ ManageStops \/ ManageScales

Fairness ==
    /\ WF_vars(Cycle)
    /\ SF_vars(ManageDecides)
    /\ WF_vars(~aged /\ DaysPass)
    /\ SF_vars(SweepReadsPositions("ok"))
    /\ SF_vars(SweepVoids)
    /\ SF_vars(ResolveEntry)

FairSpec == Spec /\ Fairness

-----------------------------------------------------------------------------
(* Properties *)

Sold(ids) == MapThenSumSet(LAMBDA o : closes[o].done, ids)

\* The row never gives up more than the ladder banks for the targets it has
\* reached, so the runner is on it until the stop or the maturity closes it
\* (allocate's runner = contracts - sum(at_targets), kept across skipped, short
\* and refused tranches and across reverts).
RunnerSurvives == row.remaining >= Lot - Banked(Lot, row.targets_filled)

\* While a row stays open its stop never loosens: the extreme and the targets
\* advance together on every path of manage_open_positions.
StopRatchetsWhileOpen ==
    [][row.status = "OPEN" /\ row'.status = "OPEN" =>
          Stop(row'.targets_filled, row'.extreme) >= Stop(row.targets_filled, row.extreme)]_vars

\* A realized P&L taken from fills means that the whole trade has been sold:
\* no contract of it is left in the account, and no other order sold any.
RealizedMeansFlat ==
    row.basis = "fills" => held = 0 /\ Sold(OrderIds) = Lot

\* A reconciled row is never touched again: not by the manager, not by a late
\* void of its entry, not by a restart.
ReconciledIsFinal == [][row.reconciled => row' = row]_vars

\* The life of the row is the one TradeLife promises.
Life == INSTANCE TradeLife
            WITH Size <- Lot, status <- row.status,
                 targets <- row.targets_filled, remaining <- row.remaining
RowLivesTradeLife == Life!Spec

\* The trade was entered in full, has never been reverted, and no restart fell
\* into it.
Undisturbed == entry.filled = Lot /\ ~row.reverted /\ crashes = 0

\* An open row of an undisturbed trade never claims contracts the account does
\* not hold, except between an order and the write of its answer.
OpenRowIsCovered ==
    Undisturbed /\ row.status = "OPEN" /\ phase # "writing" => row.remaining <= held

\* A row that is open over nothing (its order was never sent, or died) does not
\* stay so: it is closed or voided, or its contracts arrive.
Phantom == row.status = "OPEN" /\ held = 0 /\ entry.state # "working"
PhantomsAreSwept == Phantom ~> ~Phantom

\* A logged entry that has ended is resolved.
ForecastsResolve == (forecast = "PENDING" /\ entry.state = "done") ~> (forecast # "PENDING")
=============================================================================
