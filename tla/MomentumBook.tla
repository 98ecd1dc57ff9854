---------------------------- MODULE MomentumBook ----------------------------
(***************************************************************************)
(* The momentum positions in one symbol: their rows in the paper ledger,   *)
(* their orders and shares at the SIM broker, and the scheduler cycle that *)
(* manages, reconciles and opens them                                      *)
(*                                                                         *)
(*    manage -> (mark -> count -> scale -> close -> commit)* -> write      *)
(*           -> reconcile -> resolve -> rebalance -> book -> manage ...    *)
(*                                                                         *)
(* (momentum_exit_manager_engine, greyline_sim_execution_engine,           *)
(* momentum_reversal_rebalance_engine, paper_trade_ledger_engine).         *)
(* Between any two calls of the cycle the broker fills or kills orders, a  *)
(* protective stop fires, the price moves, the operator closes the row     *)
(* through the API, and the process may die and restart.  A quarter of a   *)
(* position, what each target banks, is called a slice.                    *)
(***************************************************************************)
EXTENDS Doctrine, FiniteSets, FiniteSetsExt

CONSTANTS
    MaxRows,    \* bound on the rows opened for the symbol
    Lot,        \* shares the rebalance buys
    Prices,     \* prices the symbol can trade at (see Doctrine)
    MaxOrders,  \* bound on the exit orders the broker takes
    MaxSlices,  \* bound on the slices a row's exits count, retries included
    MaxFaults,  \* bound on failed reads, refused orders and lost answers
    MaxCrashes, \* bound on restarts
    Nothing     \* no row

Rows == 1..MaxRows
OrderIds == 1..MaxOrders

ASSUME RowsAssumption == MaxRows \in Nat
ASSUME LotAssumption == Lot \in Nat \ {0}
ASSUME PricesAssumption == Prices \subseteq Int
ASSUME OrdersAssumption == MaxOrders \in Nat
ASSUME BoundsAssumption == MaxSlices \in Nat /\ MaxFaults \in Nat /\ MaxCrashes \in Nat
ASSUME NothingAssumption == Nothing \notin Rows

VARIABLES
    rows,       \* paper_trade_ledger.jsonl
    entry,      \* the BUY order of each row at the broker
    exits,      \* the SELL orders at the broker
    held,       \* shares in the account
    price,      \* the symbol, now
    aged,       \* MAX_HOLD_DAYS have passed
    phase,      \* where the cycle is
    mem,        \* the copy of the ledger a pass read
    todo,       \* rows the manager has not come to
    dirty,      \* `changed`
    call,       \* the exit being mirrored into the SIM account
    seen,       \* reconcile_closes' positions read
    faults, crashes

brokerVars == <<entry, exits, held>>
worldVars == <<price, aged>>
passVars == <<mem, todo, dirty, call, seen>>
vars == <<rows, brokerVars, worldVars, phase, passVars, faults, crashes>>

-----------------------------------------------------------------------------
(* State *)

Slices == 4
Phases == {"manage", "mark", "count", "scale", "close", "commit", "write",
           "reconcile", "resolve", "rebalance", "book", "void"}

\* `plan` is exit_doctrine; `live` says doctrine_state is not empty, and then
\* tps, extreme and left (remaining_quantity, in slices) are its fields, with
\* the sim_* bookkeeping: sim_shares_original (0 when absent),
\* sim_internal_banked in slices and sim_shares_banked.  `realized` counts the
\* slices in realized_pnl, `orders` the order ids in sim_exit_events.
RowType ==
    [status : {"NONE", "OPEN", "CLOSED", "VOIDED_REJECT"},
     plan : BOOLEAN, live : BOOLEAN,
     tps : 0..Targets, extreme : Int, left : 0..Slices,
     original : Nat, fraction : Nat, banked : Nat,
     realized : 0..Slices, orders : SUBSET OrderIds,
     partial : BOOLEAN, verified_flat : BOOLEAN, reconciled : BOOLEAN,
     basis : {"none", "fills", "quote_estimate"}]

NewRow ==
    [status |-> "NONE", plan |-> FALSE, live |-> FALSE,
     tps |-> 0, extreme |-> 0, left |-> Slices,
     original |-> 0, fraction |-> 0, banked |-> 0,
     realized |-> 0, orders |-> {},
     partial |-> FALSE, verified_flat |-> FALSE, reconciled |-> FALSE,
     basis |-> "none"]

NoRows == [r \in Rows |-> NewRow]

\* An exit being mirrored: the targets banked once it commits, how many are
\* booked so far, whether it closes the rest, the extreme it was decided on,
\* the shares booked in this pass, and whether the broker confirmed so far.
CallType ==
    [row : Rows \cup {Nothing}, reached : 0..Targets, next : 0..Targets,
     closes : BOOLEAN, extreme : Int, booked : Nat, ok : BOOLEAN]

NoCall == [row |-> Nothing, reached |-> 0, next |-> 0, closes |-> FALSE,
           extreme |-> 0, booked |-> 0, ok |-> TRUE]

Unseen == [readable |-> FALSE, qty |-> 0]

TypeOK ==
    /\ rows \in [Rows -> RowType]
    /\ entry \in [Rows -> {"none", "working", "filled", "dead"}]
    /\ exits \in [OrderIds -> [state : {"unsent", "working", "filled", "dead"},
                               qty : Nat, row : Rows \cup {Nothing}]]
    /\ held \in Nat
    /\ price \in Prices
    /\ aged \in BOOLEAN
    /\ phase \in Phases
    /\ mem \in [Rows -> RowType]
    /\ todo \in SUBSET Rows
    /\ dirty \in BOOLEAN
    /\ call \in CallType
    /\ seen \in [readable : BOOLEAN, qty : Nat]
    /\ faults \in 0..MaxFaults
    /\ crashes \in 0..MaxCrashes

Init ==
    /\ rows = NoRows
    /\ entry = [r \in Rows |-> "none"]
    /\ exits = [o \in OrderIds |-> [state |-> "unsent", qty |-> 0, row |-> Nothing]]
    /\ held = 0
    /\ price \in Prices
    /\ aged = FALSE
    /\ phase = "rebalance"
    /\ mem = NoRows
    /\ todo = {}
    /\ dirty = FALSE
    /\ call = NoCall
    /\ seen = Unseen
    /\ faults = 0
    /\ crashes = 0

Working == {o \in OrderIds : exits[o].state = "working"}
Reserved == MapThenSumSet(LAMBDA o : exits[o].qty, Working)

\* Shares no working order has reserved; the broker refuses to sell others.
Free == held - Reserved

Open(ledger) == {r \in Rows : ledger[r].status = "OPEN"}
Unopened == {r \in Rows : rows[r].status = "NONE"}

\* Rows are numbered in the order they were appended.
IsLatest(r, among) == r \in among /\ \A s \in among : s <= r

\* One more fault unless `fine`.
Faults(fine) ==
    /\ fine \/ faults < MaxFaults
    /\ faults' = IF fine THEN faults ELSE faults + 1

-----------------------------------------------------------------------------
(* The broker, the market and the operator *)

EntryFills(r) ==
    /\ entry[r] = "working"
    /\ entry' = [entry EXCEPT ![r] = "filled"]
    /\ held' = held + Lot
    /\ UNCHANGED <<rows, exits, worldVars, phase, passVars, faults, crashes>>

EntryDies(r) ==
    /\ entry[r] = "working"
    /\ entry' = [entry EXCEPT ![r] = "dead"]
    /\ UNCHANGED <<rows, exits, held, worldVars, phase, passVars, faults, crashes>>

ExitFills(o) ==
    /\ exits[o].state = "working"
    /\ exits[o].qty <= held
    /\ exits' = [exits EXCEPT ![o].state = "filled"]
    /\ held' = held - exits[o].qty
    /\ UNCHANGED <<rows, entry, worldVars, phase, passVars, faults, crashes>>

\* An exit is good for the day.
ExitDies(o) ==
    /\ exits[o].state = "working"
    /\ Faults(FALSE)
    /\ exits' = [exits EXCEPT ![o].state = "dead"]
    /\ UNCHANGED <<rows, entry, held, worldVars, phase, passVars, crashes>>

\* A protective stop sells what no exit has reserved.
StopFires ==
    /\ Free > 0
    /\ held' \in 0..held
    /\ held' = Reserved
    /\ UNCHANGED <<rows, entry, exits, worldVars, phase, passVars, faults, crashes>>

PriceMoves ==
    /\ price' \in Prices
    /\ UNCHANGED <<rows, brokerVars, aged, phase, passVars, faults, crashes>>

DaysPass ==
    /\ aged' = TRUE
    /\ UNCHANGED <<rows, brokerVars, price, phase, passVars, faults, crashes>>

\* close_latest, called by a route while a pass may be under way: the latest
\* open row is marked closed, and realized_pnl is set for its quantity.
CloseLatest ==
    /\ \E r \in Rows :
          /\ IsLatest(r, Open(rows))
          /\ rows' = [rows EXCEPT ![r].status = "CLOSED", ![r].realized = rows[r].left]
    /\ UNCHANGED <<brokerVars, worldVars, phase, passVars, faults, crashes>>

Crash ==
    /\ crashes < MaxCrashes
    /\ crashes' = crashes + 1
    /\ phase' = "manage"
    /\ todo' = {}
    /\ dirty' = FALSE
    /\ call' = NoCall
    /\ mem' = NoRows
    /\ seen' = Unseen
    /\ UNCHANGED <<rows, brokerVars, worldVars, faults>>

-----------------------------------------------------------------------------
(* manage_open_positions *)

ToPhase(p) == phase' = p

\* The ledger is read whole; outside the regular session nothing is managed.
ManageReads ==
    /\ phase = "manage"
    /\ mem' = rows
    /\ todo' = Open(rows)
    /\ dirty' = FALSE
    /\ ToPhase("mark")
    /\ UNCHANGED <<rows, brokerVars, worldVars, call, seen, faults, crashes>>

ManageSkips ==
    /\ phase = "manage"
    /\ ToPhase("reconcile")
    /\ UNCHANGED <<rows, brokerVars, worldVars, passVars, faults, crashes>>

\* Fault: every row is planned afresh.
EnsuredAfresh(row) ==
    [row EXCEPT !.plan = TRUE, !.live = TRUE, !.tps = 0, !.extreme = 0, !.left = Slices]

\* _ensure_doctrine: a row that has an exit_doctrine is taken as it is.
Ensured(row) == IF row.plan THEN row ELSE [row EXCEPT !.plan = TRUE, !.live = TRUE]

\* What decide returns for a row at the current price.
Higher(m, n) == IF m > n THEN m ELSE n
Extreme(row) == Higher(row.extreme, price)
ReachedBy(row) == Reached(row.tps, price)
Closes(row) == price <= Stop(ReachedBy(row), Extreme(row)) \/ aged
Acts(row) == row.live /\ (ReachedBy(row) > row.tps \/ Closes(row))

NextRow(r) ==
    /\ phase = "mark"
    /\ r \in todo

\* No ATR for a row without a plan: it is left alone.
MarkUnplanned(r) ==
    /\ NextRow(r)
    /\ ~mem[r].plan
    /\ todo' = todo \ {r}
    /\ UNCHANGED <<rows, brokerVars, worldVars, phase, mem, dirty, call, seen, faults, crashes>>

\* The row is planned, and there is no quote.
MarkUnquoted(r) ==
    /\ NextRow(r)
    /\ mem' = [mem EXCEPT ![r] = Ensured(@)]
    /\ dirty' = TRUE
    /\ todo' = todo \ {r}
    /\ UNCHANGED <<rows, brokerVars, worldVars, phase, call, seen, faults, crashes>>

\* Nothing to do at this price but move the extreme.
MarkHolds(r) ==
    /\ NextRow(r)
    /\ LET row == Ensured(mem[r]) IN
       /\ ~Acts(row)
       /\ mem' = [mem EXCEPT ![r] =
                     IF row.live THEN [row EXCEPT !.extreme = Extreme(row)] ELSE row]
    /\ dirty' = TRUE
    /\ todo' = todo \ {r}
    /\ UNCHANGED <<rows, brokerVars, worldVars, phase, call, seen, faults, crashes>>

\* decide banks the targets crossed and, at the stop or after MAX_HOLD_DAYS,
\* closes the rest; the row keeps its state until the broker confirms.
MarkExits(r) ==
    /\ NextRow(r)
    /\ LET row == Ensured(mem[r]) IN
       /\ Acts(row)
       /\ row.fraction < MaxSlices \/ ReachedBy(row) = row.tps
       /\ mem' = [mem EXCEPT ![r] = row]
       /\ call' = [row |-> r, reached |-> ReachedBy(row), next |-> row.tps,
                   closes |-> Closes(row), extreme |-> Extreme(row),
                   booked |-> 0, ok |-> TRUE]
       /\ ToPhase(IF row.original = 0 THEN "count" ELSE "scale")
    /\ dirty' = TRUE
    /\ UNCHANGED <<rows, brokerVars, worldVars, todo, seen, faults, crashes>>

-----------------------------------------------------------------------------
(* _mirror_exits_to_sim *)

\* sim_position: a read that fails in any way shows no shares.
Position(fine) == IF fine THEN held ELSE 0

\* The shares held when the first exit is due are what fractions are taken of.
\* No shares: there is nothing to confirm against, and the exit is committed.
Count(fine) ==
    /\ phase = "count"
    /\ Faults(fine)
    /\ IF Position(fine) > 0
       THEN /\ mem' = [mem EXCEPT ![call.row].original = Position(fine)]
            /\ ToPhase("scale")
       ELSE ToPhase("commit") /\ UNCHANGED mem
    /\ UNCHANGED <<rows, brokerVars, worldVars, todo, dirty, call, seen, crashes>>

\* Shares that should have been sold once one more slice is counted.
TargetShares(row) == (row.original * (row.fraction + 1)) \div Slices

\* max(0, target - banked).
ScaleShares(row) == Higher(0, TargetShares(row) - row.banked)

Scaling == phase = "scale" /\ call.next < call.reached

\* The bookkeeping of a slice: what was asked for counts as banked, accepted or
\* not.
Banking(row, shares, accepted) ==
    [row EXCEPT !.fraction = @ + 1, !.banked = @ + shares, !.orders = @ \cup accepted]

Unsent == {o \in OrderIds : exits[o].state = "unsent"}
NextOrder == CHOOSE o \in Unsent : TRUE

\* The broker takes a SELL of qty.
Accepts(qty, r) ==
    /\ Unsent # {}
    /\ qty <= Free
    /\ exits' = [exits EXCEPT ![NextOrder] = [state |-> "working", qty |-> qty, row |-> r]]

\* A slice of less than a share is skipped, and confirmed.
ScaleSkips ==
    /\ Scaling
    /\ ScaleShares(mem[call.row]) = 0
    /\ mem' = [mem EXCEPT ![call.row] = Banking(@, 0, {})]
    /\ call' = [call EXCEPT !.next = @ + 1]
    /\ UNCHANGED <<rows, brokerVars, worldVars, phase, todo, dirty, seen, faults, crashes>>

ScaleAccepted ==
    /\ Scaling
    /\ ScaleShares(mem[call.row]) > 0
    /\ LET shares == ScaleShares(mem[call.row]) IN
       /\ Accepts(shares, call.row)
       /\ mem' = [mem EXCEPT ![call.row] = Banking(@, shares, {NextOrder})]
       /\ call' = [call EXCEPT !.next = @ + 1, !.booked = @ + shares]
    /\ UNCHANGED <<rows, entry, held, worldVars, phase, todo, dirty, seen, faults, crashes>>

\* The broker refuses the order: the shares are reserved or gone, or for a
\* reason of its own.
ScaleRefused ==
    /\ Scaling
    /\ ScaleShares(mem[call.row]) > 0
    /\ LET shares == ScaleShares(mem[call.row]) IN
       /\ Faults(shares > Free)
       /\ mem' = [mem EXCEPT ![call.row] = Banking(@, shares, {})]
       /\ call' = [call EXCEPT !.next = @ + 1, !.booked = @ + shares, !.ok = FALSE]
    /\ UNCHANGED <<rows, brokerVars, worldVars, phase, todo, dirty, seen, crashes>>

\* The request raises, the order taken or not: the mirror ends there.
ScaleRaises ==
    /\ Scaling
    /\ ScaleShares(mem[call.row]) > 0
    /\ Faults(FALSE)
    /\ \/ Accepts(ScaleShares(mem[call.row]), call.row)
       \/ UNCHANGED exits
    /\ call' = [call EXCEPT !.ok = FALSE]
    /\ ToPhase("commit")
    /\ UNCHANGED <<rows, entry, held, worldVars, mem, todo, dirty, seen, crashes>>

Scaled ==
    /\ phase = "scale"
    /\ call.next = call.reached
    /\ ToPhase(IF call.closes THEN "close" ELSE "commit")
    /\ UNCHANGED <<rows, brokerVars, worldVars, passVars, faults, crashes>>

\* Fault: an account found flat does not confirm the close.
CloseFindsNoneUnconfirmed(fine) ==
    /\ phase = "close"
    /\ Faults(fine)
    /\ Position(fine) <= call.booked
    /\ call' = [call EXCEPT !.ok = FALSE]
    /\ ToPhase("commit")
    /\ UNCHANGED <<rows, brokerVars, worldVars, mem, todo, dirty, seen, crashes>>

\* close_position: the shares shown, less those booked in this pass.  None
\* left confirms the close.
CloseFindsNone(fine) ==
    /\ phase = "close"
    /\ Faults(fine)
    /\ Position(fine) <= call.booked
    /\ ToPhase("commit")
    /\ UNCHANGED <<rows, brokerVars, worldVars, passVars, crashes>>

\* The close is sent.  Its answer is SIM_EXIT_BOOKED, accepted or not, and the
\* mirror waits for SIM_BOOKED: the exit is not confirmed in this pass.
CloseSends ==
    /\ phase = "close"
    /\ held > call.booked
    /\ Accepts(held - call.booked, call.row)
    /\ mem' = [mem EXCEPT ![call.row].orders = @ \cup {NextOrder}]
    /\ call' = [call EXCEPT !.ok = FALSE]
    /\ ToPhase("commit")
    /\ UNCHANGED <<rows, entry, held, worldVars, todo, dirty, seen, faults, crashes>>

CloseRefused ==
    /\ phase = "close"
    /\ held > call.booked
    /\ Faults(held - call.booked > Free)
    /\ call' = [call EXCEPT !.ok = FALSE]
    /\ ToPhase("commit")
    /\ UNCHANGED <<rows, brokerVars, worldVars, mem, todo, dirty, seen, crashes>>

CloseRaises ==
    /\ phase = "close"
    /\ held > call.booked
    /\ Faults(FALSE)
    /\ Accepts(held - call.booked, call.row)
    /\ call' = [call EXCEPT !.ok = FALSE]
    /\ ToPhase("commit")
    /\ UNCHANGED <<rows, entry, held, worldVars, mem, todo, dirty, seen, crashes>>

\* The row after a confirmed exit.
Committed(row) ==
    LET left == IF call.closes THEN 0 ELSE row.left - (call.reached - row.tps) IN
    [row EXCEPT !.tps = call.reached, !.extreme = call.extreme, !.left = left,
                !.realized = @ + (row.left - left),
                !.status = IF left = 0 THEN "CLOSED" ELSE @]

Settle(row) ==
    /\ phase = "commit"
    /\ mem' = [mem EXCEPT ![call.row] = row]
    /\ todo' = todo \ {call.row}
    /\ call' = NoCall
    /\ ToPhase("mark")
    /\ UNCHANGED <<rows, brokerVars, worldVars, dirty, seen, faults, crashes>>

\* Fault: an exit that is not confirmed leaves the row as it was read.
CommitForgets ==
    /\ phase = "commit"
    /\ Settle(IF call.ok THEN Committed(mem[call.row]) ELSE rows[call.row])

\* Confirmed: the state advances.  Not confirmed: only the sim_* bookkeeping,
\* already in the copy, is kept.
Commit ==
    /\ phase = "commit"
    /\ Settle(IF call.ok THEN Committed(mem[call.row]) ELSE mem[call.row])

\* The whole ledger is written back if any open row had a plan.
ManageWrites ==
    /\ phase = "mark"
    /\ todo = {}
    /\ rows' = IF dirty THEN mem ELSE rows
    /\ mem' = NoRows
    /\ dirty' = FALSE
    /\ ToPhase("reconcile")
    /\ UNCHANGED <<brokerVars, worldVars, todo, call, seen, faults, crashes>>

-----------------------------------------------------------------------------
(* reconcile_closes *)

\* The ledger is read, then the positions.  An exception is an unreadable
\* account; any other failure is a readable account with nothing in it.
ReconcileReads(outcome) ==
    /\ phase = "reconcile"
    /\ Faults(outcome = "ok")
    /\ mem' = rows
    /\ seen' = [readable |-> outcome # "raised", qty |-> IF outcome = "ok" THEN held ELSE 0]
    /\ ToPhase("resolve")
    /\ UNCHANGED <<rows, brokerVars, worldVars, todo, dirty, call, crashes>>

\* Still fully held: the close was fantasy.  doctrine_state is emptied, the
\* exit_doctrine stays.
Reverted(row) ==
    [NewRow EXCEPT !.status = "OPEN", !.plan = row.plan, !.orders = row.orders,
                   !.partial = row.partial]

Flagged(row) == [row EXCEPT !.partial = TRUE, !.verified_flat = FALSE]

\* Fault: filled is enough, whatever was sold.
SoldUncounted(row, fills) == row.plan /\ row.orders # {} /\ row.orders \subseteq fills

\* Every exit order on record is filled, and together they sold the position.
\* `fills` are the orders the orders read showed.
SoldInFull(row, fills) ==
    /\ row.plan
    /\ row.orders # {}
    /\ row.orders \subseteq fills
    /\ MapThenSumSet(LAMBDA o : exits[o].qty, row.orders) = Lot

Reconciled(row, fills) ==
    [row EXCEPT !.reconciled = TRUE,
                !.verified_flat = @ \/ seen.readable,
                !.basis = IF SoldInFull(row, fills) THEN "fills"
                          ELSE IF @ = "none" THEN "quote_estimate" ELSE @]

\* A closed row is judged by the shares held only when they could be read and
\* no open row of the symbol explains them.
Judged == seen.readable /\ Open(mem) = {}

Resolved(row, fills) ==
    IF Judged /\ row.plan /\ seen.qty >= Lot THEN Reverted(row)
    ELSE IF Judged /\ seen.qty > 0 THEN Flagged(row)
    ELSE Reconciled(row, fills)

Due(ledger) == {r \in Rows : ledger[r].status = "CLOSED" /\ ~ledger[r].reconciled}

\* The orders are read, every closed row is resolved, and the whole ledger is
\* written back if there was one.
ReconcileWrites(fine) ==
    /\ phase = "resolve"
    /\ Faults(fine)
    /\ LET fills == IF fine THEN {o \in OrderIds : exits[o].state = "filled"} ELSE {} IN
       rows' = IF Due(mem) = {} THEN rows
               ELSE [r \in Rows |-> IF r \in Due(mem) THEN Resolved(mem[r], fills)
                                    ELSE mem[r]]
    /\ mem' = NoRows
    /\ seen' = Unseen
    /\ ToPhase("rebalance")
    /\ UNCHANGED <<brokerVars, worldVars, todo, dirty, call, crashes>>

-----------------------------------------------------------------------------
(* rebalance *)

RebalanceSkips ==
    /\ phase = "rebalance"
    /\ ToPhase("manage")
    /\ UNCHANGED <<rows, brokerVars, worldVars, passVars, faults, crashes>>

\* A symbol that is not open is bought: the row first, then the order.
RebalanceOpens(r) ==
    /\ phase = "rebalance"
    /\ Open(rows) = {}
    /\ r \in Unopened
    /\ \A s \in Rows : rows[s].status # "NONE" => s < r
    /\ rows' = [rows EXCEPT ![r] = [NewRow EXCEPT !.status = "OPEN"]]
    /\ aged' = FALSE
    /\ ToPhase("book")
    /\ UNCHANGED <<brokerVars, price, passVars, faults, crashes>>

BookAccepted(r) ==
    /\ phase = "book"
    /\ IsLatest(r, Rows \ Unopened)
    /\ entry' = [entry EXCEPT ![r] = "working"]
    /\ ToPhase("manage")
    /\ UNCHANGED <<rows, exits, held, worldVars, passVars, faults, crashes>>

BookRefused ==
    /\ phase = "book"
    /\ Faults(FALSE)
    /\ ToPhase("void")
    /\ UNCHANGED <<rows, brokerVars, worldVars, passVars, crashes>>

\* Fault: an answer that was lost is taken for a refusal.
BookRaisesVoiding(r) ==
    /\ phase = "book"
    /\ IsLatest(r, Rows \ Unopened)
    /\ Faults(FALSE)
    /\ entry' = [entry EXCEPT ![r] = "working"]
    /\ ToPhase("void")
    /\ UNCHANGED <<rows, exits, held, worldVars, passVars, crashes>>

\* SIM_BOOKING_ERROR: the row stands, whether or not the order was taken.
BookRaises(r) ==
    /\ phase = "book"
    /\ IsLatest(r, Rows \ Unopened)
    /\ Faults(FALSE)
    /\ \/ entry' = [entry EXCEPT ![r] = "working"]
       \/ UNCHANGED entry
    /\ ToPhase("manage")
    /\ UNCHANGED <<rows, exits, held, worldVars, passVars, crashes>>

\* void_latest: the latest open row of the symbol, if there is one.
VoidLatest ==
    /\ phase = "void"
    /\ \/ Open(rows) = {} /\ UNCHANGED rows
       \/ \E r \in Rows :
             /\ IsLatest(r, Open(rows))
             /\ rows' = [rows EXCEPT ![r].status = "VOIDED_REJECT", ![r].realized = 0]
    /\ ToPhase("manage")
    /\ UNCHANGED <<brokerVars, worldVars, passVars, faults, crashes>>

-----------------------------------------------------------------------------

Manage ==
    \/ ManageReads \/ ManageSkips
    \/ \E r \in Rows : MarkUnplanned(r) \/ MarkUnquoted(r) \/ MarkHolds(r) \/ MarkExits(r)
    \/ \E fine \in BOOLEAN : Count(fine) \/ CloseFindsNone(fine)
    \/ ScaleSkips \/ ScaleAccepted \/ ScaleRefused \/ ScaleRaises \/ Scaled
    \/ CloseSends \/ CloseRefused \/ CloseRaises
    \/ Commit \/ ManageWrites

Reconcile ==
    \/ \E outcome \in {"ok", "refused", "raised"} : ReconcileReads(outcome)
    \/ \E fine \in BOOLEAN : ReconcileWrites(fine)

Rebalance ==
    \/ RebalanceSkips \/ BookRefused \/ VoidLatest
    \/ \E r \in Rows : RebalanceOpens(r) \/ BookAccepted(r) \/ BookRaises(r)

Cycle == Manage \/ Reconcile \/ Rebalance

Broker ==
    \/ \E r \in Rows : EntryFills(r) \/ EntryDies(r)
    \/ \E o \in OrderIds : ExitFills(o) \/ ExitDies(o)
    \/ StopFires

Next == Cycle \/ Broker \/ PriceMoves \/ DaysPass \/ CloseLatest \/ Crash

Spec == Init /\ [][Next]_vars

\* The scheduler keeps cycling, the regular session and the quotes come back,
\* and a working market order is filled.
FairSpec ==
    /\ Spec
    /\ WF_vars(Cycle)
    /\ SF_vars(ManageReads)
    /\ \A r \in Rows : SF_vars(MarkHolds(r) \/ MarkExits(r))
    /\ \A o \in OrderIds : WF_vars(ExitFills(o))

-----------------------------------------------------------------------------
(* Properties *)

\* The manager's ladder only climbs: targets stay filled and shares stay sold in
\* the ledger, whatever is refused, lost or restarted, except when
\* reconcile_closes reopens a row that was closed.
LadderOnlyClimbs ==
    [][\A r \in Rows :
          \/ rows'[r].tps >= rows[r].tps /\ rows'[r].left <= rows[r].left
          \/ rows[r].status = "CLOSED" /\ rows'[r].status = "OPEN"]_vars

\* A row is voided only for an order that never reached the book: what was lost
\* on the way back is left to stand.
VoidedNeverTraded ==
    \A r \in Rows : rows[r].status = "VOIDED_REJECT" => entry[r] = "none"

\* Between passes, every exit the broker took is on its row, but for one order
\* for each lost answer and those of one pass for each restart.
Unrecorded == {o \in OrderIds : exits[o].row # Nothing /\ o \notin rows[exits[o].row].orders}
ExitsOnRecord ==
    phase \in {"manage", "reconcile", "resolve", "rebalance", "book", "void"} =>
        Cardinality(Unrecorded) <= faults + (Targets + 1) * crashes

\* A realized_pnl taken from fills is that of the whole position: the shares
\* left in the account are those of other entries.
FillsLeaveNothing ==
    \A r \in Rows : rows[r].basis = "fills" =>
        held <= Lot * Cardinality({s \in Rows \ {r} : entry[s] = "filled"})

\* A row past its stop leaves the book: the close is sent, filled, and confirmed
\* by a later pass that finds the account flat.
StoppedRowsClose ==
    \A r \in Rows :
        ~<>[](/\ rows[r].status = "OPEN" /\ rows[r].live
              /\ price <= Stop(rows[r].tps, rows[r].extreme))
=============================================================================
