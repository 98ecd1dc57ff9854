----------------------------- MODULE CondorBook -----------------------------
(***************************************************************************)
(* One iron condor of the short-premium sleeves: its row in the condor     *)
(* ledger, its orders and legs at the SIM broker, and the part of the      *)
(* scheduler cycle that runs it                                            *)
(*                                                                         *)
(*    idle -> fills -> rebuy* or cover* -> manage -> close* -> price       *)
(*         -> closes -> resolve -> open -> leg* -> append -> idle          *)
(*                                                                         *)
(* with a `write` wherever the ledger is rewritten                         *)
(* (conditional_vrp_short_premium_engine; earnings_vol_harvest_engine      *)
(* opens into the same ledger through the same helper).  A condor has a    *)
(* call and a put side, each a short leg and the wing that caps it.  It    *)
(* is opened and closed with one atomic order or leg by leg.  Between any  *)
(* two calls of the cycle the broker fills or kills orders, a cached read  *)
(* expires, and the process may die and restart.                           *)
(***************************************************************************)
EXTENDS Naturals, FiniteSets

CONSTANTS
    Sides,       \* the sides of the condor: call and put
    MaxOrders,   \* bound on the orders the broker remembers
    MaxTries,    \* MAX_NAKED_REMEDIATION_ATTEMPTS
    MaxFaults,   \* bound on restarts, calls that raise and opens refused half way
    AtomicModes, \* values of GREYLINE_CONDOR_ATOMIC_ORDER to start with
    UwModes      \* values of GREYLINE_VRP_UW_CLOSE_PRICING to start with

ASSUME OrdersAssumption == MaxOrders \in Nat
ASSUME BoundsAssumption == MaxTries \in Nat /\ MaxFaults \in Nat
ASSUME ModesAssumption == AtomicModes \subseteq BOOLEAN /\ UwModes \subseteq BOOLEAN

Legs == Sides \X {"short", "wing"}
Short(s) == <<s, "short">>
Wing(s) == <<s, "wing">>
Shorts == {Short(s) : s \in Sides}
Wings == {Wing(s) : s \in Sides}

OrderIds == 1..MaxOrders
NoOrder == 0

VARIABLES
    atomic,     \* _atomic_orders_enabled
    uw,         \* _uw_close_pricing_on
    orders,     \* the orders at the broker
    held,       \* lots of each leg in the account, in the opening direction
    row,        \* vrp_short_premium_ledger.jsonl
    phase,      \* where the cycle is
    after,      \* what follows the write of the ledger
    mem,        \* the copy of the row a pass works on
    todo,       \* legs the pass has still to send an order for
    seen,       \* the legs the last positions read showed
    cache,      \* TradeStationPositionsLiveEngine._CACHE
    faults

modeVars == <<atomic, uw>>
brokerVars == <<orders, held>>
passVars == <<after, mem, todo, seen>>
vars == <<modeVars, brokerVars, row, phase, passVars, cache, faults>>

-----------------------------------------------------------------------------
(* State *)

Phases == {"idle", "fills", "rebuy", "cover", "write", "manage", "close",
           "price", "closes", "resolve", "open", "leg", "append"}

OrderType ==
    [state : {"free", "working", "filled", "dead"}, opens : BOOLEAN, legs : SUBSET Legs]

FreeOrder == [state |-> "free", opens |-> FALSE, legs |-> {}]

\* `opening` holds the order_id of each wing (a short's is never used),
\* `closing` those of the last of close_attempts while it may yet have closed
\* the row, `tries` naked_remediation_attempts, `settled` close_reconciled.  The basis
\* "estimate" stands for close_order, mid and close_mid_sanity_fallback.
RowType ==
    [status : {"NONE", "OPEN", "CLOSED"},
     opening : [Wings -> OrderIds \cup {NoOrder}],
     closing : [Legs -> OrderIds \cup {NoOrder}],
     tries : 0..MaxTries,
     basis : {"none", "estimate", "fills", "uw"}, settled : BOOLEAN]

NoneClosing == [l \in Legs |-> NoOrder]

NoRow == [status |-> "NONE",
          opening |-> [l \in Wings |-> NoOrder], closing |-> NoneClosing,
          tries |-> 0,
          basis |-> "none", settled |-> FALSE]

\* The cache holds one snapshot of the legs, or none.
Unread == {}

TypeOK ==
    /\ atomic \in BOOLEAN /\ uw \in BOOLEAN
    /\ orders \in [OrderIds -> OrderType]
    /\ held \in [Legs -> Nat]
    /\ row \in RowType
    /\ phase \in Phases
    /\ after \in Phases
    /\ mem \in RowType
    /\ todo \in SUBSET Legs
    /\ seen \in SUBSET Legs
    /\ cache \in SUBSET SUBSET Legs
    /\ faults \in 0..MaxFaults

Init ==
    /\ atomic \in AtomicModes
    /\ uw \in UwModes
    /\ orders = [i \in OrderIds |-> FreeOrder]
    /\ held = [l \in Legs |-> 0]
    /\ row = NoRow
    /\ phase = "idle"
    /\ after = "idle"
    /\ mem = NoRow
    /\ todo = {}
    /\ seen = {}
    /\ cache = Unread
    /\ faults = 0

Working(i) == orders[i].state = "working"
Closing(i) == Working(i) /\ ~orders[i].opens
HeldLegs == {l \in Legs : held[l] > 0}

\* The orders some copy of the row still points at.
ToOpen == {r.opening[l] : r \in {row, mem}, l \in Wings}
ToClose == {r.closing[l] : r \in {row, mem}, l \in Legs}

Forgotten(os) ==
    {i \in OrderIds :
        \/ os[i].state = "free"
        \/ os[i].state \in {"filled", "dead"} /\ i \notin ToOpen \cup ToClose}

-----------------------------------------------------------------------------
(* The broker *)

\* How an order ended is asked only of one that closes the row.
Ended(i, how) ==
    [orders EXCEPT ![i] = IF i \in ToClose THEN [@ EXCEPT !.state = how]
                          ELSE IF i \in ToOpen THEN [FreeOrder EXCEPT !.state = "dead"]
                          ELSE FreeOrder]

\* All legs of an order fill together: a condor is one lot.
Fills(i) ==
    /\ Working(i)
    /\ held' = [l \in Legs |-> IF l \notin orders[i].legs THEN held[l]
                               ELSE IF orders[i].opens THEN held[l] + 1 ELSE held[l] - 1]
    /\ orders' = Ended(i, "filled")
    /\ UNCHANGED <<modeVars, row, phase, passVars, cache, faults>>

\* A DAY order expires, or the operator cancels it.
Dies(i) ==
    /\ Working(i)
    /\ orders' = Ended(i, "dead")
    /\ UNCHANGED <<modeVars, held, row, phase, passVars, cache, faults>>

\* The broker closes no lot twice: each working order that closes reserves one.
Closable(l) == Cardinality({i \in OrderIds : Closing(i) /\ l \in orders[i].legs}) < held[l]

\* The order takes the first id nothing remembers.
BooksInto(os, i, legs, opens) ==
    /\ i \in Forgotten(os)
    /\ \A j \in Forgotten(os) : i <= j
    /\ opens \/ \A l \in legs : Closable(l)
    /\ orders' = [os EXCEPT ![i] = [state |-> "working", opens |-> opens, legs |-> legs]]

Books(i, legs, opens) == BooksInto(orders, i, legs, opens)

\* place_order drops the cached positions once the broker took the order;
\* place_multileg does not.
InvalidateReads == cache' = Unread

\* _broker_fills: the cached positions, if they have not expired, a fresh
\* read, or nothing at all when that read fails.
BrokerFills == seen' \in cache \cup {HeldLegs, {}}

\* What the cache keeps of the first read of the cycle.  The second read is
\* of use for a CLOSED row only, and closing leg by leg empties the cache.  Other
\* threads, whose reads could fill or age the cache meanwhile, are left out.
Cached == IF atomic \/ row.status # "OPEN" THEN {HeldLegs} ELSE Unread

-----------------------------------------------------------------------------
(* The ledger *)

\* The file is truncated when it is opened for writing.
Save(m, next) ==
    /\ mem' = m
    /\ row' = NoRow
    /\ after' = next
    /\ phase' = "write"

Write ==
    /\ phase = "write"
    /\ row' = mem
    /\ mem' = NoRow
    /\ phase' = after
    /\ after' = "idle"
    /\ UNCHANGED <<modeVars, brokerVars, todo, seen, cache, faults>>

\* The pass ends without a rewrite.
Leave(next) ==
    /\ phase' = next
    /\ mem' = NoRow
    /\ UNCHANGED <<row, after>>

\* A call raises out of manage_positions or open_positions: the rest of the
\* sleeve's block is skipped and what the pass knew is lost.
Abandon ==
    /\ faults < MaxFaults
    /\ faults' = faults + 1
    /\ phase' = "idle"
    /\ mem' = NoRow
    /\ todo' = {}
    /\ seen' = {}
    /\ cache' = Unread
    /\ UNCHANGED <<row, after>>

\* The answer to a POST is lost after the broker took the order, or the call
\* fails before.
LosesAnswer(legs, opens) ==
    \/ \E i \in OrderIds : Books(i, legs, opens)
    \/ UNCHANGED orders

-----------------------------------------------------------------------------
(* reconcile_fills *)

ReadFills ==
    /\ phase = "idle"
    /\ \/ seen' = HeldLegs /\ cache' = Cached
       \/ seen' = {} /\ UNCHANGED cache
    /\ mem' = row
    /\ phase' = "fills"
    /\ UNCHANGED <<modeVars, brokerVars, row, after, todo, faults>>

\* The sides whose short filled and whose wing did not.
NakedSides == {s \in Sides : Short(s) \in seen /\ Wing(s) \notin seen}
UnfilledWings == Wings \ seen

NoFills ==
    /\ phase = "fills"
    /\ mem.status # "OPEN" \/ seen = {}
    /\ Leave("manage")
    /\ seen' = {}
    /\ UNCHANGED <<modeVars, brokerVars, todo, cache, faults>>

\* Credit and maximal loss are rewritten when they changed.
RecordFills ==
    /\ phase = "fills"
    /\ mem.status = "OPEN" /\ seen # {} /\ NakedSides = {}
    /\ Leave("manage") \/ Save(mem, "manage")
    /\ seen' = {}
    /\ UNCHANGED <<modeVars, brokerVars, todo, cache, faults>>

\* Fault: one try too many.
RemediateNakedOnceMore ==
    /\ phase = "fills"
    /\ mem.status = "OPEN" /\ NakedSides # {}
    /\ IF mem.tries <= MaxTries /\ UnfilledWings # {}
       THEN phase' = "rebuy" /\ todo' = UnfilledWings
       ELSE phase' = "cover" /\ todo' = {Short(s) : s \in NakedSides}
    /\ seen' = {}
    /\ UNCHANGED <<modeVars, brokerVars, row, after, mem, cache, faults>>

\* Fault: the short is not covered once the tries are used up.
RemediateNakedGivesUp ==
    /\ phase = "fills"
    /\ mem.status = "OPEN" /\ NakedSides # {}
    /\ IF mem.tries < MaxTries /\ UnfilledWings # {}
       THEN phase' = "rebuy" /\ todo' = UnfilledWings
       ELSE phase' = "manage" /\ todo' = {}
    /\ mem' = IF phase' = "manage" THEN NoRow ELSE mem
    /\ seen' = {}
    /\ UNCHANGED <<modeVars, brokerVars, row, after, cache, faults>>

\* _remediate_naked: complete the wings while tries are left, then cover.
RemediateNaked ==
    /\ phase = "fills"
    /\ mem.status = "OPEN" /\ NakedSides # {}
    /\ IF mem.tries < MaxTries /\ UnfilledWings # {}
       THEN phase' = "rebuy" /\ todo' = UnfilledWings
       ELSE phase' = "cover" /\ todo' = {Short(s) : s \in NakedSides}
    /\ seen' = {}
    /\ UNCHANGED <<modeVars, brokerVars, row, after, mem, cache, faults>>

\* The stale order of a wing is cancelled, and the answer not looked at: it
\* may have filled since the read, or live on.
Cancelled(l) ==
    {orders} \cup {Ended(i, "dead") : i \in {j \in OrderIds : j = mem.opening[l] /\ Working(j)}}

\* Fault: the try is not counted.
RemedyDoneUncounted(m, rest) ==
    /\ todo' = rest
    /\ IF rest = {}
       THEN Save(m, "manage")
       ELSE mem' = m /\ UNCHANGED <<row, phase, after>>

RemedyDone(m, rest) ==
    /\ todo' = rest
    /\ IF rest = {}
       THEN Save([m EXCEPT !.tries = @ + 1], "manage")
       ELSE mem' = m /\ UNCHANGED <<row, phase, after>>

RebuyTaken(l, i) ==
    /\ phase = "rebuy" /\ l \in todo
    /\ \E os \in Cancelled(l) : BooksInto(os, i, {l}, TRUE)
    /\ RemedyDone([mem EXCEPT !.opening[l] = i], todo \ {l})
    /\ InvalidateReads
    /\ UNCHANGED <<modeVars, held, seen, faults>>

\* No ask to price the wing with, or the broker refuses.
RebuyRefused(l) ==
    /\ phase = "rebuy" /\ l \in todo
    /\ orders' \in Cancelled(l)
    /\ RemedyDone(mem, todo \ {l})
    /\ UNCHANGED <<modeVars, held, seen, cache, faults>>

\* reconcile_fills catches what _remediate_naked raises: the try is not
\* counted, the order id is not recorded, and the row is written.
RemedyRaises(l) ==
    /\ phase \in {"rebuy", "cover"} /\ l \in todo
    /\ faults < MaxFaults
    /\ faults' = faults + 1
    /\ IF phase = "cover" THEN LosesAnswer({l}, FALSE)
       ELSE \E os \in Cancelled(l) : \/ orders' = os
                                     \/ \E i \in OrderIds : BooksInto(os, i, {l}, TRUE)
    /\ Save(mem, "manage")
    /\ todo' = {}
    /\ UNCHANGED <<modeVars, held, seen, cache>>

CoverDone(rest) ==
    /\ todo' = rest
    /\ IF rest = {}
       THEN Save(mem, "manage")
       ELSE UNCHANGED <<row, phase, after, mem>>

CoverTaken(l) ==
    /\ phase = "cover" /\ l \in todo
    /\ \E i \in OrderIds : Books(i, {l}, FALSE)
    /\ CoverDone(todo \ {l})
    /\ InvalidateReads
    /\ UNCHANGED <<modeVars, held, seen, faults>>

CoverRefused(l) ==
    /\ phase = "cover" /\ l \in todo
    /\ CoverDone(todo \ {l})
    /\ UNCHANGED <<modeVars, brokerVars, seen, cache, faults>>

-----------------------------------------------------------------------------
(* manage_positions *)

\* The row is not open, cannot be priced, or no exit rule fires.
Hold ==
    /\ phase = "manage"
    /\ Leave("closes")
    /\ UNCHANGED <<modeVars, brokerVars, todo, seen, cache, faults>>

\* An exit is due and the market is closed: only the row's status text is
\* rewritten, and with it the whole ledger.
Defer ==
    /\ phase = "manage"
    /\ row.status = "OPEN"
    /\ Save(row, "closes")
    /\ UNCHANGED <<modeVars, brokerVars, todo, seen, cache, faults>>

CloseAtomic ==
    /\ phase = "manage"
    /\ row.status = "OPEN" /\ atomic
    /\ \E i \in OrderIds :
         /\ Books(i, Legs, FALSE)
         /\ mem' = [row EXCEPT !.closing = [l \in Legs |-> i]]
    /\ phase' = "price"
    /\ UNCHANGED <<modeVars, held, row, after, todo, seen, cache, faults>>

CloseAtomicRefused ==
    /\ phase = "manage"
    /\ row.status = "OPEN" /\ atomic
    /\ Save([row EXCEPT !.closing = NoneClosing], "closes")
    /\ UNCHANGED <<modeVars, brokerVars, todo, seen, cache, faults>>

CloseAtomicRaises ==
    /\ phase = "manage"
    /\ row.status = "OPEN" /\ atomic
    /\ LosesAnswer(Legs, FALSE)
    /\ Abandon
    /\ UNCHANGED <<modeVars, held>>

\* Fault: the legs are closed one by one although orders are atomic.
CloseLeggedAnyway ==
    /\ phase = "manage"
    /\ row.status = "OPEN"
    /\ mem' = [row EXCEPT !.closing = NoneClosing]
    /\ todo' = Legs
    /\ phase' = "close"
    /\ UNCHANGED <<modeVars, brokerVars, row, after, seen, cache, faults>>

CloseLegged ==
    /\ phase = "manage"
    /\ row.status = "OPEN" /\ ~atomic
    /\ mem' = [row EXCEPT !.closing = NoneClosing]
    /\ todo' = Legs
    /\ phase' = "close"
    /\ UNCHANGED <<modeVars, brokerVars, row, after, seen, cache, faults>>

\* Leg by leg, shorts before wings.
NextToClose(l) == l \in todo /\ (l \in Wings => todo \cap Shorts = {})

\* Every leg accepted: the row will be CLOSED.  Otherwise it stays OPEN.
LegsSent(m, rest) ==
    /\ todo' = rest
    /\ IF rest # {}
       THEN mem' = m /\ UNCHANGED <<row, phase, after>>
       ELSE IF \A l \in Legs : m.closing[l] # NoOrder
            THEN mem' = m /\ phase' = "price" /\ UNCHANGED <<row, after>>
            ELSE Save([m EXCEPT !.closing = NoneClosing], "closes")

CloseLegTaken(l) ==
    /\ phase = "close" /\ NextToClose(l)
    /\ \E i \in OrderIds :
         /\ Books(i, {l}, FALSE)
         /\ LegsSent([mem EXCEPT !.closing[l] = i], todo \ {l})
    /\ InvalidateReads
    /\ UNCHANGED <<modeVars, held, seen, faults>>

CloseLegRefused(l) ==
    /\ phase = "close" /\ NextToClose(l)
    /\ LegsSent(mem, todo \ {l})
    /\ UNCHANGED <<modeVars, brokerVars, seen, cache, faults>>

CloseLegRaises(l) ==
    /\ phase = "close" /\ NextToClose(l)
    /\ LosesAnswer({l}, FALSE)
    /\ Abandon
    /\ UNCHANGED <<modeVars, held>>

\* Fault: one filled leg confirms the close.
SomeCloseFilled(r) == \E l \in Legs : r.closing[l] # NoOrder /\ orders[r.closing[l]].state = "filled"

\* _close_fill_debit: the order of every leg is filled.
CloseFilled(r) == \A l \in Legs : r.closing[l] # NoOrder /\ orders[r.closing[l]].state = "filled"

\* The orders may not be readable or not be fresh, what they say may lie
\* outside the defined-risk band, and Unusual Whales may be unable to price
\* a leg; it comes first where it can.
Bases(r) ==
    {"estimate"} \cup (IF CloseFilled(r) THEN {"fills"} ELSE {})
                 \cup (IF uw THEN {"uw"} ELSE {})

\* Fault: the close counts as reconciled at once.
MarkClosedSettled ==
    /\ phase = "price"
    /\ \E b \in Bases(mem) :
         Save([mem EXCEPT !.status = "CLOSED", !.basis = b, !.settled = TRUE], "closes")
    /\ UNCHANGED <<modeVars, brokerVars, todo, seen, cache, faults>>

MarkClosed ==
    /\ phase = "price"
    /\ \E b \in Bases(mem) :
         Save([mem EXCEPT !.status = "CLOSED", !.basis = b, !.settled = FALSE], "closes")
    /\ UNCHANGED <<modeVars, brokerVars, todo, seen, cache, faults>>

-----------------------------------------------------------------------------
(* reconcile_closes *)

ReadCloses ==
    /\ phase = "closes"
    /\ BrokerFills
    /\ cache' = Unread
    /\ mem' = row
    /\ phase' = "resolve"
    /\ UNCHANGED <<modeVars, brokerVars, row, after, todo, faults>>

Unresolved(r) == r.status = "CLOSED" /\ r.basis = "estimate" /\ ~r.settled

ResolveNothing ==
    /\ phase = "resolve"
    /\ ~Unresolved(mem) \/ seen = {}
    /\ Leave("open")
    /\ seen' = {}
    /\ UNCHANGED <<modeVars, brokerVars, todo, cache, faults>>

ConfirmClose ==
    /\ phase = "resolve"
    /\ Unresolved(mem) /\ CloseFilled(mem)
    /\ \E b \in Bases(mem) : Save([mem EXCEPT !.basis = b, !.settled = TRUE], "open")
    /\ seen' = {}
    /\ UNCHANGED <<modeVars, brokerVars, todo, cache, faults>>

\* The close is not known to have filled and a leg is still held: reopen.
\* The orders read may be stale or fail, so this can also happen to a close
\* that has filled.
RevertClose ==
    /\ phase = "resolve"
    /\ Unresolved(mem) /\ seen # {}
    /\ Save([mem EXCEPT !.status = "OPEN", !.basis = "none", !.closing = NoneClosing], "open")
    /\ seen' = {}
    /\ UNCHANGED <<modeVars, brokerVars, todo, cache, faults>>

-----------------------------------------------------------------------------
(* open_positions *)

\* The block runs once in a cycle, and a cached read does not live that long.
EndCycle ==
    /\ phase' = "idle"
    /\ mem' = NoRow
    /\ todo' = {}
    /\ seen' = {}
    /\ cache' = Unread
    /\ UNCHANGED after

\* Not due, deferred, the ledger shows the condor, or the broker refuses the
\* atomic order.
SkipOpen ==
    /\ phase = "open"
    /\ EndCycle
    /\ UNCHANGED <<modeVars, brokerVars, row, faults>>

OpenAtomic ==
    /\ phase = "open"
    /\ row.status = "NONE" /\ atomic
    /\ \E i \in OrderIds :
         /\ Books(i, Legs, TRUE)
         /\ mem' = [NoRow EXCEPT !.status = "OPEN", !.opening = [l \in Wings |-> i]]
    /\ phase' = "append"
    /\ UNCHANGED <<modeVars, held, row, after, todo, seen, cache, faults>>

OpenAtomicRaises ==
    /\ phase = "open"
    /\ row.status = "NONE" /\ atomic
    /\ LosesAnswer(Legs, TRUE)
    /\ Abandon
    /\ UNCHANGED <<modeVars, held>>

OpenLegged ==
    /\ phase = "open"
    /\ row.status = "NONE" /\ ~atomic
    /\ mem' = [NoRow EXCEPT !.status = "OPEN"]
    /\ todo' = Legs
    /\ phase' = "leg"
    /\ UNCHANGED <<modeVars, brokerVars, row, after, seen, cache, faults>>

\* Leg by leg, wings before shorts.
NextToOpen(l) == l \in todo /\ (l \in Shorts => todo \cap Wings = {})

OpenLegTaken(l, i) ==
    /\ phase = "leg" /\ NextToOpen(l)
    /\ Books(i, {l}, TRUE)
    /\ mem' = IF l \in Wings THEN [mem EXCEPT !.opening[l] = i] ELSE mem
    /\ todo' = todo \ {l}
    /\ phase' = IF todo = {l} THEN "append" ELSE "leg"
    /\ InvalidateReads
    /\ UNCHANGED <<modeVars, held, row, after, seen, faults>>

\* The legs already placed get no row.
OpenLegRefused(l) ==
    /\ phase = "leg" /\ NextToOpen(l)
    /\ IF todo = Legs THEN UNCHANGED faults ELSE faults < MaxFaults /\ faults' = faults + 1
    /\ EndCycle
    /\ UNCHANGED <<modeVars, brokerVars, row>>

OpenLegRaises(l) ==
    /\ phase = "leg" /\ NextToOpen(l)
    /\ LosesAnswer({l}, TRUE)
    /\ Abandon
    /\ UNCHANGED <<modeVars, held>>

\* The row goes to the ledger after its orders went out.  A malformed row would be
\* refused here (_is_wellformed_condor); build_condor makes none.
Append ==
    /\ phase = "append"
    /\ row' = mem
    /\ EndCycle
    /\ UNCHANGED <<modeVars, brokerVars, faults>>

-----------------------------------------------------------------------------
Crash ==
    /\ faults < MaxFaults
    /\ phase # "idle"
    /\ faults' = faults + 1
    /\ phase' = "idle"
    /\ after' = "idle"
    /\ mem' = NoRow
    /\ todo' = {}
    /\ seen' = {}
    /\ cache' = Unread
    /\ UNCHANGED <<modeVars, brokerVars, row>>

Remedies ==
    \/ RemediateNaked
    \/ \E l \in Legs : \/ \E i \in OrderIds : RebuyTaken(l, i)
                       \/ RebuyRefused(l) \/ RemedyRaises(l)
                       \/ CoverTaken(l) \/ CoverRefused(l)

Manage ==
    \/ Hold \/ Defer
    \/ CloseAtomic \/ CloseAtomicRefused \/ CloseAtomicRaises \/ CloseLegged
    \/ \E l \in Legs : CloseLegTaken(l) \/ CloseLegRefused(l) \/ CloseLegRaises(l)
    \/ MarkClosed

Open ==
    \/ SkipOpen \/ OpenAtomic \/ OpenAtomicRaises \/ OpenLegged
    \/ \E l \in Legs : \/ \E i \in OrderIds : OpenLegTaken(l, i)
                       \/ OpenLegRefused(l) \/ OpenLegRaises(l)
    \/ Append

Cycle ==
    \/ ReadFills \/ NoFills \/ RecordFills \/ Remedies
    \/ Manage \/ Write
    \/ ReadCloses \/ ResolveNothing \/ ConfirmClose \/ RevertClose
    \/ Open

Next ==
    \/ Cycle
    \/ \E i \in OrderIds : Fills(i) \/ Dies(i)
    \/ Crash

Spec == Init /\ [][Next]_vars

\* The scheduler keeps cycling.  Reads succeed, the broker takes orders and
\* fills those that close again and again if they are tried again and again;
\* a working order ends.
Fairness ==
    /\ WF_vars(Cycle)
    /\ SF_vars(ReadFills /\ seen' = HeldLegs)
    /\ SF_vars(ReadCloses /\ seen' = HeldLegs)
    /\ SF_vars(\E s \in Sides : CoverTaken(Short(s)))
    /\ \A i \in OrderIds : WF_vars(Fills(i) \/ Dies(i)) /\ SF_vars(Closing(i) /\ Fills(i))

FairSpec == Spec /\ Fairness

-----------------------------------------------------------------------------
(* Properties *)

Naked(s) == held[Short(s)] > held[Wing(s)]
Faultless == faults = 0

\* Lots of a leg that are held or that a working order is about to open.
Exposed(l) == held[l] + Cardinality({i \in OrderIds :
                                        Working(i) /\ orders[i].opens /\ l \in orders[i].legs})

\* With atomic orders no short is ever without its wing, whatever fills,
\* dies, is lost or crashes: the remediation never takes a failed or an old
\* positions read for a missing wing (reconcile_fills, _remediate_naked).
AtomicNeverNaked == atomic => \A s \in Sides : ~Naked(s)

\* No short is sold beyond the one condor the sleeve meant to sell, and one
\* for each call that raised, each open refused half way and each crash: those
\* leave orders without a row, so that the next open sells the condor again
\* (open_positions, _place_condor_open).  Its wings are doubled at most by each
\* try of the repair, which re-buys without looking whether the cancel of the
\* old order came in time (_remediate_naked).
LegsAreBounded ==
    \A s \in Sides : /\ Exposed(Short(s)) <= 1 + faults
                     /\ Exposed(Wing(s)) <= (1 + MaxTries) * (1 + faults)

\* A close the fills confirm leaves no short behind, unless a lost answer, a
\* half-refused open or a crash had sold a second one
\* (reconcile_closes, _close_fill_debit).
FillsMeanNoShort ==
    row.status = "CLOSED" /\ row.basis = "fills" /\ Faultless
        => \A l \in Shorts : held[l] = 0

\* A close booked on acceptance whose orders have not all filled.
CloseUnfilled == row.status = "CLOSED" /\ ~CloseFilled(row)

\* A close booked at an estimate does not stay CLOSED for ever on orders that
\* did not fill: they fill or reconcile_closes reopens the row, across failed
\* and cached reads, refusals and crashes.
EstimatedCloseIsResolved ==
    (CloseUnfilled /\ row.basis # "uw") ~> ~(CloseUnfilled /\ row.basis # "uw")

\* A naked short of a condor in the ledger is covered in the end: the wing is
\* re-bought a bounded number of times and then the short is bought back
\* (_remediate_naked), also when the row was CLOSED while the buyback hung
\* (reconcile_closes).
NakedIsCovered ==
    \A s \in Sides :
        (Naked(s) /\ row.status # "NONE" /\ Faultless /\ ~uw) ~> ~(Naked(s) /\ Faultless)
=============================================================================
