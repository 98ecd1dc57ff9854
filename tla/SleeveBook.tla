----------------------------- MODULE SleeveBook -----------------------------
(***************************************************************************)
(* An ETF sleeve that steers one symbol to a target: TrendFollowingEngine,  *)
(* and with the same steps the volatility carry.  Once per cycle the sleeve *)
(* reconciles its lots to the broker's position, reads the working orders,  *)
(* and orders target - held - in flight.  Later in the cycle xs_momentum    *)
(* reconciles the same symbol, which it never trades while trend owns it,   *)
(* and ensure_stops rests a protective stop under the shares.               *)
(*                                                                         *)
(* Positions are read through a cache that requests of other threads fill    *)
(* too; the cache of the orders lives for seconds only and is left out.     *)
(* Between any two steps orders fill or die.                                *)
(* Quantities are in units of a position; a difference below the churn      *)
(* threshold of the code is no difference here.                             *)
(***************************************************************************)
EXTENDS Integers

CONSTANTS
    Targets,        \* what the signal may ask for; 0 for no position
    Seeds,          \* what xs_momentum may own to begin with
    Budget,         \* what deployment_headroom_usd lets the sleeve hold
    BookCap,        \* what the cap on the book lets anybody hold
    MaxFaults,      \* bound: refused reads and lost answers
    Armed,          \* GREYLINE_PER_SLEEVE_SIZING
    StopModes,      \* the values of GREYLINE_BROKER_PROTECTIVE_STOPS to run with
    Others,         \* other names of the sleeve's basket are held
    NoRead          \* an empty cache, or a read that was refused

ASSUME SleeveAssumption ==
    /\ Targets \subseteq Nat /\ Seeds \subseteq Nat
    /\ Budget \in Nat /\ BookCap \in Nat /\ MaxFaults \in Nat
    /\ \A t \in Targets : t <= Budget
    /\ \A n \in Seeds : n <= BookCap
    /\ {Armed, Others} \subseteq BOOLEAN /\ StopModes \subseteq BOOLEAN

ASSUME NoReadAssumption == NoRead \notin Int

Sleeves == {"trend", "xs"}
Steps == {"reconcile", "snapshot", "trade", "xs", "ensure"}

VARIABLES
    held,               \* the broker: shares,
    buys, sells, stop,  \* and unfilled remainders of orders and of the stop
    positions,          \* the cached read of held
    lots,               \* the open lots of each sleeve (sleeve_trade_ledger)
    target, pc, net,    \* the pass: its target, its step, its orders read
    stopped,            \* whether protective stops are placed
    faults,             \* faults used up
    raced,              \* history: the broker moved under a read in use
    blind               \* history: an order was sized from a refused read

broker == <<held, buys, sells, stop>>
history == <<raced, blind>>
vars == <<broker, positions, lots, target, pc, net, stopped, faults, history>>

Max0(n) == IF n > 0 THEN n ELSE 0
Least(m, n) == IF m < n THEN m ELSE n

Init ==
    /\ held \in Seeds /\ buys = 0 /\ sells = 0 /\ stop = 0
    /\ positions = NoRead
    /\ lots = [s \in Sleeves |-> IF s = "xs" THEN held ELSE 0]
    /\ target = 0 /\ pc = "reconcile" /\ net = NoRead
    /\ stopped \in StopModes
    /\ faults = 0 /\ raced = FALSE /\ blind = FALSE

-----------------------------------------------------------------------------
(* The broker and the other threads. *)

\* The broker moves, perhaps under a read that somebody will act on.
Moved == raced' = (raced \/ positions # NoRead \/ pc \in {"snapshot", "trade"})

BuyFills ==
    /\ \E n \in 1..buys : held' = held + n /\ buys' = buys - n
    /\ Moved
    /\ UNCHANGED <<sells, stop, positions, lots, target, pc, net, faults, blind, stopped>>

SellFills ==
    /\ \E n \in 1..sells : held' = held - n /\ sells' = sells - n
    /\ Moved
    /\ UNCHANGED <<buys, stop, positions, lots, target, pc, net, faults, blind, stopped>>

\* A DAY order expires, or is cancelled at the broker.
BuyDies ==
    /\ buys > 0 /\ buys' = 0
    /\ Moved
    /\ UNCHANGED <<held, sells, stop, positions, lots, target, pc, net, faults, blind, stopped>>

SellDies ==
    /\ sells > 0 /\ sells' = 0
    /\ Moved
    /\ UNCHANGED <<held, buys, stop, positions, lots, target, pc, net, faults, blind, stopped>>

\* A request reads the positions, through the same cache.
RequestReads ==
    /\ positions = NoRead /\ positions' = held
    /\ UNCHANGED <<broker, lots, target, pc, net, faults, history, stopped>>

\* The time-to-live of the cached read runs out.
CacheExpires ==
    /\ positions # NoRead /\ positions' = NoRead
    /\ UNCHANGED <<broker, lots, target, pc, net, faults, history, stopped>>

-----------------------------------------------------------------------------
(* Reads and orders of a pass. *)

Fault == faults < MaxFaults /\ faults' = faults + 1

\* get_positions: the cache, or the broker.  A refused read is not cached.
SeenPosition == IF positions # NoRead THEN positions ELSE held

\* The net of a snapshot counts every working order, the stop among them.
InFlight == buys - sells - stop

\* An accepted order drops the cached read.
Invalidated == positions' = NoRead

-----------------------------------------------------------------------------
(* The ledger of lots. *)

HeldByOther(s) == IF s = "trend" THEN lots["xs"] ELSE lots["trend"]

\* A sleeve's share of a broker total (effective_held, reconcile_plan).
Share(s, total) == IF Armed THEN Max0(total - HeldByOther(s)) ELSE total

\* Fault: lots are opened for new shares and never closed for sold ones.
ReconciledUpwards(s, total) ==
    [lots EXCEPT ![s] = IF Share(s, total) > @ THEN Share(s, total) ELSE @]

\* reconcile_from_broker, reconcile_plan and reconcile.  When the read shows
\* nothing of the basket and the sleeve has lots, it is taken for an empty
\* read and skipped.
Reconciled(s, total) ==
    IF total = 0 /\ ~Others /\ lots[s] > 0
       THEN lots ELSE [lots EXCEPT ![s] = Share(s, total)]

\* A refused read shows nothing of the basket at all.
ReconciledBlind(s) ==
    IF lots[s] > 0 THEN lots ELSE [lots EXCEPT ![s] = Share(s, 0)]

ReconcileLots(s) ==
    \/ lots' = Reconciled(s, SeenPosition) /\ UNCHANGED faults
    \/ positions = NoRead /\ lots' = ReconciledBlind(s) /\ Fault

-----------------------------------------------------------------------------
(* The pass. *)

\* RECONCILE-FIRST.  The signal of this cycle is known by then.
Reconcile ==
    /\ pc = "reconcile"
    /\ target' \in Targets
    /\ ReconcileLots("trend")
    /\ positions' = (IF faults' = faults THEN SeenPosition ELSE NoRead)
    /\ raced' = (raced /\ positions # NoRead)
    /\ pc' = "snapshot"
    /\ UNCHANGED <<broker, net, blind, stopped>>

\* Fault: resting orders are not counted.
SnapshotNothing ==
    /\ pc = "snapshot"
    /\ net' = 0
    /\ pc' = "trade"
    /\ UNCHANGED <<broker, positions, lots, target, faults, history, stopped>>

\* InFlightOrdersEngine.snapshot: one read of the working orders, or ok=False.
Snapshot ==
    /\ pc = "snapshot"
    /\ \/ net' = InFlight /\ UNCHANGED faults
       \/ net' = NoRead /\ Fault
    /\ pc' = "trade"
    /\ UNCHANGED <<broker, positions, lots, target, history, stopped>>

\* delta_shares: the target less what is held and what is in flight.
Delta(own) == target - (own + IF net = NoRead THEN 0 ELSE net)

\* Fault: the headroom is not asked for.
QuantityUncapped(own) ==
    LET d == Delta(own)
    IN  IF net = NoRead /\ target # 0 THEN 0
        ELSE IF d > 0 THEN d
        ELSE IF Armed THEN -Least(-d, lots["trend"]) ELSE d

\* Fault: the churn threshold holds back small sales too.
QuantityChurned(own) ==
    LET d == Delta(own)
    IN  IF net = NoRead /\ target # 0 THEN 0
        ELSE IF d > 0 THEN Least(d, Max0(Budget - own))
        ELSE IF d = -1 THEN 0 ELSE d

\* What to order, a buy when positive: a buy is cut to the sleeve's headroom,
\* a sale, under per-sleeve sizing, to its own lots.  Without an orders read
\* only a full exit may act.
Quantity(own) ==
    LET d == Delta(own)
    IN  IF net = NoRead /\ target # 0 THEN 0
        ELSE IF d > 0 THEN Least(d, Max0(Budget - own))
        ELSE IF Armed THEN -Least(-d, lots["trend"]) ELSE d

\* place_order of a buy, under the cap on the book, and of a sale, of shares
\* that no other order reserves.
Bought(q) == held + buys + q <= BookCap /\ buys' = buys + q /\ UNCHANGED <<held, sells, stop>>

\* clear_stop goes first and cancels the stop.
Sold(q) == q <= held - sells /\ sells' = sells + q /\ stop' = 0 /\ UNCHANGED <<held, buys>>

Place(q) == IF q > 0 THEN Bought(q) ELSE Sold(-q)

\* An order that the cap or the broker rejects; a stop is cleared all the same.
Rejected(q) ==
    IF q > 0 THEN held + buys + q > BookCap /\ UNCHANGED broker
    ELSE -q > held - sells /\ stop' = 0 /\ UNCHANGED <<held, buys, sells>>

\* The order is accepted, or accepted with its answer lost, or rejected.
Order(q) ==
    \/ q # 0 /\ Place(q) /\ Invalidated /\ UNCHANGED <<faults, raced>>
    \/ q # 0 /\ Place(q) /\ Fault /\ Moved /\ positions' = SeenPosition
    \/ /\ IF q = 0 THEN UNCHANGED broker ELSE Rejected(q)
       /\ positions' = SeenPosition
       /\ UNCHANGED <<faults, raced>>

\* plan and the rest of run_cycle: the position is read again, through the
\* cache, and a refused read shows no position.
Trade ==
    /\ pc = "trade"
    /\ \/ /\ Order(Quantity(Share("trend", SeenPosition)))
          /\ UNCHANGED blind
       \/ /\ positions = NoRead
          /\ blind' = TRUE
          /\ \/ Quantity(0) # 0 /\ Place(Quantity(0)) /\ Invalidated
             \/ /\ IF Quantity(0) = 0 THEN UNCHANGED broker ELSE Rejected(Quantity(0))
                /\ UNCHANGED positions
          /\ Fault /\ UNCHANGED raced
    /\ pc' = "xs" /\ net' = NoRead
    /\ UNCHANGED <<lots, target, stopped>>

\* plan skips a symbol of too short or stale a history before it reads the
\* position, run_cycle one that has no limit price.
Skip ==
    /\ pc = "trade"
    /\ positions' \in {positions, SeenPosition}
    /\ pc' = "xs" /\ net' = NoRead
    /\ UNCHANGED <<broker, lots, target, faults, history, stopped>>

\* The pause before the next cycle, longer than the cached read lives.
Paused == pc' = "reconcile" /\ Invalidated

\* xs_momentum reconciles, and skips what trend owns.
XsReconcile ==
    /\ pc = "xs"
    /\ ReconcileLots("xs")
    /\ IF stopped THEN pc' = "ensure" /\ UNCHANGED positions ELSE Paused
    /\ UNCHANGED <<broker, target, net, history, stopped>>

\* ensure_stops: a stop under the shares where none rests and none is closing.
\* What it does to several stops of a symbol is in ProtectiveStops and left out
\* here, where one stop is either there or not.
EnsureStops ==
    /\ pc = "ensure"
    /\ LET covered == stop > 0 \/ sells > 0 \/ SeenPosition = 0
       IN  IF covered \/ SeenPosition > held - sells - stop
             THEN UNCHANGED stop ELSE stop' = SeenPosition
    /\ Paused
    /\ UNCHANGED <<held, buys, sells, lots, target, net, faults, history, stopped>>

-----------------------------------------------------------------------------
Market == BuyFills \/ SellFills \/ BuyDies \/ SellDies
Threads == RequestReads \/ CacheExpires
Pass == Reconcile \/ Snapshot \/ Trade \/ Skip \/ XsReconcile \/ EnsureStops

Next == Market \/ Threads \/ Pass

Spec == Init /\ [][Next]_vars

\* The scheduler runs the cycle in open sessions, the symbol has fresh bars and a
\* quote again and again, an order to buy ends with its day, and an order to sell
\* that is placed again and again fills.
FairSpec ==
    /\ Spec
    /\ WF_vars(Pass) /\ SF_vars(Trade)
    /\ WF_vars(BuyDies) /\ SF_vars(SellFills)

-----------------------------------------------------------------------------
(* Properties *)

Count == 0..BookCap

TypeOK ==
    /\ held \in Count /\ buys \in Count /\ sells \in Count /\ stop \in Count
    /\ positions \in Count \cup {NoRead}
    /\ lots \in [Sleeves -> Count]
    /\ target \in Targets \cup {0} /\ pc \in Steps
    /\ net \in -(2 * BookCap)..BookCap \cup {NoRead}
    /\ faults \in 0..MaxFaults /\ raced \in BOOLEAN /\ blind \in BOOLEAN /\ stopped \in BOOLEAN

\* The churn guard: a buy never takes the position and the orders in flight
\* past the target, unless the broker moved between the reads and the order
\* or the position was not readable.
NoStacking ==
    [][buys' > buys /\ ~raced /\ ~blind' /\ ~stopped /\ ~Armed
        => held + buys' - sells <= target]_vars

\* However the orders and the reads race, what is held and being bought never
\* exceeds the sleeve's budget by more than two orders of the target: neither
\* read of a pass is more than one order out of date (plan, run_cycle).
StackIsBounded ==
    ~blind => \E t \in Targets : held + buys <= Budget + 2 * t

\* Exits always act: when the signal stays at no position, the position is
\* sold, unless the broker keeps moving between the reads of a pass.
ExitsAct == <>[](target = 0 /\ ~raced) => []<>(held = 0)

\* They do where no protective stop rests under the position.
UnstoppedExitsAct == stopped \/ ExitsAct

\* A position that stays is booked in the sleeve's lots.
LotsSettle ==
    \A n \in Count : <>[](held = n /\ (n > 0 \/ Others)) => <>[](lots["trend"] = n)
=============================================================================
