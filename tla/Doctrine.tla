------------------------------ MODULE Doctrine ------------------------------
(***************************************************************************)
(* The exit doctrine as arithmetic (trade_doctrine_engine.py and           *)
(* options_dynamic_tps_engine.py).  Prices of the underlying are counted   *)
(* in half ATRs from the entry price, in the direction of the trade, so    *)
(* the entry is 0, the initial stop -5 and the targets 3, 6 and 9.  The    *)
(* code rounds its levels to 4 decimals; the levels keep their order.      *)
(***************************************************************************)
EXTENDS Integers

Targets == 3                      \* len(TARGET_ATRS)
Target(i) == 3 * i                \* 1.5, 3.0 and 4.5 ATR
InitialStop == -5                 \* STOP_ATR_MULT = 2.5
Trail == 6                        \* RUNNER_TRAIL_ATR = 3.0

\* Contracts that should have been sold by the time target i is reached:
\* int(contracts * i * 0.25).
Banked(contracts, i) == (contracts * i) \div 4

\* allocate: what each target sells, and what is never sold at a target.
AtTarget(contracts, i) == Banked(contracts, i) - Banked(contracts, i - 1)
Runner(contracts) == contracts - Banked(contracts, Targets)

\* decide: targets are reached in order, starting from those already filled.
Reached(filled, price) ==
    CHOOSE n \in filled..Targets :
        /\ \A i \in (filled + 1)..n : price >= Target(i)
        /\ n < Targets => price < Target(n + 1)

\* Fault: everything the ladder banks, what was banked before included.
ToSellAgain(contracts, before, after) == Banked(contracts, after)

\* Contracts to sell when the targets filled go from one count to another.
ToSell(contracts, before, after) == Banked(contracts, after) - Banked(contracts, before)

\* current_stop: breakeven after the first target, the first target after the
\* second, then the trail behind the extreme, floored at the second target.
Stop(filled, extreme) ==
    IF filled <= 0 THEN InitialStop
    ELSE IF filled <= 2 THEN Target(filled - 1)
    ELSE IF extreme - Trail > Target(2) THEN extreme - Trail ELSE Target(2)

\* What decide does with contracts in a trade that has filled some targets.
Action(contracts, filled, price, extreme) ==
    LET reached == Reached(filled, price) IN
    IF price <= Stop(reached, extreme) THEN "CLOSE"
    ELSE IF ToSell(contracts, filled, reached) > 0 THEN "SCALE"
    ELSE IF reached > filled THEN "RATCHET"
    ELSE "HOLD"
=============================================================================
