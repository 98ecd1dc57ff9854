----------------------------- MODULE DailyHalt ------------------------------
(***************************************************************************)
(* The daily-loss halt: MissionRiskGovernorEngine reads the book's equity    *)
(* once per cycle, measures it from the equity recorded at the start of the  *)
(* day, and past the limit writes a marker dated today; place_order refuses  *)
(* opening orders while the marker is dated today.                          *)
(*                                                                         *)
(* Two threads run cycles, the scheduler's loop and a run_once beside it:    *)
(*                                                                         *)
(*   trade (ask -> post)* -> read -> baseline (-> record) -> check (-> mark) *)
(*                                                                         *)
(* Files are rewritten in place: a writer first truncates, and who reads     *)
(* then, or after a crash there, cannot parse what he finds.  The date that  *)
(* goes into a file is taken before it is truncated.  Equity is in whole     *)
(* steps of the book's profit or loss.                                      *)
(***************************************************************************)
EXTENDS Integers

CONSTANTS
    Threads,    \* who runs cycles
    HaltAt,     \* the loss that halts (GREYLINE_DAILY_LOSS_HALT_PCT)
    Fall, Rise, \* bounds on how far the equity moves from its base
    MaxDay,     \* bound on the days
    MaxFaults,  \* bound on failed or empty reads and on crashes
    Torn        \* a file that cannot be parsed

ASSUME HaltAssumption == HaltAt \in Nat \ {0} /\ Fall \in Nat /\ Rise \in Nat
ASSUME BoundAssumption == MaxDay \in Nat \ {0} /\ MaxFaults \in Nat
ASSUME TornAssumption == Torn \notin Int /\ Torn \notin [date : Int, equity : Int]

VARIABLES
    day,        \* the UTC date
    worth,      \* the equity of the book, profit and loss only
    realized,   \* the part of it that is realized
    flat,       \* the book holds no position
    sod,        \* the file of the start-of-day equity
    marker,     \* the date in the halt marker
    counted,    \* a count of open positions was seen within 90 minutes
    pc, seen,   \* each thread: its step, the equity it has read and the date it took
    faults,     \* faults used up
    high, low,  \* history: the range of the equity today
    marked,     \* history: the last day whose halt was marked
    slipped,    \* history: who posted an opening order since the halt
    again,      \* history: somebody did so twice
    blind,      \* history: somebody asked a marker that could not be parsed, or a
                \* write begun before midnight took the place of today's marker
    fooled      \* history: an equity was used that was not today's

files == <<sod, marker>>
account == <<worth, realized, flat>>
book == <<day, account, high, low>>
orders == <<slipped, again, blind>>
vars == <<book, files, counted, pc, seen, faults, marked, orders, fooled>>

Days == 1..MaxDay
Levels == -Fall..Rise
Steps == {"trade", "post", "read", "baseline", "record", "check", "mark"}
Idle == {"trade", "post"}
Unread == [equity |-> 0, ok |-> FALSE, date |-> 0]

Init ==
    /\ day = 1 /\ high = 0 /\ low = 0
    /\ worth = 0 /\ realized = 0 /\ flat \in BOOLEAN
    /\ sod = [date |-> 0, equity |-> 0] /\ marker = 0
    /\ counted \in BOOLEAN
    /\ pc = [t \in Threads |-> "trade"] /\ seen = [t \in Threads |-> Unread]
    /\ faults = 0 /\ marked = 0
    /\ slipped = {} /\ again = FALSE /\ blind = FALSE /\ fooled = FALSE

Goto(t, step) == pc' = [pc EXCEPT ![t] = step]
Forget(t) == seen' = [seen EXCEPT ![t] = Unread]
Fault == faults < MaxFaults /\ faults' = faults + 1

-----------------------------------------------------------------------------
(* The world. *)

\* The open positions gain or lose.
WorthMoves ==
    /\ ~flat
    /\ worth' \in Levels \cap {worth - 1, worth + 1}
    /\ high' = (IF worth' > high THEN worth' ELSE high)
    /\ low' = (IF worth' < low THEN worth' ELSE low)
    /\ UNCHANGED <<day, realized, flat, files, counted, pc, seen, faults, marked, orders, fooled>>

\* The last position is closed, and what was open is realized; or the book is
\* opened again.
PositionsChange ==
    /\ flat' = ~flat /\ realized' = worth
    /\ UNCHANGED <<day, worth, high, low, files, counted, pc, seen, faults, marked, orders, fooled>>

\* Midnight UTC.  A pass that is under way carries yesterday's equity along.
NewDay ==
    /\ day < MaxDay /\ day' = day + 1
    /\ high' = worth /\ low' = worth
    /\ slipped' = {} /\ again' = FALSE /\ blind' = FALSE
    /\ fooled' = (\E t \in Threads : pc[t] \notin Idle)
    /\ UNCHANGED <<account, files, counted, pc, seen, faults, marked>>

\* No positions were read for 90 minutes.
CountAges ==
    /\ counted /\ counted' = FALSE
    /\ UNCHANGED <<book, files, pc, seen, faults, marked, orders, fooled>>

\* The process dies and comes back.
Crash ==
    /\ Fault
    /\ pc' = [t \in Threads |-> "trade"] /\ seen' = [t \in Threads |-> Unread]
    /\ UNCHANGED <<book, files, counted, marked, orders, fooled>>

-----------------------------------------------------------------------------
(* Orders. *)

\* opens_halted: not when the marker cannot be parsed.
Halted == marker = day

\* Fault: the halt is only paged, as it was before place_order asked.
AskNobody(t) ==
    /\ pc[t] = "trade"
    /\ Goto(t, "post")
    /\ UNCHANGED <<book, files, counted, seen, faults, marked, orders, fooled>>

\* place_order looks at the marker before it builds and sends an order.
Ask(t) ==
    /\ pc[t] = "trade" /\ ~Halted
    /\ Goto(t, "post")
    /\ blind' = (blind \/ marker = Torn)
    /\ UNCHANGED <<book, files, counted, seen, faults, marked, slipped, again, fooled>>

Post(t) ==
    /\ pc[t] = "post"
    /\ Goto(t, "trade")
    /\ IF marked = day
         THEN slipped' = slipped \cup {t} /\ again' = (again \/ t \in slipped)
         ELSE UNCHANGED <<slipped, again>>
    /\ UNCHANGED <<book, files, counted, seen, faults, marked, blind, fooled>>

-----------------------------------------------------------------------------
(* The governor. *)

StartPass(t) ==
    /\ pc[t] = "trade"
    /\ Goto(t, "read")
    /\ UNCHANGED <<book, files, counted, seen, faults, marked, orders, fooled>>

\* What a degraded read shows is not looked at.
Reads(t, equity, ok) ==
    /\ seen' = [seen EXCEPT ![t] = IF ok THEN [Unread EXCEPT !.equity = equity, !.ok = TRUE] ELSE Unread]
    /\ Goto(t, "baseline")
    /\ UNCHANGED <<book, files, marked, orders>>

\* _equity_and_deployed: positions are seen and their count is kept; or the book
\* is flat; or the read fails; or it is empty though positions are open, which
\* leaves the realized part.  No positions are believed only when no count is
\* recent.
ReadBook(t) ==
    /\ pc[t] = "read"
    /\ \/ ~flat /\ Reads(t, worth, TRUE) /\ counted' = TRUE /\ UNCHANGED <<faults, fooled>>
       \/ flat /\ Reads(t, worth, ~counted) /\ UNCHANGED <<counted, faults, fooled>>
       \/ Reads(t, 0, FALSE) /\ Fault /\ UNCHANGED <<counted, fooled>>
       \/ /\ ~flat /\ Reads(t, realized, ~counted) /\ Fault
          /\ fooled' = (fooled \/ ~counted)
          /\ UNCHANGED counted

\* Fault: a degraded read is recorded as the start of the day.
RecordAnyway(t) == TRUE

\* The start of the day is recorded by a clean read only.
MayRecord(t) == seen[t].ok

HasBaseline == sod # Torn /\ sod.date = day

Loss(t) == sod.equity - seen[t].equity

\* Fault: the limit is passed only below it.
PastLimitBelow(t) == seen[t].ok /\ Loss(t) > HaltAt

\* The loss ladder of check_and_alert, which a degraded read skips.
PastLimit(t) == seen[t].ok /\ Loss(t) >= HaltAt

\* The date that is about to be written.
TakeDate(t) == seen' = [seen EXCEPT ![t].date = day]

\* _sod_equity, and the ladder.  Measured from a new baseline, or from none on
\* disk, the loss is nothing.
Baseline(t) ==
    /\ pc[t] = "baseline"
    /\ \/ HasBaseline /\ PastLimit(t) /\ Goto(t, "check") /\ UNCHANGED <<sod, seen>>
       \/ HasBaseline /\ ~PastLimit(t) /\ Goto(t, "trade") /\ Forget(t) /\ UNCHANGED sod
       \/ ~HasBaseline /\ MayRecord(t) /\ Goto(t, "record") /\ sod' = Torn /\ TakeDate(t)
       \/ ~HasBaseline /\ ~MayRecord(t) /\ Goto(t, "trade") /\ Forget(t) /\ UNCHANGED sod
    /\ UNCHANGED <<book, marker, counted, faults, marked, orders, fooled>>

Record(t) ==
    /\ pc[t] = "record"
    /\ sod' = [date |-> seen[t].date, equity |-> seen[t].equity]
    /\ Goto(t, "trade") /\ Forget(t)
    /\ UNCHANGED <<book, marker, counted, faults, marked, orders, fooled>>

\* The marker is rewritten on every pass that finds the loss.
TruncateMarker(t) ==
    /\ pc[t] = "check"
    /\ marker' = Torn /\ TakeDate(t)
    /\ Goto(t, "mark")
    /\ UNCHANGED <<book, sod, counted, faults, marked, orders, fooled>>

WriteMarker(t) ==
    /\ pc[t] = "mark"
    /\ marker' = seen[t].date
    /\ marked' = (IF seen[t].date = day THEN day ELSE marked)
    /\ blind' = (blind \/ (marked = day /\ seen[t].date # day))
    /\ Goto(t, "trade") /\ Forget(t)
    /\ UNCHANGED <<book, sod, counted, faults, slipped, again, fooled>>

-----------------------------------------------------------------------------
Govern(t) == StartPass(t) \/ ReadBook(t) \/ Baseline(t) \/ Record(t) \/ TruncateMarker(t) \/ WriteMarker(t)
World == WorthMoves \/ PositionsChange \/ NewDay \/ CountAges \/ Crash

Next == World \/ \E t \in Threads : Ask(t) \/ Post(t) \/ Govern(t)

Spec == Init /\ [][Next]_vars

\* Every thread that is in a cycle comes to its governor and through it, and time
\* passes.
FairSpec ==
    /\ Spec
    /\ WF_vars(CountAges)
    /\ \A t \in Threads : WF_vars(Post(t)) /\ SF_vars(StartPass(t)) /\ WF_vars(Govern(t))

-----------------------------------------------------------------------------
(* Properties *)

TypeOK ==
    /\ day \in Days /\ high \in Levels /\ low \in Levels
    /\ worth \in Levels /\ realized \in Levels /\ flat \in BOOLEAN
    /\ sod \in [date : 0..MaxDay, equity : Levels] \cup {Torn}
    /\ marker \in 0..MaxDay \cup {Torn} /\ counted \in BOOLEAN
    /\ pc \in [Threads -> Steps]
    /\ seen \in [Threads -> [equity : Levels, ok : BOOLEAN, date : 0..MaxDay]]
    /\ faults \in 0..MaxFaults /\ marked \in 0..MaxDay
    /\ slipped \subseteq Threads /\ again \in BOOLEAN
    /\ blind \in BOOLEAN /\ fooled \in BOOLEAN

\* Once a day is halted each thread sends at most the one opening order it had
\* asked for before, unless it asked while the marker could not be parsed or a
\* write begun before midnight replaced it.
HaltHolds == again => blind

\* A day is halted only if the book moved by the limit within the day, unless
\* the equity of another day or an empty read was taken for it.
NoFalseHalt == marked = day => high - low >= HaltAt \/ fooled

\* A loss past the limit that stays halts the day, in a flat book too.
LossHalts ==
    \A d \in Days :
        <>[](day = d /\ HasBaseline /\ sod.equity - worth >= HaltAt) => []<>(marker = d)
=============================================================================
