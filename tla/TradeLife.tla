------------------------------ MODULE TradeLife ------------------------------
(***************************************************************************)
(* What the row of an option trade promises its readers, whatever the      *)
(* broker, the market and the process do: it is recorded once with the     *)
(* whole size; while open its targets only advance and it never gives up  *)
(* more than the ladder banks, so the runner stays; it is voided only      *)
(* while open and for good; a closed row may be reopened, and then it      *)
(* stands as it was recorded.  OptionsBook implements it.                  *)
(***************************************************************************)
EXTENDS Doctrine

CONSTANT Size   \* contracts recorded

VARIABLES
    status,     \* NONE, OPEN, CLOSED or VOID_UNFILLED
    targets,    \* targets filled
    remaining   \* contracts the row still claims

lifeVars == <<status, targets, remaining>>

Init ==
    /\ status = "NONE"
    /\ targets = 0
    /\ remaining = Size

Record ==
    /\ status = "NONE"
    /\ status' = "OPEN"
    /\ UNCHANGED <<targets, remaining>>

\* What managing a row may do to its ladder.
Advance ==
    /\ status = "OPEN"
    /\ targets' \in targets..Targets
    /\ remaining' \in (Size - Banked(Size, targets'))..remaining

Manage == Advance /\ status' \in {"OPEN", "CLOSED"}

Void ==
    /\ status = "OPEN"
    /\ status' = "VOID_UNFILLED"
    /\ UNCHANGED <<targets, remaining>>

Reopen ==
    /\ status = "CLOSED"
    /\ status' = "OPEN"
    /\ targets' = 0
    /\ remaining' = Size

Next == Record \/ Manage \/ Void \/ Reopen

Spec == Init /\ [][Next]_lifeVars
=============================================================================
