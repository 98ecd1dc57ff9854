---------------------------- MODULE AccountView ----------------------------
(***************************************************************************)
(* What the read side of the SIM gateway promises, without its cache, its  *)
(* lock or its threads: each kind of read (balances, positions, orders)    *)
(* shows a version of the account that the account has really had, and     *)
(* once a version has been shown no reader of that kind is shown an older  *)
(* one.  SimBooking implements it.                                         *)
(***************************************************************************)
EXTENDS Naturals

CONSTANT Kinds

VARIABLES
    book,   \* version of the account at the broker
    shown   \* newest version a read of each kind has shown

viewVars == <<book, shown>>

Init ==
    /\ book = 0
    /\ shown = [k \in Kinds |-> 0]

AccountMoves ==
    /\ book' = book + 1
    /\ UNCHANGED shown

Show(k) ==
    /\ \E v \in shown[k]..book : shown' = [shown EXCEPT ![k] = v]
    /\ UNCHANGED book

Next == AccountMoves \/ \E k \in Kinds : Show(k)

Spec == Init /\ [][Next]_viewVars
=============================================================================
