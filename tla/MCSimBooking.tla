---------------------------- MODULE MCSimBooking ----------------------------
(* Small instances of SimBooking. *)
EXTENDS SimBooking, TLC

CONSTANTS t1, t2, orders, positions

OneThread == {t1}
TwoThreads == {t1, t2}
TwoKinds == {orders, positions}
=============================================================================
