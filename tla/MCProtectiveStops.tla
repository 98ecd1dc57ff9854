------------------------- MODULE MCProtectiveStops -------------------------
(* Small instances of ProtectiveStops. *)
EXTENDS ProtectiveStops, TLC

CONSTANTS s1, s2

TwoSlots == {s1, s2}
=============================================================================
