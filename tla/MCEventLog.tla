----------------------------- MODULE MCEventLog -----------------------------
(* A small instance of EventLog for TLC: two events and two compactions     *)
(* that gather one row each, which may be the other's, and may leave out    *)
(* another.                                                                 *)
EXTENDS EventLog

CONSTANTS e1, e2, d1, k1, k2

MCEvents      == {e1, e2}
MCDevices     == {d1}
MCCompactions == {k1, k2}
=============================================================================
