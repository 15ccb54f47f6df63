--------------------------- MODULE MCEventIntake ---------------------------
(***************************************************************************)
(* A small instance of EventIntake for TLC: batches of up to two events, *)
(* and queues that are longer.                                             *)
(***************************************************************************)
EXTENDS EventIntake

CONSTANTS u1, u2, e1, e2, e3, e4, e5

MCUsers    == {u1, u2}
MCNamed    == {e1, e4, e5}
MCNameless == {e2, e3}
MCPayloadless == {e3, e5}
MCMalformed   == {e4}
MCDeviceless  == {e2}
=============================================================================
