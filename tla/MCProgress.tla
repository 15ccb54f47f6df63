----------------------------- MODULE MCProgress -----------------------------
(* A small instance of Progress for TLC: three edits, two of them of one    *)
(* device, so that a stale copy can lack what another device stored while   *)
(* it holds an edit of its own.                                             *)
EXTENDS Progress

CONSTANTS d1, d2, e1, e2, e3, r1, r2, r3

MCDevices  == {d1, d2}
MCEdits    == {e1, e2, e3}
MCOwn      == [d \in MCDevices |-> IF d = d1 THEN {e1} ELSE {e2, e3}]
MCRequests == {r1, r2, r3}
=============================================================================
