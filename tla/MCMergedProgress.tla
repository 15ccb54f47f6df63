-------------------------- MODULE MCMergedProgress --------------------------
(* A small instance of MergedProgress for TLC.                             *)
EXTENDS MergedProgress

CONSTANTS d1, d2

MCDevices == {d1, d2}
=============================================================================
