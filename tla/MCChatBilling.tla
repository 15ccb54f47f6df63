--------------------------- MODULE MCChatBilling ---------------------------
(* A small instance of ChatBilling for TLC.                                *)
EXTENDS ChatBilling, TLC

CONSTANTS r1, r2

MCRequests == {r1, r2}

Symmetry == Permutations(MCRequests)
=============================================================================
