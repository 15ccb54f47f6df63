----------------------------- MODULE MCAccounts -----------------------------
(* A small instance of Accounts for TLC.                                   *)
EXTENDS Accounts, TLC

CONSTANTS h1, h2

MCHandlers == {h1, h2}

Symmetry == Permutations(MCHandlers)
=============================================================================
