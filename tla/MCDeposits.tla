----------------------------- MODULE MCDeposits -----------------------------
(* Small instances of Deposits for TLC. *)
EXTENDS Deposits, TLC

CONSTANTS d1, d2, k1, k2, k3

\* Requests differ only by name.
RequestSymmetry == Permutations(Callbacks)
=============================================================================
