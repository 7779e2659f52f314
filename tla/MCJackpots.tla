----------------------------- MODULE MCJackpots -----------------------------
(* Small instances of Jackpots for TLC. *)
EXTENDS Jackpots, TLC

CONSTANTS c1, c2, c3, c4, n1

\* Calls differ only by name.
CallSymmetry == Permutations(Calls)
=============================================================================
