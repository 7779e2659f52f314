----------------------------- MODULE MCSportBets -----------------------------
(* Small instances of SportBets for TLC. *)
EXTENDS SportBets, TLC

CONSTANTS b1, e1, e2, e3

FirstOfEach == [b \in Bets |-> 2]

\* Calls differ only by name.
EditSymmetry == Permutations(Edits)
=============================================================================
