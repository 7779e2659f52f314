---------------------------- MODULE MCCompliance ----------------------------
(* Small instances of Compliance for TLC. *)
EXTENDS Compliance, Functions, TLC

CONSTANTS c1, c2

\* Counting units is adding up.
ASSUME TotalIsSum ==
    \A f \in [1 .. 3 -> 0 .. 3], S \in SUBSET (1 .. 3) : Total(f, S) = SumFunctionOnSet(f, S)

\* Calls differ only by name.
CallSymmetry == Permutations(Calls)
=============================================================================
