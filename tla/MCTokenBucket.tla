---------------------------- MODULE MCTokenBucket ----------------------------
(* Small instances of TokenBucket for TLC. *)
EXTENDS TokenBucket, TLC

CONSTANTS c1, c2, c3

\* Callers differ only by name.
CallerSymmetry == Permutations(Callers)
=============================================================================
