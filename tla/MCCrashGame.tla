---------------------------- MODULE MCCrashGame ----------------------------
(* Small instances of CrashGame for TLC. *)
EXTENDS CrashGame, TLC

CONSTANTS s1, s2, b1, p1, c1, c2

=============================================================================
