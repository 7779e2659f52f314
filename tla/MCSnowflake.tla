----------------------------- MODULE MCSnowflake -----------------------------
(* Small instances of Snowflake for TLC. *)
EXTENDS Snowflake

CONSTANTS g1, g2

\* Two services.
MCWorker == [g \in Generators |-> IF g = g1 THEN 0 ELSE 1]
=============================================================================
