------------------------------ MODULE MCWallet ------------------------------
(* Small instances of Wallet for TLC. *)
EXTENDS Wallet, TLC

CONSTANTS alice, bob, r1, r2, r3

\* 30 shillings with tax withheld, and a stake whose tax rounds to nothing; the
\* last one is above MaxStake.
MCStakes == {[net |-> 2, tax |-> 1], [net |-> 1, tax |-> 0], [net |-> 4, tax |-> 1]}
=============================================================================
