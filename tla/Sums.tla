-------------------------------- MODULE Sums --------------------------------
(***************************************************************************)
(* The sum of a function of natural numbers over a finite set, as the       *)
(* number of its units: SumFunctionOnSet of the community modules, in a     *)
(* form about which the library's facts on finite sets say all that the     *)
(* proofs need.                                                            *)
(***************************************************************************)
EXTENDS Integers, FiniteSets

Units(f, S) == UNION {{x} \X (1 .. f[x]) : x \in S}

Total(f, S) == Cardinality(Units(f, S))

=============================================================================
