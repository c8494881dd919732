--------------------------- MODULE MCSmProtocol ---------------------------
(* Small instances of SmProtocol for TLC. *)
EXTENDS SmProtocol, TLC

CONSTANTS a1, a2  \* the mutants the generators can reach
ASSUME a1 # a2

AllAST == {Ori, a1, a2}
OneMutant == {Ori, a1}
MutantSymmetry == Permutations({a1, a2})
===========================================================================
