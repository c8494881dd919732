--------------------------- MODULE MCRepairLoop ---------------------------
(* A small instance of RepairLoop: one process, whose files are numbered by *)
(* the contracts they hold.                                                *)
EXTENDS RepairLoop, TLC

CONSTANTS a1, a2, a3  \* the mutants
Mutants == {a1, a2, a3}
AllAST == {Ori} \cup Mutants

\* No mutation leads back to its base.
Patches ==
  {p \in [space : {1}, num : Mutants, base : AllAST, ast : Mutants] :
     p.num = p.ast /\ p.base # p.ast}

\* What is found is fixed from the start, so this bounds whole behaviours: the
\* detectors find at most two vulnerabilities in a contract, the second one at
\* most one, and, the mutants being interchangeable, one assignment of the
\* findings to them stands for all.
Weight(a) == 2 * vulnerable[a][1] + vulnerable[a][2]
Representative ==
  /\ \A a \in AST : vulnerable[a][2] <= 1 /\ vulnerable[a][1] + vulnerable[a][2] <= 2
  /\ Weight(a1) <= Weight(a2) /\ Weight(a2) <= Weight(a3)
===========================================================================
