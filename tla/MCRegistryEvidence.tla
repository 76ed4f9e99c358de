--------------------------- MODULE MCRegistryEvidence ---------------------------
(* Two runs under one deployment or two; a contract with up to two flaws *)
EXTENDS RegistryEvidence, TLC

MCFlaws == {F \in SUBSET Attacks : Cardinality(F) <= 2}

Symmetry == Permutations(Runs) \cup Permutations(Deployments)
=============================================================================
