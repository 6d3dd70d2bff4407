------------------------------ MODULE MCMigrate ------------------------------
(* Migrate with three processes and the four migrations of the repository.   *)
EXTENDS Migrate, TLC

CONSTANTS r1, r2, r3

MCRunners == {r1, r2, r3}
Symmetry == Permutations(MCRunners)
=============================================================================
