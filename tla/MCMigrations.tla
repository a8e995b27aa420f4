---------------------------- MODULE MCMigrations ----------------------------
EXTENDS Migrations
CONSTANTS k1, k2
Keys == {k1, k2}
Symmetry == Permutations(Keys)
=============================================================================
