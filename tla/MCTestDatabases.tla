--------------------------- MODULE MCTestDatabases ---------------------------
(***************************************************************************)
(* The two test packages of the repository, two names to draw, and two     *)
(* runs of the admin command that are killed and started over.             *)
(***************************************************************************)
EXTENDS TestDatabases, TLC

CONSTANTS bus, handler, a1, a2, n1, n2, jumble

MCSymmetry == Permutations({a1, a2}) \cup Permutations({n1, n2})
==============================================================================
