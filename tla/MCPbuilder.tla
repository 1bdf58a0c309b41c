----------------------------- MODULE MCPbuilder -----------------------------
(* Pbuilder on small instances.                                            *)
EXTENDS Pbuilder, TLC

ProjectSymmetry == Permutations(Projects)
=============================================================================
