---------------------------- MODULE MCElbeDaemon ----------------------------
(* ElbeDaemon on small instances.                                          *)
EXTENDS ElbeDaemon, TLC

\* Projects are interchangeable: no definition orders or names them.
ProjectSymmetry == Permutations(Projects)
=============================================================================
