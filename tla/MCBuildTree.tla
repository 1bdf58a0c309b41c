----------------------------- MODULE MCBuildTree -----------------------------
(* BuildTree with two source packages; the sizes come from the config, so that a  *)
(* disk holds only one of them.                                               *)
EXTENDS BuildTree

MCSizeOf(p) == p
MCGrows(p) == p + 1
=============================================================================
