----------------------------- MODULE MCLogPipes ------------------------------
(* LogPipes with commands that print no complete line, or an empty one and a  *)
(* character of two bytes after it; the pipe is shorter than that.            *)
EXTENDS LogPipes

MCOutputs == {<<1>>, <<0, 2, 3>>}
MCCacheOutputs == {<<0>>}
=============================================================================
