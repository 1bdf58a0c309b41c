----------------------------- MODULE MCWaitBusy -----------------------------
(* WaitBusy on small instances.                                            *)
EXTENDS WaitBusy, TLC

ClientSymmetry == Permutations(Clients)
=============================================================================
