---------------------------- MODULE MCMessageStore ----------------------------
(* Instances of MessageStore for TLC.                                       *)
EXTENDS MessageStore, TLC

TargetSymmetry == Permutations(Targets)
=============================================================================
