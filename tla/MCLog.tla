------------------------------- MODULE MCLog --------------------------------
(* Instances of Log for TLC.                                                 *)
EXTENDS Log, TLC

OpBlockSymmetry == Permutations(Op) \cup Permutations(Block)
=============================================================================
