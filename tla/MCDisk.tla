------------------------------- MODULE MCDisk -------------------------------
(* Instances of Disk for TLC.                                                *)
EXTENDS Disk, TLC

ThreadBlockSymmetry == Permutations(Thread) \cup Permutations(Block)
=============================================================================
